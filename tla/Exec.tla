--------------------------------- MODULE Exec ---------------------------------
(* The session of the execution instances of one CPU                          *)
(* (Source/hybrid/bm_exec.c).                                                  *)
(*                                                                             *)
(* The main loop initialises, binds, starts, drains and stops the instances,   *)
(* hook by hook, and every hook may fail.  Between any two of its steps a      *)
(* hardware or timer interrupt may come, whose trampoline runs a slot of an    *)
(* instance if the session is open.  A block callback or a deadline handler,   *)
(* called by a drain, may itself stop everything.  A build with routed CPUs    *)
(* opens the session first and starts the timer later.                         *)
(*                                                                             *)
(* What the instances claim of the hardware and the data is checked before     *)
(* they are initialised (Source/hybrid/bm_resource.c); the check looks at the  *)
(* tables alone, and has its own state here, which starts in ClaimsInit.       *)
EXTENDS Naturals, FiniteSets

CONSTANTS
    N,          \* instances in the table (count)
    Routed,     \* BM_CPU_LOCAL_ENABLE_ROUTE
    Budget,     \* bm_exec_drain_streams(budget)
    MaxReady,   \* bound of the model: blocks waiting in a stream
    Claimants,  \* the instances that claim something
    Resources,  \* a class and a key
    Undefined,  \* a resource whose class is none of those defined
    Groups,     \* share_group, a set of numbers; 0 is no group
    MaxClaims   \* BM_CONFIG_MAX_RESOURCE_CLAIMS

ExecAssumption ==
    /\ N \in Nat \ {0} /\ Routed \in BOOLEAN
    /\ Budget \in Nat \ {0} /\ MaxReady \in Nat
ResourceAssumption ==
    Claimants \subseteq Nat /\ 0 \in Groups /\ Undefined \notin Resources /\ MaxClaims \in Nat

Inst == 1 .. N

VARIABLES
    session,   \* state->session
    count,     \* state->instance_count
    initDone,  \* state->init_done_count
    bound,     \* the instances whose hardware slots have a binding
    hrtReady,  \* bm_hrt_init has been called (initialized, in bm_hrt.c)
    hrtOn,     \* bm_hrt_start has been called (started)
    hook,      \* the last of its hooks an instance has completed
    ready,     \* blocks waiting in the stream of each instance
    pc, at,    \* the main loop: its step, and the instance it is at
    after,     \* where a stop returns to
    drained,   \* blocks taken by the drain under way
    block,     \* the instance whose block callback runs, 0 if none
    running,   \* the instance whose slot an interrupt runs, 0 if none
    claims,    \* what the instances claim, in the order of the table
    verdict    \* of bm_resource_check_conflicts

hrt == <<hrtReady, hrtOn>>
drain == <<drained, block>>
vars == <<session, count, initDone, bound, hrt, hook, ready, pc, at, after, drain, running>>

Init ==
    /\ session = "NONE" /\ count = 0 /\ initDone = 0
    /\ bound = {} /\ hrtReady = FALSE /\ hrtOn = FALSE
    /\ hook = [i \in Inst |-> "off"]
    /\ ready = [i \in Inst |-> 0]
    /\ pc = "idle" /\ at = 0 /\ after = "idle"
    /\ drained = 0 /\ block = 0
    /\ running = 0

Main(label) == pc = label /\ running = 0
Goto(label) == pc' = label
SetHook(i, h) == hook' = [hook EXCEPT ![i] = h]

-----------------------------------------------------------------------------
(* exec_teardown_session and exec_abort_session: they differ in where the      *)
(* cleanup begins.                                                             *)

\* What a call that stops the session does first.
Close(then) ==
    /\ session' = "STOPPING"
    /\ Goto("stopHrt")
    /\ after' = then

StopHrt ==
    /\ Main("stopHrt")
    /\ hrtOn' = FALSE
    /\ Goto("unbind")
    /\ UNCHANGED <<session, count, initDone, bound, hrtReady, hook, ready, at, after, drain,
                   running>>

LeaveBound ==
    /\ Main("unbind")
    /\ Goto("safeStop")
    /\ UNCHANGED <<session, count, initDone, bound, hrt, hook, ready, at, after, drain, running>>

Unbind ==
    /\ Main("unbind")
    /\ bound' = {}
    /\ Goto("safeStop")
    /\ UNCHANGED <<session, count, initDone, hrt, hook, ready, at, after, drain, running>>

\* In the order of the table: not what the code does.
SafeStopForwards ==
    /\ Main("safeStop") /\ at > 0
    /\ SetHook(count + 1 - at, "safe")
    /\ at' = at - 1
    /\ UNCHANGED <<session, count, initDone, bound, hrt, ready, pc, after, drain, running>>

SafeStop ==
    /\ Main("safeStop") /\ at > 0
    /\ SetHook(at, "safe")
    /\ at' = at - 1
    /\ UNCHANGED <<session, count, initDone, bound, hrt, ready, pc, after, drain, running>>

\* bm_hrt_reset and exec_clear_runtime; session NONE is stored last.
Clear ==
    /\ Main("safeStop") /\ at = 0
    /\ hrtReady' = FALSE /\ hrtOn' = FALSE
    /\ count' = 0 /\ initDone' = 0
    /\ session' = "NONE"
    /\ Goto(after) /\ after' = "idle"
    /\ UNCHANGED <<bound, hook, ready, at, drain, running>>

Teardown(then) ==
    /\ Close(then)
    /\ at' = count
    /\ UNCHANGED <<count, initDone, bound, hrt, hook, ready, running>>

AbortFromHere == IF at > 0 THEN at - 1 ELSE 0
AbortFrom == initDone
Abort ==
    /\ Close("idle")
    /\ at' = AbortFrom
    /\ UNCHANGED <<count, initDone, bound, hrt, ready, drain, running>>

SafeStopAll ==
    /\ Main("idle")
    /\ Teardown("idle")
    /\ UNCHANGED drain

-----------------------------------------------------------------------------
(* bm_exec_init_all: whatever ran before is torn down first.                  *)

InitAll ==
    /\ Main("idle")
    /\ Teardown("assemble")
    /\ UNCHANGED drain

\* A table that is not valid, or a timer that refuses its slots: nothing is kept.
RefuseTable ==
    /\ Main("assemble")
    /\ Goto("idle")
    /\ UNCHANGED <<session, count, initDone, bound, hrt, hook, ready, at, after, drain,
                   running>>

Assemble ==
    /\ Main("assemble")
    /\ count' = N
    /\ hrtReady' = TRUE
    /\ Goto("init") /\ at' = 1
    /\ UNCHANGED <<session, initDone, bound, hrtOn, hook, ready, after, drain, running>>

InitOne ==
    /\ Main("init") /\ at <= count
    /\ SetHook(at, "inited")
    /\ initDone' = initDone + 1
    /\ at' = at + 1
    /\ UNCHANGED <<session, count, bound, hrt, ready, pc, after, drain, running>>

FailInit ==
    /\ Main("init") /\ at <= count
    /\ Abort
    /\ SetHook(at, "failed")

\* validate_stream_owner, after the hooks have set up the streams.
RefuseStreams ==
    /\ Main("init") /\ at > count
    /\ Abort
    /\ UNCHANGED hook

AcceptStreams ==
    /\ Main("init") /\ at > count
    /\ Goto("bind") /\ at' = 1
    /\ UNCHANGED <<session, count, initDone, bound, hrt, hook, ready, after, drain, running>>

BindOne ==
    /\ Main("bind") /\ at <= count
    /\ bound' = bound \cup {at}
    /\ at' = at + 1
    /\ UNCHANGED <<session, count, initDone, hrt, hook, ready, pc, after, drain, running>>

FailBind ==
    /\ Main("bind") /\ at <= count
    /\ Abort
    /\ UNCHANGED hook

InitDone ==
    /\ Main("bind") /\ at > count
    /\ session' = "INITED"
    /\ Goto("idle") /\ at' = 0
    /\ UNCHANGED <<count, initDone, bound, hrt, hook, ready, after, drain, running>>

-----------------------------------------------------------------------------
(* bm_exec_start_all and bm_exec_irq_release_all.                             *)

\* In any other session the call is refused.
StartAll ==
    /\ Main("idle")
    /\ session = "INITED"
    /\ Goto("start") /\ at' = 1
    /\ UNCHANGED <<session, count, initDone, bound, hrt, hook, ready, after, drain, running>>

StartOne ==
    /\ Main("start") /\ at <= count
    /\ SetHook(at, "started")
    /\ at' = at + 1
    /\ UNCHANGED <<session, count, initDone, bound, hrt, ready, pc, after, drain, running>>

FailStart ==
    /\ Main("start") /\ at <= count
    /\ Abort
    /\ UNCHANGED hook

\* The table handed in is not the one of bm_exec_init_all at this entry.
RefuseEntry ==
    /\ Main("start") /\ at <= count
    /\ Goto("idle") /\ at' = 0
    /\ UNCHANGED <<session, count, initDone, bound, hrt, hook, ready, after, drain, running>>

ButOneStarted == at >= count
EveryOneStarted == at > count
OpenFirst == "open"
AfterStart == IF Routed THEN "open" ELSE "hrt"

AllStarted ==
    /\ Main("start") /\ EveryOneStarted
    /\ Goto(AfterStart) /\ at' = 0
    /\ UNCHANGED <<session, count, initDone, bound, hrt, hook, ready, after, drain, running>>

\* bm_hrt_start; that it was on already is no error.
StartHrt ==
    /\ Main("hrt")
    /\ hrtReady
    /\ hrtOn' = TRUE
    /\ Goto(IF session = "STARTED" THEN "idle" ELSE "open")
    /\ UNCHANGED <<session, count, initDone, bound, hrtReady, hook, ready, at, after, drain,
                   running>>

FailHrt ==
    /\ Main("hrt")
    /\ Abort
    /\ UNCHANGED hook

Open ==
    /\ Main("open")
    /\ session' = "STARTED"
    /\ Goto("idle")
    /\ UNCHANGED <<count, initDone, bound, hrt, hook, ready, at, after, drain, running>>

IrqRelease ==
    /\ Routed
    /\ Main("idle")
    /\ session = "STARTED"
    /\ Goto("hrt")
    /\ UNCHANGED <<session, count, initDone, bound, hrt, hook, ready, at, after, drain, running>>

-----------------------------------------------------------------------------
(* bm_exec_drain_streams.                                                     *)

BeginDrain ==
    /\ Main("idle")
    /\ session = "STARTED"
    /\ Goto("drain") /\ at' = 1
    /\ UNCHANGED <<session, count, initDone, bound, hrt, hook, ready, after, drain, running>>

\* The block is taken, and its callback, or the deadline handler, is called.
TakeBlock ==
    /\ Main("drain") /\ at \in Inst /\ drained < Budget
    /\ ready[at] > 0
    /\ ready' = [ready EXCEPT ![at] = @ - 1]
    /\ block' = at
    /\ Goto("callback")
    /\ UNCHANGED <<session, count, initDone, bound, hrt, hook, at, after, drained, running>>

\* The callback stops everything; the drain goes on where it returns.
StopInCallback ==
    /\ Main("callback")
    /\ Teardown("returned")
    /\ UNCHANGED drain

Return ==
    /\ Main("callback")
    /\ Goto("returned")
    /\ UNCHANGED <<session, count, initDone, bound, hrt, hook, ready, at, after, drain, running>>

DoNotLook == TRUE
StillOpen == session = "STARTED"

\* The loop of the drain holds the slot in a local, and would go on with it although
\* the table is gone.
GoOn ==
    /\ Main("returned")
    /\ StillOpen
    /\ drained' = drained + 1
    /\ at' = block /\ block' = 0
    /\ Goto("drain")
    /\ UNCHANGED <<session, count, initDone, bound, hrt, hook, ready, after, running>>

Leave ==
    /\ Main("returned")
    /\ ~StillOpen
    /\ drained' = 0 /\ block' = 0
    /\ Goto("idle") /\ at' = 0
    /\ UNCHANGED <<session, count, initDone, bound, hrt, hook, ready, after, running>>

NextStream ==
    /\ Main("drain") /\ at \in Inst /\ drained < Budget
    /\ ready[at] = 0
    /\ at' = IF at < count THEN at + 1 ELSE N + 1
    /\ UNCHANGED <<session, count, initDone, bound, hrt, hook, ready, pc, after, drain, running>>

EndDrain ==
    /\ Main("drain")
    /\ at > N \/ drained >= Budget
    /\ Goto("idle") /\ at' = 0 /\ drained' = 0
    /\ UNCHANGED <<session, count, initDone, bound, hrt, hook, ready, after, block, running>>

-----------------------------------------------------------------------------
(* Interrupts.                                                                *)

\* A block is committed to a stream.
Commit(i) ==
    /\ running = 0
    /\ ready[i] < MaxReady
    /\ ready' = [ready EXCEPT ![i] = @ + 1]
    /\ UNCHANGED <<session, count, initDone, bound, hrt, hook, pc, at, after, drain, running>>

NoGate == session # "NONE"
GateOpen == session = "STARTED"

\* bm_exec_run_binding, from a hardware slot or from a periodic slot of the timer.
Enter(i) ==
    /\ running = 0
    /\ i \in bound \/ (hrtOn /\ i <= count)
    /\ GateOpen
    /\ running' = i
    /\ UNCHANGED <<session, count, initDone, bound, hrt, hook, ready, pc, at, after, drain>>

Exit ==
    /\ running # 0
    /\ running' = 0
    /\ UNCHANGED <<session, count, initDone, bound, hrt, hook, ready, pc, at, after, drain>>

Stopping == StopHrt \/ Unbind \/ SafeStop \/ Clear \/ SafeStopAll

Initialising ==
    \/ InitAll \/ RefuseTable \/ Assemble \/ InitOne \/ FailInit
    \/ RefuseStreams \/ AcceptStreams \/ BindOne \/ FailBind \/ InitDone

Starting ==
    \/ StartAll \/ StartOne \/ FailStart \/ RefuseEntry \/ AllStarted
    \/ StartHrt \/ FailHrt \/ Open \/ IrqRelease

Draining ==
    \/ BeginDrain \/ TakeBlock \/ StopInCallback \/ Return \/ GoOn \/ Leave
    \/ NextStream \/ EndDrain

Next ==
    \/ Stopping
    \/ Initialising
    \/ Starting
    \/ Draining
    \/ \E i \in Inst : Commit(i) \/ Enter(i)
    \/ Exit

Spec == Init /\ [][Next]_vars

-----------------------------------------------------------------------------
(* bm_resource_check_conflicts: the claims are compared in three passes, and   *)
(* the first refusal is the answer.                                            *)

Accesses == {"EXCLUSIVE", "OWNER", "READ", "COORDINATED"}
Claim == [inst : Claimants, res : Resources \cup {Undefined}, access : Accesses, group : Groups]

ClaimsInit ==
    /\ claims \in UNION {[1 .. n -> Claim] : n \in 1 .. MaxClaims}
    /\ \A i, j \in DOMAIN claims : i < j => claims[i].inst <= claims[j].inst
    /\ verdict = "none"

Pairs == {p \in (DOMAIN claims) \X (DOMAIN claims) : p[1] < p[2]}
EqualGroup(a, b) == a.group = b.group
SameGroup(a, b) == a.group # 0 /\ a.group = b.group

\* access_pair_compatible
Compatible(a, b) ==
    CASE {a.access, b.access} = {"OWNER", "READ"} -> SameGroup(a, b)
      [] {a.access, b.access} = {"READ"} -> TRUE
      [] {a.access, b.access} = {"COORDINATED"} -> SameGroup(a, b)
      [] OTHER -> FALSE

Duplicate == \E p \in Pairs :
    claims[p[1]].inst = claims[p[2]].inst /\ claims[p[1]].res = claims[p[2]].res

Conflict == \E p \in Pairs :
    LET a == claims[p[1]]
        b == claims[p[2]]
    IN  a.res = b.res /\ a.inst # b.inst /\ ~Compatible(a, b)

Coordinated == {i \in DOMAIN claims : claims[i].access = "COORDINATED"}
Uncoordinated == \E i \in Coordinated : claims[i].group = 0

\* validate_owner_reader_pairs
With(i, access) ==
    {j \in DOMAIN claims : claims[j].res = claims[i].res /\ claims[j].access = access}
AnyReader(i) == FALSE
Unowned(i) ==
    /\ With(i, "READ") # {}
    /\ \/ ~\E o \in With(i, "OWNER") : With(i, "OWNER") = {o}
       \/ \E j \in With(i, "READ") \cup With(i, "OWNER") : claims[j].group = 0

Verdict ==
    IF \/ \E i \in DOMAIN claims : claims[i].res = Undefined
       \/ Duplicate
    THEN "INVALID"
    ELSE IF Conflict THEN "BUSY"
    ELSE IF Uncoordinated \/ \E i \in DOMAIN claims : Unowned(i) THEN "INVALID"
    ELSE "OK"

Check ==
    /\ verdict = "none"
    /\ verdict' = Verdict
    /\ UNCHANGED claims

-----------------------------------------------------------------------------
\* The state is well-formed: the instances that completed their init come first in
\* the table.
TypeOK ==
    /\ session \in {"NONE", "INITED", "STARTED", "STOPPING"}
    /\ count \in {0, N} /\ initDone \in 0 .. count
    /\ bound \subseteq 1 .. count
    /\ hrtReady \in BOOLEAN /\ hrtOn \in BOOLEAN /\ (hrtOn => hrtReady)
    /\ hook \in [Inst -> {"off", "inited", "failed", "started", "safe"}]
    /\ ready \in [Inst -> 0 .. MaxReady]
    /\ pc \in {"idle", "stopHrt", "unbind", "safeStop", "assemble", "init", "bind", "start",
               "hrt", "open", "drain", "callback", "returned"}
    /\ at \in 0 .. N + 1 /\ after \in {"idle", "assemble", "returned"}
    /\ drained \in 0 .. Budget
    /\ block \in 0 .. N /\ running \in 0 .. N

\* The slot of an instance runs in an interrupt, and its block callback in a drain,
\* only while every instance is started: never before the last has been, and never
\* after a stop has begun, wherever in the start, the stop, the binding or the
\* rollback the interrupt comes (bm_exec.c:293-305, 441-486, 882-908).
RunsOnlyStarted ==
    /\ running # 0 => \A i \in Inst : hook[i] = "started"
    /\ pc = "callback" => \A i \in Inst : hook[i] = "started"

\* Nothing is left behind: when no session is open and no call is under way, every
\* instance that completed its init has been stopped safely, no hardware slot has
\* a binding and the timer is off, whichever hook failed
\* (bm_exec.c:441-486, 788-836, 882-905).
NothingLeft ==
    (pc = "idle" /\ session = "NONE") =>
        /\ \A i \in Inst : hook[i] \notin {"inited", "started"}
        /\ bound = {} /\ ~hrtOn

\* Instances are stopped in the reverse order of the table: when one is stopped,
\* none behind it is still up (bm_exec.c:449-454, 465-471).
ReverseCleanup ==
    \A i \in Inst :
        (hook[i] \in {"inited", "started"} /\ hook'[i] = "safe") =>
            \A j \in i + 1 .. N : hook[j] \notin {"inited", "started"}

\* An open session is complete: all instances are started and bound, and where the
\* timer is started with the session, it is on (bm_exec.c:895-909).
OpenIsComplete ==
    session = "STARTED" =>
        /\ \A i \in Inst : hook[i] = "started"
        /\ bound = Inst
        /\ ~Routed => hrtOn

(* The claims are accepted exactly if no resource has two that can disturb     *)
(* each other: it has one instance that writes, and all that read it are of    *)
(* its group; or those that use it have agreed on one group                    *)
(* (bm_resource.c:54-147, 259-298).                                            *)
Of(r) == {i \in DOMAIN claims : claims[i].res = r}
OneGroup(S) == \A i, j \in S : SameGroup(claims[i], claims[j])
Shared(r) ==
    \/ \E i \in Of(r) :
          /\ claims[i].access = "OWNER"
          /\ \A j \in Of(r) \ {i} : claims[j].access = "READ"
          /\ Of(r) # {i} => OneGroup(Of(r))
    \/ \A i \in Of(r) : claims[i].access = "COORDINATED" /\ OneGroup(Of(r))
    \/ \E i \in Of(r) : Of(r) = {i} /\ claims[i].access = "EXCLUSIVE"

AcceptsDisjoint ==
    verdict # "none" =>
        (verdict = "OK" <=>
            /\ Of(Undefined) = {}
            /\ \A p \in Pairs : claims[p[1]].inst = claims[p[2]].inst
                                    => claims[p[1]].res # claims[p[2]].res
            /\ \A r \in Resources : Shared(r))
=============================================================================
