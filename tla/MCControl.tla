------------------------------ MODULE MCControl ------------------------------
(* Instances for TLC of what one CPU runs and drives.  A behaviour is one of   *)
(* Topics: the table of modules ("modules") or the session of the execution    *)
(* instances ("session"), each also on a build with routed CPUs; a table of    *)
(* activities that is admitted ("table") and the schedule of one that was      *)
(* ("schedule"), whose ticks may also last too long ("long_ticks"); the claims *)
(* on resources; the slots of a CPU that are admitted by a response-time       *)
(* analysis and then run ("deadlines"); the owners of modules, events and      *)
(* peripherals ("partition"); the ticker; synchronised sampling; a line whose  *)
(* port keeps its time ("line"), or ends a frame late or fails it; an axis     *)
(* with a time to hold before a reversal ("axis") or without ("swift_axis"),   *)
(* whose timer's interrupt the application masks during its calls, and both    *)
(* with an interrupt that nobody masks ("bare_axis", "bare_swift_axis"); a     *)
(* pipeline of blocks; the inputs that stop the machine, polled ("stop",       *)
(* "limit", active at 0 "low_limit") or driven by edges ("edges"); a motor     *)
(* that is commanded from the main loop ("motor") or from its current loop     *)
(* ("motor_loop"); a battery; the bucket of a transport; a loop in fixed-point *)
(* numbers ("arithmetic").                                                     *)
(* The table of modules has a common one, one of one domain with the same      *)
(* priority, and two of another domain; the session has N instances.           *)
EXTENDS ModuleLifecycle, Integers

CONSTANTS
    rt, srt, aux, common, RT, SRT,  \* the modules and the domains of the table
    N, Budget, MaxReady,            \* the session
    Plan, LongPlan,                 \* the schedule, and one whose ticks last too long
    Claimants, Resources, Undefined, Groups, MaxClaims,
    Offered, Overhead, MaxSlots, MaxIter,                       \* the slots of a CPU
    NCpus, AnyCpu, NTypes, ModuleTables, Peripherals, AppResources, MaxEntries, MaxModules,
    MaxBindings, NInstances, HardRt,                            \* the partition
    TickerSlots, SlotPeriod, MaxCatchup, Room, MaxLate,         \* the ticker
    SyncDomains, NoDomain,                                      \* the sampling
    PreDelay, PostDelay, TxTimeout, RxIdle, LongestFrame, PollGap, \* the line
    Halves, MinHigh, DirSetup, DirHold, MaxPosition,            \* the axis
    StableTime, LongestInput,                                   \* the inputs
    AlignSteps, RampSteps, LockSteps, PerCall,                  \* the motor
    Full, Derated, RampRate, RecoverySteps, Failures,           \* the battery
    TokenRate, Burst, Alarm, Sizes, ClockMod, MaxIdle,          \* the bucket
    Topics

MCModules == {rt, srt, aux, common}
MCPrio == [m \in MCModules |-> CASE m = srt -> 2 [] m = aux -> 3 [] OTHER -> 1]
MCDomainOf ==
    [m \in MCModules |-> CASE m = rt -> RT [] m \in {srt, aux} -> SRT [] OTHER -> Common]
MCDomains == {RT, SRT}

VARIABLES
    topic,       \* what the behaviour is about
    session, count, initDone, bound, hrtReady, hrtOn, hook, ready, pc, at, after,
    drained, block, running,
    tick, isr, ttMain, ttEntries, snapshot, outbuf, bus, input, news, miss, stale,
    ttSince, gap, overruns,
    entries, minor, frames, returned,
    claims, verdict,
    mpSlots, mpBuilt, sinceRelease, left, jobAge, holder, held,
    modTable, declared, bindings, topology, divided, eventOwner, moduleOwner, admitted,
    past, slotAt, now, catchup, refused, queued, owed, done, counted,
    active, state, call, hw,
    lineDir, de, air, errors, age, fired, heard, lineMain, cut,
    half, dir, axisRunning, wait, hold, fault, position, step, pin, due, main, high,
    since, moved,
    nodes, initialized, prepared, blockIn, blockOut, rc,
    level, raw, filtered, stable, sinceRaw, triggered, inLatched, edge, sameFor, samples,
    seen, reported,
    focPhase, timer, lockTimer, focLatched, cmd, duty, outputs, focMain, within, aligned,
    ramped, slow,
    derLatched, elapsed, factor, flags, failed, healthy, faulty,
    ms, tokens, last, haveTime, sentAt, havePending, latency, excess, idle, waiting,
    setting, mem, recent, steady

sessionVars == <<session, count, initDone, bound, hrtReady, hrtOn, hook, ready, pc, at,
                 after, drained, block, running>>
scheduleVars == <<tick, isr, ttMain, ttEntries, snapshot, outbuf, bus, input, news, miss,
                  stale, ttSince, gap, overruns>>
tableVars == <<entries, minor, frames, returned>>
claimVars == <<claims, verdict>>
deadlineVars == <<mpSlots, mpBuilt, sinceRelease, left, jobAge, holder, held>>
partitionVars == <<modTable, declared, bindings, topology, divided, eventOwner,
                   moduleOwner, admitted>>
tickerVars == <<past, slotAt, now, catchup, refused, queued, owed, done, counted>>
syncVars == <<active, state, call, hw>>
lineVars == <<lineDir, de, air, errors, age, fired, heard, lineMain, cut>>
axisVars == <<half, dir, axisRunning, wait, hold, fault, position, step, pin, due, main,
              high, since, moved>>
pipeVars == <<nodes, initialized, prepared, blockIn, blockOut, rc>>
inputVars == <<level, raw, filtered, stable, sinceRaw, triggered, inLatched, edge, sameFor,
               samples, seen, reported>>
motorVars == <<focPhase, timer, lockTimer, focLatched, cmd, duty, outputs, focMain, within,
               aligned, ramped, slow>>
batteryVars == <<derLatched, elapsed, factor, flags, failed, healthy, faulty>>
bucketVars == <<ms, tokens, last, haveTime, sentAt, havePending, latency, excess, idle,
                waiting>>
loopVars == <<setting, mem, recent, steady>>
runVars == <<vars, sessionVars, scheduleVars, tickerVars, pipeVars>>
planVars == <<tableVars, claimVars, deadlineVars, partitionVars>>
deviceVars == <<syncVars, lineVars, axisVars>>
componentVars == <<inputVars, motorVars, batteryVars, bucketVars, loopVars>>
allVars == <<topic, runVars, planVars, deviceVars, componentVars>>

Session(routed) == INSTANCE Exec WITH Routed <- routed
Lifecycle(routed, nest) == INSTANCE ModuleLifecycle WITH Routed <- routed, MaxNest <- nest

\* The tables that are tried, in words of five bits: a period of 8 times 4, and 7 * 8,
\* are more than they hold.
InIsrEntries ==
    {[every |-> e[1], at |-> e[2], wcet |-> w, isr |-> TRUE] :
        e \in {<<1, 0>>, <<2, 0>>, <<2, 1>>, <<2, 2>>, <<3, 1>>, <<5, 0>>, <<8, 3>>},
        w \in {3, 31}}
InMainEntries ==
    {[every |-> e, at |-> 0, wcet |-> 31, isr |-> FALSE] : e \in {0, 5, 7}}

\* One activity of the ISR domain in every tick, one of the main loop in every other;
\* the inputs of the second may be one period old.
MCPlan ==
    [n |-> 2, every |-> <<1, 2>>, at |-> <<0, 1>>, limit |-> <<0, 1>>, inIsr |-> {1},
     frames |-> 2, budget |-> 1, nest |-> 1, oldest |-> 3]
\* One activity of the ISR domain, whose ticks are preempted by the next.
MCLongPlan ==
    [n |-> 1, every |-> <<1>>, at |-> <<0>>, limit |-> <<0>>, inIsr |-> {1},
     frames |-> 1, budget |-> 1, nest |-> 2, oldest |-> 2]
Schedule(p) == INSTANCE TtSchedule WITH
    N <- p.n, Every <- p.every, AtTick <- p.at, Limit <- p.limit, InIsr <- p.inIsr,
    NFrames <- p.frames, Budget <- p.budget, MaxNest <- p.nest, Oldest <- p.oldest,
    main <- ttMain, rt <- ttEntries, since <- ttSince,
    Entries <- InIsrEntries \cup InMainEntries, Minors <- {0, 3, 4, 31}, MaxEntries <- 3,
    MaxFrames <- 8, WordMod <- 32

Slot(w, c, p, d, b) == [wcet |-> w, cost |-> c, period |-> p, deadline |-> d, blocking |-> b]
MCOffered ==
    {Slot(1, 0, 3, 2, 0), Slot(1, 1, 4, 4, 1), Slot(2, 0, 5, 5, 0), Slot(1, 0, 2, 2, 1),
     Slot(1, 1, 3, 5, 0), Slot(3, 0, 2, 2, 0), Slot(2, 0, 6, 4, 1), Slot(1, 0, 4, 3, 1)}
MCOverhead == Slot(2, 0, 9, 8, 0)
Deadlines == INSTANCE MpSchedule WITH table <- mpSlots, built <- mpBuilt, age <- jobAge

Module(o, e) == [owner |-> o, events |-> e]
MCModuleTables ==
    {<<Module(AnyCpu, {0}), Module(AnyCpu, {})>>, <<Module(1, {}), Module(AnyCpu, {1})>>,
     <<Module(AnyCpu, {}), Module(0, {1})>>, <<Module(2, {}), Module(0, {})>>}
Partition == INSTANCE MpPartition WITH modules <- modTable, built <- divided

MCSlotPeriod == <<2, 3>>
Slots == INSTANCE Ticker WITH Slots <- TickerSlots, Period <- SlotPeriod, at <- slotAt

Sampling == INSTANCE Sync WITH Domains <- SyncDomains

Line(Faults) == INSTANCE Rs485 WITH
    Pre <- PreDelay, Post <- PostDelay, Timeout <- TxTimeout, IdleTime <- RxIdle,
    Longest <- LongestFrame, dir <- lineDir, main <- lineMain

\* Velocities with half periods that are too short, and with longer ones.  The code
\* masks nothing: an application may, or may let the timer interrupt its calls.
Axis(Hold) == INSTANCE StepperPulse WITH
    Setup <- DirSetup, Masked <- TRUE, MayFail <- TRUE, running <- axisRunning
BareAxis(Hold) == INSTANCE StepperPulse WITH
    Setup <- DirSetup, Masked <- FALSE, MayFail <- TRUE, running <- axisRunning
BareAxes == {"bare_axis", "bare_swift_axis"}

\* Nodes that say what they take and give, and some that take anything.
Node(f, g, b, p, e, n) ==
    [in |-> f, out |-> g, bypass |-> b, process |-> p, fails |-> e, length |-> n]
PlainNode == Node(1, 1, FALSE, TRUE, FALSE, 0)
PipeNodes ==
    {PlainNode, Node(1, 2, FALSE, TRUE, FALSE, 2),
     Node(2, 2, TRUE, TRUE, FALSE, 0), Node(1, 2, TRUE, TRUE, FALSE, 0),
     Node(0, 0, FALSE, FALSE, FALSE, 0), Node(0, 2, FALSE, TRUE, TRUE, 0),
     Node(2, 0, FALSE, TRUE, FALSE, 1)}
Chain == INSTANCE Pipeline WITH
    Formats <- {1, 2}, NodeSets <- {<<a, b>> : a, b \in PipeNodes}, Capacity <- 2,
    input <- blockIn, output <- blockOut

Switches == {"limit", "low_limit", "edges"}
Input(t) == INSTANCE SafetyInput WITH
    IsLimit <- t \in Switches, Stable <- IF t = "edges" THEN 0 ELSE StableTime,
    Edges <- CASE t = "edges" -> {"rising", "falling"} [] t = "low_limit" -> {"falling"}
               [] OTHER -> {"rising"},
    Longest <- LongestInput, latched <- inLatched, pending <- edge

Motor(FromMain) == INSTANCE FocSensorless WITH
    phase <- focPhase, latched <- focLatched, main <- focMain

Battery == INSTANCE Derating WITH Rate <- RampRate, latched <- derLatched

Bucket == INSTANCE TokenBucket WITH Rate <- TokenRate, now <- ms

\* Gains with which the sums reach past the limits of the output, and past the numbers.
\* The windows change to one that needs another length of the memory.
Gains(a) ==
    [algo |-> a, dt |-> 6, kp |-> 5, ki |-> 6, kd |-> 2, alpha |-> 4, b |-> 4, ref |-> 3,
     imin |-> -8, imax |-> 7, min |-> -4, max |-> 5, inputs |-> {-8, -2, 1, 7}]
LoopSettings ==
    LET all == -8 .. 7
        some == {-8, 3}
    IN  {Gains(a) : a \in {"pi", "pid", "pid15", "pid2"}}
        \cup {[algo |-> a, dt |-> 4, up |-> u, down |-> 5, inputs |-> all] :
                 a \in {"rate", "ramp"}, u \in {2, 7}}
        \cup {[algo |-> a, alpha |-> u, inputs |-> all] : a \in {"lpf", "envelope"}, u \in {3, 7}}
        \cup {[algo |-> "hpf", alpha |-> u, inputs |-> all] : u \in {-8, 0, 7}}
        \cup {[algo |-> a, win |-> 3, windows |-> {2, 3}, inputs |-> some] : a \in {"avg", "rms"}}
        \cup {[algo |-> "median", win |-> 3, windows |-> {3, 5}, inputs |-> some]}
        \cup {[algo |-> "trapezoid", dt |-> 4, maxVel |-> 5, accel |-> 5, decel |-> 3,
               speeds |-> s, inputs |-> {-8, 1, 7}] : s \in {{0}, {-8, 0, 3}}}
        \cup {[Gains("pi") EXCEPT !.max = 7], [Gains("pi") EXCEPT !.min = -8]}
Loop == INSTANCE FixedPoint WITH F <- 3, Settings <- LoopSettings, MaxRecent <- 6

ASSUME ControlAssumption ==
    /\ Session(FALSE)!ExecAssumption
    /\ \A p \in {Plan, LongPlan} : Schedule(p)!TtAssumption
    /\ Plan.nest = 1
    /\ Deadlines!ScheduleAssumption /\ Partition!PartitionAssumption
    /\ Session(FALSE)!ResourceAssumption /\ Slots!TickerAssumption
    /\ Sampling!SyncAssumption /\ Line({})!Rs485Assumption
    /\ \A h \in {0, DirHold} : Axis(h)!StepperAssumption /\ BareAxis(h)!StepperAssumption
    /\ Chain!PipelineAssumption /\ \A t \in Switches \cup {"stop"} : Input(t)!InputAssumption
    /\ \A f \in BOOLEAN : Motor(f)!FocAssumption
    /\ Battery!DeratingAssumption /\ Bucket!BucketAssumption /\ Loop!FixedPointAssumption

ControlInit ==
    /\ topic \in Topics
    /\ IF topic = "partition" THEN TRUE ELSE modTable = CHOOSE t \in ModuleTables : TRUE
    /\ IF topic = "pipeline" THEN TRUE ELSE nodes = [i \in 1 .. 2 |-> PlainNode]
    /\ IF topic \in Switches \cup {"stop"} THEN TRUE ELSE level = 0
    /\ IF topic = "bucket" THEN TRUE ELSE ms = 0
    /\ IF topic = "arithmetic" THEN TRUE
       ELSE setting = CHOOSE g \in LoopSettings : g.algo = "hpf" /\ g.alpha = 0
    /\ Init /\ Session(FALSE)!Init
    /\ IF topic = "long_ticks" THEN Schedule(LongPlan)!Init ELSE Schedule(Plan)!Init
    /\ IF topic = "table" THEN Schedule(Plan)!TableInit
       ELSE entries = <<>> /\ minor = 0 /\ frames = 0 /\ returned = FALSE
    /\ IF topic = "claims" THEN Session(FALSE)!ClaimsInit ELSE claims = <<>> /\ verdict = "none"
    /\ Deadlines!Init /\ Partition!Init
    /\ Slots!Init /\ Sampling!Init /\ Line({})!Init /\ Axis(0)!Init
    /\ Chain!Init /\ Input("stop")!Init /\ Motor(TRUE)!Init /\ Battery!Init /\ Bucket!Init
    /\ Loop!Init

RunNext ==
    \/ /\ \/ topic = "modules" /\ Lifecycle(Routed, MaxNest)!Next
          \/ topic = "routed_modules" /\ Lifecycle(TRUE, 1)!Next
       /\ UNCHANGED <<sessionVars, scheduleVars, tickerVars, pipeVars>>
    \/ /\ \/ topic = "session" /\ Session(FALSE)!Next
          \/ topic = "routed_session" /\ Session(TRUE)!Next
       /\ UNCHANGED <<vars, scheduleVars, tickerVars, pipeVars>>
    \/ /\ \/ topic = "schedule" /\ Schedule(Plan)!Next
          \/ topic = "long_ticks" /\ Schedule(LongPlan)!Next
       /\ UNCHANGED <<vars, sessionVars, tickerVars, pipeVars>>
    \/ /\ \/ topic = "ticker" /\ Slots!Next /\ UNCHANGED pipeVars
          \/ topic = "pipeline" /\ Chain!Next /\ UNCHANGED tickerVars
       /\ UNCHANGED <<vars, sessionVars, scheduleVars>>
PlanNext ==
    \/ /\ \/ topic = "table" /\ Schedule(Plan)!TryTable /\ UNCHANGED claimVars
          \/ topic = "claims" /\ Session(FALSE)!Check /\ UNCHANGED tableVars
       /\ UNCHANGED <<deadlineVars, partitionVars>>
    \/ /\ \/ topic = "deadlines" /\ Deadlines!Next /\ UNCHANGED partitionVars
          \/ topic = "partition" /\ Partition!Next /\ UNCHANGED deadlineVars
       /\ UNCHANGED <<tableVars, claimVars>>
DeviceNext ==
    \/ topic = "sync" /\ Sampling!Next /\ UNCHANGED <<lineVars, axisVars>>
    \/ /\ \/ topic = "line" /\ Line({})!Next
          \/ topic = "late_line" /\ Line({"late"})!Next
          \/ topic = "failing_line" /\ Line({"error"})!Next
       /\ UNCHANGED <<syncVars, axisVars>>
    \/ /\ \/ topic = "axis" /\ Axis(DirHold)!Next
          \/ topic = "swift_axis" /\ Axis(0)!Next
          \/ topic = "bare_axis" /\ BareAxis(DirHold)!Next
          \/ topic = "bare_swift_axis" /\ BareAxis(0)!Next
       /\ UNCHANGED <<syncVars, lineVars>>
ComponentNext ==
    \/ /\ \E t \in Switches \cup {"stop"} : topic = t /\ Input(t)!Next
       /\ UNCHANGED <<motorVars, batteryVars, bucketVars, loopVars>>
    \/ /\ \/ topic = "motor" /\ Motor(TRUE)!Next
          \/ topic = "motor_loop" /\ Motor(FALSE)!Next
       /\ UNCHANGED <<inputVars, batteryVars, bucketVars, loopVars>>
    \/ /\ \/ topic = "battery" /\ Battery!Next /\ UNCHANGED <<bucketVars, loopVars>>
          \/ topic = "bucket" /\ Bucket!Next /\ UNCHANGED <<batteryVars, loopVars>>
          \/ topic = "arithmetic" /\ Loop!Next /\ UNCHANGED <<batteryVars, bucketVars>>
       /\ UNCHANGED <<inputVars, motorVars>>

ControlNext ==
    /\ UNCHANGED topic
    /\ \/ RunNext /\ UNCHANGED <<planVars, deviceVars, componentVars>>
       \/ PlanNext /\ UNCHANGED <<runVars, deviceVars, componentVars>>
       \/ DeviceNext /\ UNCHANGED <<runVars, planVars, componentVars>>
       \/ ComponentNext /\ UNCHANGED <<runVars, planVars, deviceVars>>

ControlSpec == ControlInit /\ [][ControlNext]_allVars

-----------------------------------------------------------------------------
(* Every component is well-formed in its own topics; in the others it rests.   *)
(* What a chain of nodes and a fixed-point loop make is with LoopsAreExact.    *)
TypesOK ==
    /\ topic \in {"modules", "routed_modules"} => TypeOK
    /\ topic \in {"session", "routed_session"} => Session(FALSE)!TypeOK
    /\ topic = "schedule" => Schedule(Plan)!TypeOK
    /\ topic = "long_ticks" => Schedule(LongPlan)!TypeOK
    /\ topic = "ticker" => Slots!TypeOK
    /\ topic = "sync" => Sampling!TypeOK
    /\ topic \in {"line", "late_line", "failing_line"} => Line({})!TypeOK
    /\ topic \in {"axis", "bare_axis"} => Axis(DirHold)!TypeOK
    /\ topic \in {"swift_axis", "bare_swift_axis"} => Axis(0)!TypeOK
    /\ topic \in Switches \cup {"stop"} => Input("stop")!TypeOK
    /\ topic \in {"motor", "motor_loop"} => Motor(TRUE)!TypeOK
    /\ topic = "battery" => Battery!TypeOK
    /\ topic = "bucket" => Bucket!TypeOK

(* Whatever fails and is rolled back or retried, a hook is called only when it *)
(* is due for its module, and no module is started before one of a smaller     *)
(* priority that the call covers.  The phase tells the truth: the table is     *)
(* UNINITIALIZED, and may be initialised again, only when no module is left    *)
(* behind.  On a routed build, where no call can take a failed cleanup for a   *)
(* success and no hook can begin a second traversal, READY is reached only     *)
(* through an init that went through (bm_module.c:252-279, 381-442).           *)
HooksInOrder ==
    /\ HooksAreDue /\ StartInOrder /\ UninitializedIsOff
    /\ topic = "routed_modules" =>
          Lifecycle(TRUE, 1)!ReadyIsComplete /\ Lifecycle(TRUE, 1)!NoReentry

(* A slot runs in an interrupt, and a block callback in a drain, only while    *)
(* every instance is started, wherever in a start, a stop or a rollback the    *)
(* interrupt comes; an open session is complete, with its timer on if it is    *)
(* the session that starts it; one that is closed has left no instance up, no  *)
(* slot bound and no timer on, whichever hook failed (bm_exec.c:441-486,       *)
(* 882-909).                                                                   *)
SessionIsTrue ==
    /\ Session(FALSE)!RunsOnlyStarted /\ Session(FALSE)!NothingLeft
    /\ topic = "session" => Session(FALSE)!OpenIsComplete
    /\ topic = "routed_session" => Session(TRUE)!OpenIsComplete

(* The claims of the instances are accepted exactly if nothing that writes can *)
(* disturb another user; a refused table of slots is left as it was; when a    *)
(* partition stands, every module runs on one CPU with the events it           *)
(* subscribes to, and no peripheral is used from two (bm_resource.c:54-147;    *)
(* bm_mp_profile.c:107, 194-196; bm_mp_partition.c:200-340).                   *)
AdmitsWhatWorks ==
    /\ topic = "claims" => Session(FALSE)!AcceptsDisjoint
    /\ Deadlines!OverheadOnlyBuilt
    /\ Partition!OneOwner /\ Partition!PeripheralsHaveOneCpu

(* An activity publishes whole outputs, none of which is overwritten, and      *)
(* keeps its period; an output is published one activation after its inputs    *)
(* were frozen, or as much later as overruns are counted, and inputs are       *)
(* called stale when they are.  The ticker accounts for every period of a      *)
(* slot, once (bm_tt_schedule.c:145-165, 244-274, 519, 648-726;                *)
(* bm_ticker.c:194-235).                                                       *)
PeriodsAreKept ==
    /\ [](/\ topic = "long_ticks" =>
                Schedule(LongPlan)!WholeOutputs /\ Schedule(LongPlan)!NothingOverwritten
          /\ topic = "schedule" =>
                /\ Schedule(Plan)!WholeOutputs /\ Schedule(Plan)!NothingOverwritten
                /\ Schedule(Plan)!EveryIsKept
          /\ Slots!EveryPeriodOnce)
    /\ [][topic = "schedule" =>
            \A a \in 1 .. Plan.n :
                Schedule(Plan)!LateIsCounted(a) /\ Schedule(Plan)!StaleIsRight(a)]_allVars

(* What a loop of the code computes is what is meant.  A table of activities   *)
(* with minor_us below the largest word is accepted exactly if its periods can *)
(* be kept, and when the slots of a CPU are admitted, none with a deadline     *)
(* after its period among them, none is ever late.  A pipeline gives each      *)
(* block to every node that is not bypassed, once and in order, in place as    *)
(* well as over two blocks, and what its last node says.  A regulator does not *)
(* wind up at a limit that is not the end of the numbers; a window gives its   *)
(* last samples, and no older one when it was filled again after its length    *)
(* changed; a profile reset to rest keeps its speed and is where it says, and  *)
(* a step of one reset at a speed makes it no faster than it was or may be and *)
(* ends it only at rest; a limiter keeps its pace, a filter approaches its     *)
(* input and a high pass survives its widest product: exactly, though sums are *)
(* saturated and quotients are cut off                                         *)
(* (bm_tt_schedule.c:301-361, 515-526; bm_mp_schedule.c:109-256;               *)
(* bm_pipeline.c:88-110, 202-279; bm_algo_fixed.c:239-435, 605-722, 788-1011,  *)
(* 1213-1335, 1616-1634, 3670-3706, 3913-3973).                                *)
LoopsAreExact ==
    /\ [](/\ topic = "table" => Schedule(Plan)!AcceptsKeepable
          /\ Deadlines!NoneIsLate
          /\ topic = "pipeline" => Chain!TypeOK /\ Chain!ChainHolds /\ Chain!EveryNodeOnce
          /\ topic = "arithmetic" => Loop!TypeOK
          /\ Loop!NoWindup /\ Loop!LastOnes /\ Loop!ProfileHolds)
    /\ [][topic = "arithmetic" =>
            /\ Loop!KeepsPace /\ Loop!Approaches /\ Loop!CutIsHarmless
            /\ Loop!ProfileArrives]_allVars

(* What a driver believes is what its hardware does, wherever an interrupt     *)
(* comes: the sampling domain, whatever fails in it; the driver of the line,   *)
(* where the port ends a frame late or never but reports no error; the steps   *)
(* of the axis, whatever fails in it, where the timer's interrupt is masked    *)
(* during the calls; its timer, masked or not; and a switch driven by edges.   *)
(* A line stops sending even when its port fails.  While a fault of a motor is *)
(* latched its bridge carries nothing, and a start goes through all its        *)
(* phases; a battery outside its limits is derated; no more is sent than the   *)
(* bucket allows (bm_sync.c:180-299; bm_rs485.c:107-132, 481-555;              *)
(* stepper_pulse.c:225-259, 325-378; bm_limit_switch.c:53-82;                  *)
(* motor_foc_sensorless.c:142-154, 319-481; bms_supervision.c:138-161;         *)
(* fault_derating.c:97-158; transport_qos.c:158-277).                          *)
DevicesAreTrue ==
    /\ Sampling!StateIsTrue
    /\ topic # "failing_line" => Line({})!DriverIsTrue
    /\ topic = "line" => Line({})!TailAfterSending
    /\ Line({})!SendingEnds
    /\ topic \notin BareAxes => Axis(0)!PositionIsTrue
    /\ Axis(0)!KeepsStepping
    /\ topic = "edges" => Input("edges")!EdgesAreFollowed
    /\ Motor(TRUE)!FaultIsSafe
    /\ IF topic = "motor_loop" THEN Motor(FALSE)!StartIsWhole ELSE Motor(TRUE)!StartIsWhole
    /\ Battery!LimitsAreFelt /\ Bucket!WithinRate

(* Instances are stopped, also by a rollback, in the reverse order of the      *)
(* table; a domain is triggered once for each time it is armed; the pins of an *)
(* axis keep the times of its driver where the timer's interrupt is masked     *)
(* during the calls, and where it is not, only a call that turns the direction *)
(* can be interrupted by a step that is counted wrong; an init that fails      *)
(* leaves no node prepared; an input that bounces is not reported, and one     *)
(* that is held is; a load is given back only after the time to recover; a     *)
(* latency is the time from the last send to its answer (bm_exec.c:449-471;    *)
(* bm_sync.c:239-259; stepper_pulse.c:225-259, 325-378; bm_pipeline.c:131-149; *)
(* bm_input_debounce.h:82-110; fault_derating.c:97-158; transport_qos.c:96-146,*)
(* 220-228).                                                                   *)
InputSteps ==
    \A t \in Switches \cup {"stop"} : topic = t =>
        Input(t)!BouncesAreIgnored /\ Input(t)!HeldIsReported
StepsInOrder ==
    [][/\ Session(FALSE)!ReverseCleanup
       /\ Sampling!OneShot
       /\ topic \notin BareAxes => Axis(0)!PinsInTime
       /\ BareAxis(0)!StepsAreCounted
       /\ Chain!NoneLeftPrepared /\ InputSteps
       /\ topic = "battery" => Battery!RisesWhenRecovered
       /\ topic = "bucket" => Bucket!LatencyIsTrue]_allVars

-----------------------------------------------------------------------------
(* include/bm/common/bm_stepper_pulse_service.h:39 and components/             *)
(* stepper_pulse/MATURITY.md:18: on a reversal STEP is lowered, is kept low    *)
(* for dir_hold_us, and then DIR turns.                                        *)
HoldIsKept == [][Axis(DirHold)!HoldIsKept]_allVars
=============================================================================
