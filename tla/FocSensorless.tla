----------------------------- MODULE FocSensorless ----------------------------
(* A motor without a position sensor (Source/component/motor_foc_sensorless.c): *)
(* the current loop, an interrupt, aligns the rotor, turns it open loop and     *)
(* then follows the observer; a fault is latched and the bridge is made safe.   *)
(* The command is read by the loop itself, or applied by the main loop, which   *)
(* the interrupt preempts anywhere.  Times are counted in steps of the loop;    *)
(* currents and voltages are left out: a step that gets to the end drives.      *)
EXTENDS Naturals

CONSTANTS
    AlignSteps, RampSteps, \* align_time_s, open_loop_ramp_s
    LockSteps,             \* observer_lock_time_s
    FromMain,              \* the main loop applies the commands and resets
    PerCall                \* so many interrupts come within one call at most

FocAssumption ==
    {AlignSteps, RampSteps, LockSteps} \subseteq Nat \ {0} /\ PerCall \in 0 .. AlignSteps - 1

VARIABLES
    phase, timer, lockTimer, latched,
    cmd,            \* status bits of the command
    duty, outputs,  \* the bridge: a duty that is not zero, outputs enabled
    main, within,   \* where the main loop is in a call, interrupts since it began
    aligned, ramped, slow \* history: steps in each phase since the last begin, steps
                          \*   without lock in a row

vars == <<phase, timer, lockTimer, latched, cmd, duty, outputs, main, within,
          aligned, ramped, slow>>
bridge == <<duty, outputs>>
history == <<aligned, ramped, slow>>

Phases == {"idle", "align", "open_loop", "observer", "fault"}
Commands == [enabled : BOOLEAN, fault : BOOLEAN]

Init ==
    /\ phase = "idle" /\ timer = 0 /\ lockTimer = 0 /\ latched = FALSE
    /\ cmd = [enabled |-> FALSE, fault |-> FALSE]
    /\ duty = FALSE /\ outputs = TRUE
    /\ main = "away" /\ within = 0
    /\ aligned = 0 /\ ramped = 0 /\ slow = 0

UpTo(n, max) == IF n < max THEN n + 1 ELSE max

-----------------------------------------------------------------------------
(* latch_fault, as a whole.                                                    *)
LatchFault ==
    /\ phase' = "fault" /\ latched' = TRUE
    /\ duty' = FALSE /\ outputs' = FALSE

(* One step of the current loop: bm_motor_foc_sensorless_exec_current.  Every  *)
(* read may fail; the observer may find the rotor slower than the lock speed.  *)
IgnoresLatch(c) == c.fault \/ phase = "fault"
Faulted(c) == latched \/ c.fault \/ phase = "fault"

StepInFault(c) == Faulted(c) /\ LatchFault /\ UNCHANGED <<timer, lockTimer, history>>

StepDisabled(c) ==
    /\ ~Faulted(c) /\ ~c.enabled
    /\ phase' = "idle" /\ duty' = FALSE
    /\ timer' = IF phase = "idle" THEN timer ELSE 0
    /\ UNCHANGED <<lockTimer, latched, outputs, history>>

\* begin_enable, if the loop finds the motor idle.
Begun == IF phase = "idle" THEN [phase |-> "align", timer |-> 0, lock |-> 0]
         ELSE [phase |-> phase, timer |-> timer, lock |-> lockTimer]

ReadFails(c) ==
    /\ ~Faulted(c) /\ c.enabled
    /\ LatchFault
    /\ timer' = Begun.timer + 1 /\ lockTimer' = Begun.lock
    /\ UNCHANGED history

AlignTime(t) == t >= AlignSteps
RampIsAlign(t) == t >= AlignSteps
RampTime(t) == t >= RampSteps

Drives ==
    /\ duty' = TRUE
    /\ UNCHANGED <<latched, outputs>>

StepAlign(c) ==
    /\ ~Faulted(c) /\ c.enabled /\ Begun.phase = "align"
    /\ aligned' = IF phase = "idle" THEN 1 ELSE UpTo(aligned, AlignSteps)
    /\ ramped' = 0 /\ slow' = 0
    /\ lockTimer' = Begun.lock
    /\ IF AlignTime(Begun.timer + 1)
       THEN phase' = "open_loop" /\ timer' = 0
       ELSE phase' = "align" /\ timer' = Begun.timer + 1
    /\ Drives

StepOpenLoop(c) ==
    /\ ~Faulted(c) /\ c.enabled /\ phase = "open_loop"
    /\ ramped' = UpTo(ramped, RampSteps)
    /\ IF RampTime(timer + 1)
       THEN phase' = "observer" /\ timer' = 0 /\ lockTimer' = 0
       ELSE phase' = phase /\ timer' = timer + 1 /\ lockTimer' = lockTimer
    /\ Drives
    /\ UNCHANGED <<aligned, slow>>

OneStep(isSlow) == IF isSlow THEN 1 ELSE 0
Lock(isSlow) == IF isSlow THEN lockTimer + 1 ELSE 0
StepObserver(c, isSlow) ==
    /\ ~Faulted(c) /\ c.enabled /\ phase = "observer"
    /\ lockTimer' = Lock(isSlow)
    /\ slow' = IF isSlow THEN UpTo(slow, LockSteps) ELSE 0
    /\ IF Lock(isSlow) >= LockSteps THEN LatchFault ELSE phase' = phase /\ Drives
    /\ UNCHANGED <<timer, aligned, ramped>>

Interrupt ==
    /\ \E c \in IF FromMain THEN {cmd} ELSE Commands :
          /\ cmd' = c
          /\ \/ StepInFault(c) \/ StepDisabled(c) \/ ReadFails(c)
             \/ StepAlign(c) \/ StepOpenLoop(c) \/ \E s \in BOOLEAN : StepObserver(c, s)
    /\ main # "stopped" /\ (main # "away" => within < PerCall)
    /\ within' = IF main = "away" THEN 0 ELSE within + 1
    /\ UNCHANGED main

-----------------------------------------------------------------------------
(* bm_motor_foc_sensorless_apply_command in the main loop, step by step.       *)
MoveTo(pc) ==
    /\ main' = pc
    /\ within' = IF pc = "away" THEN 0 ELSE within
Goes(pc) == MoveTo(pc) /\ UNCHANGED history

ApplyCommand ==
    /\ FromMain /\ main = "away"
    /\ cmd' \in Commands
    /\ Goes("applied")
    /\ UNCHANGED <<phase, timer, lockTimer, latched, bridge>>

Examine ==
    /\ main = "applied"
    /\ Goes(IF cmd.fault THEN "latch"
            ELSE IF cmd.enabled /\ phase = "idle" /\ ~latched THEN "begin" ELSE "away")
    /\ UNCHANGED <<phase, timer, lockTimer, latched, cmd, bridge>>

LatchPhase ==
    /\ main = "latch" /\ phase' = "fault" /\ Goes("latch_2")
    /\ UNCHANGED <<timer, lockTimer, latched, cmd, bridge>>
LatchFlag ==
    /\ main = "latch_2" /\ latched' = TRUE /\ Goes("latch_3")
    /\ UNCHANGED <<phase, timer, lockTimer, cmd, bridge>>
LatchBridge ==
    /\ main = "latch_3" /\ duty' = FALSE /\ outputs' = FALSE /\ Goes("away")
    /\ UNCHANGED <<phase, timer, lockTimer, latched, cmd>>

BeginPhase ==
    /\ main = "begin" /\ phase' = "align" /\ MoveTo("begin_2")
    /\ aligned' = IF phase = "align" THEN aligned ELSE 0
    /\ ramped' = 0 /\ slow' = 0
    /\ UNCHANGED <<timer, lockTimer, latched, cmd, bridge>>
BeginTimers ==
    /\ main = "begin_2" /\ timer' = 0 /\ lockTimer' = 0 /\ Goes("away")
    /\ UNCHANGED <<phase, latched, cmd, bridge>>

\* bm_motor_foc_sensorless_reset: the command stays, and so does the bridge.
ResetPhase ==
    /\ FromMain /\ main = "away" /\ phase' = "idle" /\ Goes("reset_2")
    /\ UNCHANGED <<timer, lockTimer, latched, cmd, bridge>>
ResetTimers ==
    /\ main = "reset_2" /\ timer' = 0 /\ lockTimer' = 0 /\ Goes("reset_3")
    /\ UNCHANGED <<phase, latched, cmd, bridge>>
ResetLatch ==
    /\ main = "reset_3" /\ latched' = FALSE /\ Goes("away")
    /\ UNCHANGED <<phase, timer, lockTimer, cmd, bridge>>

\* The session is closed and opened again: safe stop; then init, which resets, and start.
SafeStop ==
    /\ main = "away" /\ outputs' = FALSE /\ Goes("stopped")
    /\ UNCHANGED <<phase, timer, lockTimer, latched, cmd, duty>>
Reopen ==
    /\ main = "stopped"
    /\ phase' = "idle" /\ timer' = 0 /\ lockTimer' = 0 /\ latched' = FALSE
    /\ outputs' = TRUE
    /\ Goes("away")
    /\ UNCHANGED <<cmd, duty>>

MainLoop ==
    \/ ApplyCommand \/ Examine \/ LatchPhase \/ LatchFlag \/ LatchBridge
    \/ BeginPhase \/ BeginTimers \/ ResetPhase \/ ResetTimers \/ ResetLatch
    \/ SafeStop \/ Reopen

Next == Interrupt \/ MainLoop

Spec == Init /\ [][Next]_vars

-----------------------------------------------------------------------------
TypeOK ==
    /\ phase \in Phases /\ cmd \in Commands
    /\ {latched, duty, outputs} \subseteq BOOLEAN
    /\ timer \in 0 .. AlignSteps + RampSteps /\ lockTimer \in 0 .. LockSteps

(* While a fault is latched the bridge carries nothing, wherever the interrupt *)
(* comes in a command that latches, that enables, or in a reset; and a step    *)
(* that drives was enabled (motor_foc_sensorless.c:142-154, 319-336, 370-398). *)
FaultIsSafe ==
    latched /\ main # "latch_3" => ~duty /\ ~outputs

(* The motor is left to the observer only when it was aligned and turned open  *)
(* loop for their whole times since it was last begun, and a rotor that is     *)
(* lost for the lock time is given up (motor_foc_sensorless.c:423-481).        *)
StartIsWhole ==
    /\ phase = "observer" => aligned = AlignSteps /\ ramped = RampSteps
    /\ ~FromMain /\ slow = LockSteps => latched \/ phase # "observer"
===============================================================================
