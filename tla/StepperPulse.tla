----------------------------- MODULE StepperPulse -----------------------------
(* The STEP and DIR pins of one axis (Source/component/stepper_pulse.c): the   *)
(* main loop sets the velocity, and the one-shot timer of the adapter          *)
(* (stepper_pulse_hrtimer_adapter.c), asked to expire no later than a time,    *)
(* interrupts it and moves the pins.  The calls of the main loop take no lock: *)
(* the application masks the timer's interrupt around them (Masked), or the    *)
(* interrupt comes between their steps.                                        *)
(* A velocity is its direction and the half period it asks for.                *)
EXTENDS Integers

CONSTANTS
    Halves,      \* half periods velocities ask for
    MinHigh,     \* min_high_us; min_low_us is no longer
    Setup, Hold, \* dir_setup_us and dir_hold_us
    Masked,      \* the application masks the timer's interrupt while it calls
    MayFail,     \* a pin or the timer may refuse
    MaxPosition  \* bound: the axis moves so far

StepperAssumption ==
    /\ {MinHigh, Setup, Hold, MaxPosition} \subseteq Nat /\ {Masked, MayFail} \subseteq BOOLEAN
    /\ Halves \subseteq Nat \ {0} /\ \E t \in Halves : \A u \in Halves : u <= t

VARIABLES
    half, dir, running, wait, hold, fault, position, \* of the axis
    step, pin,   \* the level of STEP; the direction of the DIR pin
    due,         \* the timer: expires in so many ticks, or Off
    main,        \* the call in progress: its next step, and the direction it found
    high, since, \* history: how long STEP has been as it is; since DIR changed
    moved        \* history: steps the motor made, by its pins

axis == <<half, dir, running, wait, hold, fault, position>>
vars == <<axis, step, pin, due, main, high, since, moved>>

Times == Halves \cup {MinHigh, Setup, Hold}
Longest == CHOOSE t \in Times : \A u \in Times : u <= t
Off == -1

\* bm_stepper_pulse_half_period_us
Asked(h) == h
HalfPeriod(h) == IF h < MinHigh THEN MinHigh ELSE h

Rest == [at |-> "rest", dir |-> 1]

Init ==
    /\ half = Longest /\ dir = 1 /\ running = FALSE
    /\ wait = FALSE /\ hold = FALSE /\ fault = FALSE /\ position = 0
    /\ step = 0 /\ pin = 1 /\ due = Off /\ main = Rest
    /\ high = Longest /\ since = Longest /\ moved = 0

Older(n) == IF n < Longest THEN n + 1 ELSE n
Tick ==
    /\ due # 0
    /\ due' = IF due = Off THEN Off ELSE due - 1
    /\ high' = Older(high) /\ since' = Older(since)
    /\ UNCHANGED <<axis, step, pin, main, moved>>

\* bm_stepper_pulse_hrtimer_arm: it only ever shortens.
NoLater(t) == IF due = Off \/ t < due THEN t ELSE due

\* A pin that takes its level; STEP going up is a step in the direction of DIR.
Level(l) ==
    /\ step' = l
    /\ high' = IF l # step THEN 0 ELSE high
    /\ moved' = IF step = 0 /\ l = 1 THEN moved + pin ELSE moved
Direction(d) == pin' = d /\ since' = IF d # pin THEN 0 ELSE since

pins == <<step, pin, high, since, moved>>

\* bm_stepper_pulse_latch_gpio_fault, which lowers STEP and stops the timer (both
\* obey): a pin has refused, or the timer.
Halts ==
    /\ MayFail
    /\ fault' = TRUE /\ running' = FALSE /\ wait' = FALSE /\ hold' = FALSE
    /\ step' = 0 /\ due' = Off
Lowers == high' = IF step = 1 THEN 0 ELSE high
Latch == Halts /\ Lowers /\ UNCHANGED <<half, pin, since, position, moved>>

-----------------------------------------------------------------------------
(* The main loop: set_velocity, from its first line on                         *)
Call(at) == main' = [at |-> at, dir |-> dir]
Return == main' = Rest
Go(at) == main' = [main EXCEPT !.at = at]

SetVelocity(d, h) ==
    /\ main = Rest /\ ~fault
    /\ half' = HalfPeriod(h) /\ running' = TRUE
    /\ main' = [at |-> IF ~running THEN "begin" ELSE IF d # dir THEN "lower" ELSE "arm",
                dir |-> d]
    /\ UNCHANGED <<dir, wait, hold, fault, position, pins, due>>

Begin ==
    /\ main.at = "begin"
    /\ \/ /\ Direction(main.dir)
          /\ dir' = main.dir /\ wait' = TRUE
          /\ Go("arm")
          /\ UNCHANGED <<half, running, hold, fault, position, step, high, moved, due>>
       \/ Latch /\ Return /\ UNCHANGED dir

Lower ==
    /\ main.at = "lower"
    /\ \/ /\ Level(0) /\ Go("turn")
          /\ UNCHANGED <<axis, pin, since, due>>
       \/ step = 1 /\ Latch /\ Return /\ UNCHANGED dir

TurnLater == "arm"
TurnBy == IF Hold > 0 THEN "hold" ELSE "dir"
Turn ==
    /\ main.at = "turn"
    /\ dir' = main.dir /\ wait' = FALSE /\ hold' = FALSE
    /\ Go(TurnBy)
    /\ UNCHANGED <<half, running, fault, position, pins, due>>
AskHold ==
    /\ main.at = "hold"
    /\ hold' = TRUE
    /\ Go("arm_hold")
    /\ UNCHANGED <<half, dir, running, wait, fault, position, pins, due>>
TurnPin ==
    /\ main.at = "dir"
    /\ \/ /\ Direction(dir) /\ wait' = TRUE
          /\ Go("arm")
          /\ UNCHANGED <<half, dir, running, hold, fault, position, step, high, moved, due>>
       \/ Latch /\ Return /\ UNCHANGED dir

Arm ==
    /\ main.at \in {"arm", "arm_hold"}
    /\ \/ /\ due' = NoLater(IF main.at = "arm" THEN half ELSE Hold)
          /\ UNCHANGED <<axis, pins>>
       \/ Latch /\ UNCHANGED dir
    /\ Return

\* bm_stepper_pulse_stop
Stop ==
    /\ main = Rest
    /\ wait' = FALSE /\ hold' = FALSE /\ running' = FALSE
    /\ \/ /\ Level(0) /\ due' = Off
          /\ UNCHANGED <<half, dir, fault, position, pin, since, main>>
       \/ Latch /\ UNCHANGED <<dir, main>>
ClearFault ==
    /\ main = Rest /\ fault
    /\ fault' = FALSE
    /\ UNCHANGED <<half, dir, running, wait, hold, position, pins, due, main>>
\* bm_stepper_pulse_reset, which leaves the DIR pin alone.
Reset ==
    /\ main = Rest
    /\ dir' = 1 /\ running' = FALSE /\ wait' = FALSE /\ hold' = FALSE /\ fault' = FALSE
    /\ position' = 0 /\ moved' = 0
    /\ step' = 0 /\ Lowers /\ due' = Off
    /\ UNCHANGED <<half, pin, since, main>>
\* bm_stepper_pulse_set_enable, whose pin refuses.
Enable == main = Rest /\ Latch /\ UNCHANGED <<dir, main>>

-----------------------------------------------------------------------------
(* The interrupt: bm_stepper_pulse_on_timer, when the timer expires            *)
Expires ==
    /\ due = 0
    /\ Masked => main = Rest
    /\ main' = main

NotRunning == ~running \/ fault
Ignored ==
    /\ Expires /\ NotRunning
    /\ due' = Off
    /\ UNCHANGED <<axis, pins>>

Forgotten == Off
AfterTurn == IF Setup = 0 THEN half ELSE Setup
EndHold ==
    /\ Expires /\ ~NotRunning /\ hold
    /\ \/ /\ hold' = FALSE /\ Direction(dir)
          /\ due' = AfterTurn
          /\ UNCHANGED <<half, dir, running, wait, fault, position, step, high, moved>>
       \/ Latch /\ UNCHANGED dir
       \/ Halts /\ Direction(dir) /\ Lowers /\ UNCHANGED <<half, dir, position, moved>>
NoWait == FALSE
MustWait == wait
EndWait ==
    /\ Expires /\ ~NotRunning /\ ~hold /\ MustWait
    /\ \/ /\ wait' = FALSE
          /\ due' = AfterTurn
          /\ UNCHANGED <<half, dir, running, hold, fault, position, pins>>
       \/ Latch /\ UNCHANGED dir

Stepping == Expires /\ ~NotRunning /\ ~hold /\ ~MustWait
InReach == {position + dir, moved + pin} \subseteq -MaxPosition .. MaxPosition
Rise ==
    /\ Stepping /\ step = 0
    /\ \/ /\ InReach
          /\ Level(1) /\ position' = position + dir
          /\ due' = half
          /\ UNCHANGED <<half, dir, running, wait, hold, fault, pin, since>>
       \/ Latch /\ UNCHANGED dir
       \/ /\ InReach /\ Halts
          /\ position' = position + dir /\ moved' = moved + pin /\ high' = 0
          /\ UNCHANGED <<half, dir, pin, since>>
Fall ==
    /\ Stepping /\ step = 1
    /\ \/ /\ Level(0)
          /\ due' = half
          /\ UNCHANGED <<axis, pin, since>>
       \/ Latch /\ UNCHANGED dir

Next ==
    \/ Tick
    \/ \E d \in {1, -1}, h \in Halves : SetVelocity(d, h)
    \/ Begin \/ Lower \/ Turn \/ AskHold \/ TurnPin \/ Arm \/ Stop \/ ClearFault
    \/ Reset \/ Enable
    \/ Ignored \/ EndHold \/ EndWait \/ Rise \/ Fall

Spec == Init /\ [][Next]_vars

-----------------------------------------------------------------------------
TypeOK ==
    /\ half \in Times /\ {dir, pin} \subseteq {1, -1} /\ step \in {0, 1}
    /\ {running, wait, hold, fault} \subseteq BOOLEAN
    /\ due \in {Off} \cup 0 .. Longest

(* The position is the steps the motor made: each rise of STEP counted in the  *)
(* direction the DIR pin had at that moment, also across a reversal the timer  *)
(* interrupts and a fault between the pin and the timer (stepper_pulse.c:225-  *)
(* 250, 358-378).  It holds where the application masks the timer's interrupt  *)
(* while it calls; where it does not, StepsAreCounted is what is left.         *)
PositionIsTrue == position = moved

(* Masked or not, a step is counted the way the motor makes it, but while a    *)
(* call is between storing dir and setting the DIR pin, or starts an axis      *)
(* whose timer a call that was cut by a fault has left armed (lines 209-242,   *)
(* 358-378): no other interleaving of a change of velocity and the interrupt   *)
(* breaks the position.                                                        *)
Turning == main.at \in {"begin", "hold", "dir"}
StepsAreCounted == moved' # position' => moved' - moved = position' - position \/ Turning

(* An axis that runs, and whose call has returned, has its timer armed, so it  *)
(* keeps stepping: no order of speed changes, reversals, faults and expiries   *)
(* of a timer that only ever shortens loses the last expiry (adapter:110-133), *)
(* also where the interrupt comes between the steps of a call.                 *)
KeepsStepping == running /\ main = Rest => due # Off

(* The driver's timing: DIR turns only while STEP is low, STEP rises only when *)
(* DIR has been steady for dir_setup_us, and the timer lowers STEP only when   *)
(* it has been high for min_high_us, whatever the main loop asks meanwhile     *)
(* (lines 225-259, 325-356).  DIR is steady so long only if no velocity has a  *)
(* half period shorter than dir_setup_us: a change of speed shortens the       *)
(* set-up that is running.  And only where the interrupt is masked during the  *)
(* calls: one that is not can raise STEP between lowering it and turning DIR.  *)
Unhurried == \A h \in Halves : HalfPeriod(h) >= Setup
PinsInTime ==
    /\ pin' # pin => step = 0
    /\ step' > step /\ Unhurried => since >= Setup
    /\ step' < step /\ due = 0 /\ running' => high >= MinHigh

(* include/bm/common/bm_stepper_pulse_service.h:39 and components/             *)
(* stepper_pulse/MATURITY.md:18: on a reversal STEP is lowered, stays low for  *)
(* dir_hold_us and then DIR turns.                                             *)
HoldIsKept == pin' # pin /\ hold => high >= Hold
===============================================================================
