------------------------------- MODULE HrtTimer -------------------------------
(* The high-resolution timer of one CPU (Source/hybrid/bm_hrt.c).              *)
(*                                                                             *)
(* A table of slots with a period and the tick each is next due at.  A pass    *)
(* over the table is made by the timer interrupt, or by bm_hrt_poll from the   *)
(* main loop, which the interrupt may preempt anywhere but inside a critical   *)
(* section.  A pass reads the clock once and advances one slot after the other *)
(* under the lock; callbacks run outside of it, and may stop the timer.  Ticks *)
(* are counted modulo TickMod.  The timer is started in steps, between which   *)
(* another interrupt may call into the same functions.                         *)
EXTENDS Integers

CONSTANTS
    NSlots,     \* slots in the table
    Period,     \* [1 .. NSlots -> ticks]
    TickMod,    \* the width of the tick counter (2^32)
    PerIsr,     \* BM_CONFIG_HRT_DISPATCH_PER_ISR
    MaxLate,    \* bound of the model: ticks a slot or a pass is behind at most
    IrqCalls    \* an interrupt starts, stops and resets the timer too

ASSUME HrtAssumption ==
    /\ NSlots \in Nat \ {0} /\ PerIsr \in Nat \ {0}
    /\ TickMod \in Nat /\ MaxLate \in Nat
    /\ Period \in [1 .. NSlots -> Nat \ {0}]
    /\ \A s \in 1 .. NSlots : Period[s] + MaxLate <= TickMod \div 2
    /\ IrqCalls \in BOOLEAN

Slots == 1 .. NSlots
Passes == {"poll", "isr"}

VARIABLES
    now,                             \* bm_hal_timer_get_ticks()
    timerOn, callback, pending,      \* the timer: counting, a callback set, a request
    initialized, started, slotCount, \* of bm_hrt_cpu_state_t
    nextTick,                        \* slots[].next_tick
    at, passNow, fired, calling,     \* each pass: its slot (0: none), now, fired, callback
    starting,                        \* bm_hrt_start of the main loop: its step
    owed,                            \* history: ticks since the last period accounted for
    miscounted                       \* history: a count of missed periods was wrong

timer == <<timerOn, callback, pending>>
table == <<initialized, started, slotCount, nextTick>>
pass == <<at, passNow, fired, calling>>
history == <<owed, miscounted>>
vars == <<now, timer, table, pass, starting, history>>

NoneOwed == [s \in Slots |-> 0]

Init ==
    /\ now = 0
    /\ timerOn = FALSE /\ callback = FALSE /\ pending = FALSE
    /\ initialized = FALSE /\ started = FALSE /\ slotCount = 0
    /\ nextTick = [s \in Slots |-> 0]
    /\ at = [p \in Passes |-> 0] /\ passNow = [p \in Passes |-> 0]
    /\ fired = [p \in Passes |-> 0] /\ calling = [p \in Passes |-> FALSE]
    /\ starting = "no"
    /\ owed = NoneOwed /\ miscounted = FALSE

\* Differences of ticks, in the counter's width.
Unwrapped(t, d) == t + d
Plus(t, d) == (t + d) % TickMod
Since(t, u) == (t + TickMod - u) % TickMod

\* bm_time_reached_u32: the sign of the difference.  Two other ways to compare.
ReachedUnsigned(t, deadline) == t >= deadline
PassedBy(t, deadline) == t # deadline /\ Since(t, deadline) < TickMod \div 2
Reached(t, deadline) == Since(t, deadline) < TickMod \div 2

\* hrt_deadline_from
OneTooSoon(t, s) == Plus(t, Period[s] - 1)
DeadlineFrom(t, s) == Plus(t, Period[s])

MainRuns == at["isr"] = 0
MainIdle == MainRuns /\ at["poll"] = 0 /\ starting = "no"

-----------------------------------------------------------------------------
(* Time.  How far anything falls behind is bounded for the model's sake.      *)

Tick ==
    /\ started => \A s \in Slots : owed[s] <= MaxLate
    /\ \A p \in Passes : at[p] # 0 => Since(now, passNow[p]) < MaxLate
    /\ now' = Plus(now, 1)
    /\ pending' = (pending \/ timerOn)
    /\ owed' = IF started THEN [s \in Slots |-> owed[s] + 1] ELSE owed
    /\ UNCHANGED <<timerOn, callback, table, pass, starting, miscounted>>

-----------------------------------------------------------------------------
(* bm_hrt_init, bm_hrt_stop and bm_hrt_reset.                                 *)

InitTable ==
    /\ MainIdle /\ ~started
    /\ initialized' = TRUE /\ slotCount' = NSlots
    /\ nextTick' = [s \in Slots |-> DeadlineFrom(now, s)]
    /\ UNCHANGED <<now, timer, started, pass, starting, history>>

\* hrt_stop_locked
StopLocked ==
    /\ timerOn' = IF started THEN FALSE ELSE timerOn
    /\ callback' = IF started THEN FALSE ELSE callback
    /\ started' = FALSE
    /\ owed' = NoneOwed

Stop == StopLocked /\ UNCHANGED <<initialized, slotCount, nextTick>>

Reset ==
    /\ StopLocked
    /\ initialized' = FALSE /\ slotCount' = 0
    /\ nextTick' = [s \in Slots |-> 0]

StopOrReset == Stop \/ Reset

MainStops ==
    /\ MainIdle
    /\ StopOrReset
    /\ UNCHANGED <<now, pending, pass, starting, miscounted>>

-----------------------------------------------------------------------------
(* bm_hrt_start: check under the lock, set the timer up without it, check     *)
(* again and commit under the lock.                                           *)

BeginStart ==
    /\ MainIdle
    /\ ~started /\ initialized /\ slotCount > 0
    /\ starting' = "setUp"
    /\ UNCHANGED <<now, timer, table, pass, history>>

\* The gate of the boot sequence is closed, or (the callback cleared) the timer refuses.
FailStart ==
    /\ MainRuns /\ starting = "setUp"
    /\ starting' = "no"
    /\ callback' \in {callback, FALSE}
    /\ UNCHANGED <<now, timerOn, pending, table, pass, history>>

SetUp ==
    /\ MainRuns /\ starting = "setUp"
    /\ callback' = FALSE /\ timerOn' = TRUE
    /\ starting' = "commit"
    /\ UNCHANGED <<now, pending, table, pass, history>>

Commit ==
    /\ callback' = TRUE /\ timerOn' = TRUE
    /\ started' = TRUE
    /\ nextTick' = [s \in Slots |-> DeadlineFrom(now, s)]
    /\ owed' = NoneOwed
    /\ UNCHANGED <<initialized, slotCount, pending>>

CommitStart ==
    /\ MainRuns /\ starting = "commit"
    /\ ~started /\ initialized
    /\ Commit
    /\ starting' = "no"
    /\ UNCHANGED <<now, pass, miscounted>>

\* Something happened meanwhile.
GiveUpStart ==
    /\ MainRuns /\ starting = "commit"
    /\ started \/ ~initialized
    /\ timerOn' = IF started THEN FALSE ELSE timerOn
    /\ callback' = IF started THEN FALSE ELSE callback
    /\ starting' = "no"
    /\ UNCHANGED <<now, pending, table, pass, history>>

\* Another interrupt calls bm_hrt_start; the main loop waits for it to end.
IrqStarts ==
    /\ IrqCalls /\ MainRuns
    /\ ~started /\ initialized /\ slotCount > 0
    /\ Commit
    /\ UNCHANGED <<now, pass, starting, miscounted>>

IrqStops ==
    /\ IrqCalls /\ MainRuns
    /\ StopOrReset
    /\ UNCHANGED <<now, pending, pass, starting, miscounted>>

-----------------------------------------------------------------------------
(* hrt_dispatch.                                                              *)

Runs(p) == p = "isr" \/ MainRuns

BeginPass(p) ==
    /\ at' = [at EXCEPT ![p] = 1]
    /\ passNow' = [passNow EXCEPT ![p] = now]
    /\ fired' = [fired EXCEPT ![p] = 0]
    /\ UNCHANGED calling

\* hrt_timer_isr
Interrupt ==
    /\ pending /\ callback /\ at["isr"] = 0
    /\ pending' = FALSE
    /\ BeginPass("isr")
    /\ UNCHANGED <<now, timerOn, callback, table, starting, history>>

\* A request that was latched before the timer was stopped finds no callback.
Unanswered ==
    /\ pending /\ ~callback /\ MainRuns
    /\ pending' = FALSE
    /\ UNCHANGED <<now, timerOn, callback, table, pass, starting, history>>

\* bm_hrt_poll
Poll ==
    /\ MainIdle /\ started
    /\ BeginPass("poll")
    /\ UNCHANGED <<now, timer, table, starting, history>>

LastLeftOut(p) == at[p] >= slotCount
OutOfSlots(p) == at[p] > slotCount
InPass(p) == Runs(p) /\ at[p] # 0 /\ ~calling[p]
AtSlot(p) == InPass(p) /\ ~OutOfSlots(p) /\ fired[p] < PerIsr

Move(p) == at' = [at EXCEPT ![p] = at[p] + 1]
Behind(p) == Since(passNow[p], nextTick[at[p]])

NotDue(p) ==
    /\ AtSlot(p)
    /\ ~Reached(passNow[p], nextTick[at[p]])
    /\ Move(p)
    /\ UNCHANGED <<now, timer, table, passNow, fired, calling, starting, history>>

WholePeriods(p) == Behind(p) \div Period[at[p]]
MissedPeriods(p) == 1 + Behind(p) \div Period[at[p]]

\* A whole period too late: the periods are counted as missed, the slot starts over,
\* and its callback is left out (BM_CONFIG_HRT_RUN_MISSED_CALLBACK is 0).
Miss(p) ==
    /\ AtSlot(p)
    /\ Reached(passNow[p], nextTick[at[p]])
    /\ Behind(p) >= Period[at[p]]
    /\ LET s == at[p]
           late == Since(now, passNow[p])
           counted == MissedPeriods(p) * Period[s]
       IN /\ nextTick' = [nextTick EXCEPT ![s] = DeadlineFrom(passNow[p], s)]
          /\ miscounted' = (miscounted \/
                 (started /\ ~(/\ counted <= owed[s]
                               /\ owed[s] < counted + Period[s] + late)))
          /\ owed' = IF started THEN [owed EXCEPT ![s] = late] ELSE owed
    /\ Move(p)
    /\ UNCHANGED <<now, timer, initialized, started, slotCount, passNow, fired, calling,
                   starting>>

Claim(p) ==
    /\ AtSlot(p)
    /\ Reached(passNow[p], nextTick[at[p]])
    /\ Behind(p) < Period[at[p]]
    /\ LET s == at[p]
       IN /\ nextTick' = [nextTick EXCEPT ![s] = DeadlineFrom(nextTick[s], s)]
          /\ owed' = IF started THEN [owed EXCEPT ![s] = @ - Period[s]] ELSE owed
    /\ calling' = [calling EXCEPT ![p] = TRUE]
    /\ UNCHANGED <<now, timer, initialized, started, slotCount, at, passNow, fired, starting,
                   miscounted>>

\* The callback returns.
Called(p) ==
    /\ calling' = [calling EXCEPT ![p] = FALSE]
    /\ fired' = [fired EXCEPT ![p] = fired[p] + 1]
    /\ Move(p)
    /\ UNCHANGED <<now, passNow, starting, miscounted>>

Callback(p) ==
    /\ Runs(p) /\ calling[p]
    /\ Called(p)
    /\ UNCHANGED <<timer, table, owed>>

CallbackStops(p) ==
    /\ Runs(p) /\ calling[p]
    /\ Called(p)
    /\ StopOrReset
    /\ UNCHANGED pending

EndPass(p) ==
    /\ InPass(p)
    /\ OutOfSlots(p) \/ fired[p] >= PerIsr
    /\ at' = [at EXCEPT ![p] = 0]
    /\ passNow' = [passNow EXCEPT ![p] = 0]
    /\ fired' = [fired EXCEPT ![p] = 0]
    /\ UNCHANGED <<now, timer, table, calling, starting, history>>

Dispatch(p) ==
    \/ NotDue(p) \/ Miss(p) \/ Claim(p) \/ Callback(p) \/ CallbackStops(p) \/ EndPass(p)

Next ==
    \/ Tick
    \/ InitTable \/ MainStops
    \/ BeginStart \/ FailStart \/ SetUp \/ CommitStart \/ GiveUpStart
    \/ IrqStarts \/ IrqStops
    \/ Interrupt \/ Unanswered \/ Poll
    \/ \E p \in Passes : Dispatch(p)

Spec == Init /\ [][Next]_vars

-----------------------------------------------------------------------------
\* The state is well-formed; a pass inside a callback is at a slot.
TypeOK ==
    /\ now \in 0 .. TickMod - 1
    /\ timerOn \in BOOLEAN /\ callback \in BOOLEAN /\ pending \in BOOLEAN
    /\ initialized \in BOOLEAN /\ started \in BOOLEAN /\ slotCount \in {0, NSlots}
    /\ nextTick \in [Slots -> 0 .. TickMod - 1]
    /\ at \in [Passes -> 0 .. NSlots + 1]
    /\ passNow \in [Passes -> 0 .. TickMod - 1]
    /\ fired \in [Passes -> 0 .. PerIsr]
    /\ calling \in [Passes -> BOOLEAN]
    /\ \A p \in Passes : calling[p] => at[p] \in Slots /\ fired[p] < PerIsr
    /\ starting \in {"no", "setUp", "commit"}

\* A slot is run at most once a period and never early, whoever makes the pass,
\* across the wrap of the counter and however stale the tick a pass has read: the
\* interrupt and bm_hrt_poll never both claim one period (bm_hrt.c:208-228,
\* 264-275).
OncePerPeriod == \A s \in Slots : owed[s] >= 0

\* What is added to deadline_missed is the number of periods that did go by
\* unserved, no more and no less (bm_hrt.c:213-221).
MissesAreExact == ~miscounted

\* When a pass that was not cut short ends, every period that was due when it read
\* the clock is either run or counted as missed, also when the other pass came in
\* between (bm_hrt.c:194-245).
NothingOverlooked ==
    [][\A p \in Passes :
          (EndPass(p) /\ started /\ fired[p] < PerIsr) =>
              \A s \in Slots : owed[s] < Period[s] + Since(now, passNow[p])]_vars

\* A timer that says it is started counts, when no bm_hrt_start of the main loop is
\* under way, whoever started it and whoever else tried to (bm_hrt.c:421-452; bm_hrt.h:
\* bm_hrt_is_started).  What a start clears on its way is not meant, nor is a timer
\* without its callback, which a start that the hardware refuses leaves too (421-426).
StartedRuns == started /\ starting = "no" => timerOn
=============================================================================
