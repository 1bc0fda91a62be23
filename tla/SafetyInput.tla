----------------------------- MODULE SafetyInput ------------------------------
(* A digital input that stops the machine: the emergency stop, polled           *)
(* (Source/component/bm_estop_input.c), and the limit switch, polled or driven  *)
(* by its edges (bm_limit_switch.c).  What is polled is debounced               *)
(* (include/bm/common/bm_input_debounce.h).  Time is what has gone by since;    *)
(* the contact bounces as it likes, and a read of the pin may fail.             *)
EXTENDS Naturals

CONSTANTS
    IsLimit, \* a limit switch; otherwise the emergency stop, whose level 1 is active
    Stable,  \* stable_us; 0 for a limit switch that is driven by its edges
    Edges,   \* flags of a limit switch
    Longest  \* bound: time is told apart up to here

InputAssumption ==
    /\ {Stable, Longest} \subseteq Nat /\ Longest > Stable
    /\ Edges \in SUBSET {"rising", "falling"} \ {{}}
    /\ ~IsLimit => Stable > 0

VARIABLES
    level,              \* of the pin
    raw, filtered, stable, sinceRaw, \* debounce; sinceRaw is now_us - last_raw_us
    triggered, latched, \* active of the emergency stop
    pending,            \* an edge whose interrupt is still to come
    sameFor, samples,   \* history: the reads were all the same, so long and so often
    seen,               \* history: the last interrupt could read the pin
    reported            \* history: active was reported since the latch was cleared

vars == <<level, raw, filtered, stable, sinceRaw, triggered, latched, pending, sameFor,
          samples, seen, reported>>
debounce == <<raw, filtered, stable, sinceRaw>>

\* bm_limit_switch_active_level; the emergency stop is debounced with its sense.
ActiveLevel == IF IsLimit /\ Edges = {"falling"} THEN 0 ELSE 1
Polled == Stable > 0

\* At reset the input is taken for 0, since ever.
Init ==
    /\ level \in {0, 1}
    /\ raw = 0 /\ filtered = 0 /\ stable = FALSE /\ sinceRaw = Longest
    /\ triggered = FALSE /\ latched = FALSE /\ pending = FALSE
    /\ sameFor = 0 /\ samples = 0 /\ seen = FALSE /\ reported = FALSE

UpTo(n, max) == IF n < max THEN n + 1 ELSE max

-----------------------------------------------------------------------------
Move ==
    /\ level' = 1 - level
    /\ pending' = (pending \/ (~Polled /\ (IF level = 0 THEN "rising" ELSE "falling") \in Edges))
    /\ UNCHANGED <<debounce, triggered, latched, sameFor, samples, seen, reported>>

Elapse ==
    /\ Polled /\ (samples > 0 => sameFor < Longest)
    /\ sinceRaw' = UpTo(sinceRaw, Longest)
    /\ sameFor' = IF samples = 0 THEN 0 ELSE UpTo(sameFor, Longest)
    /\ UNCHANGED <<level, raw, filtered, stable, triggered, latched, pending, samples, seen,
                   reported>>

\* What a report sets; the latch is only ever set here.
AsRead(v) == v = ActiveLevel
Unlatched(active) == triggered' = active /\ latched' = active /\ reported' = (reported \/ active)
Report(active) ==
    /\ triggered' = active
    /\ latched' = (latched \/ active)
    /\ reported' = (reported \/ active)

\* bm_input_debounce_common_update: the filtered level changes when the raw one has been
\* the same for stable_us.
SettledSoon(since) == since > 0
Settled(since) == since >= Stable
Sample ==
    /\ raw' = level
    /\ samples' = IF level = raw THEN UpTo(samples, 2) ELSE 1
    /\ sameFor' = IF level = raw /\ samples > 0 THEN sameFor ELSE 0
    /\ IF level # raw
       THEN /\ sinceRaw' = 0 /\ stable' = FALSE
            /\ UNCHANGED <<filtered, triggered, latched, reported>>
       ELSE IF (stable /\ filtered = level) \/ ~Settled(sinceRaw)
       THEN UNCHANGED <<filtered, stable, sinceRaw, triggered, latched, reported>>
       ELSE /\ filtered' = level /\ stable' = TRUE
            /\ IF filtered # level THEN Report(AsRead(level))
               ELSE UNCHANGED <<triggered, latched, reported>>
            /\ UNCHANGED sinceRaw

\* bm_limit_switch_poll, bm_estop_input_poll; a read that fails changes nothing.
Poll == Polled /\ Sample /\ UNCHANGED <<level, pending, seen>>

\* bm_limit_switch_exti_cb: the level is read when the interrupt comes, if it can be.
Edge ==
    /\ ~Polled /\ pending
    /\ pending' = FALSE
    /\ \/ Report(AsRead(level)) /\ seen' = TRUE
       \/ seen' = FALSE /\ UNCHANGED <<triggered, latched, reported>>
    /\ UNCHANGED <<level, debounce, sameFor, samples>>

ClearLatch ==
    /\ latched' = FALSE /\ reported' = FALSE
    /\ UNCHANGED <<level, debounce, triggered, pending, sameFor, samples, seen>>

Reset ==
    /\ raw' = 0 /\ filtered' = 0 /\ stable' = FALSE /\ sinceRaw' = Longest
    /\ triggered' = FALSE /\ latched' = FALSE
    /\ sameFor' = 0 /\ samples' = 0 /\ seen' = FALSE /\ reported' = FALSE
    /\ UNCHANGED <<level, pending>>

Next == Move \/ Elapse \/ Poll \/ Edge \/ ClearLatch \/ Reset

Spec == Init /\ [][Next]_vars

-----------------------------------------------------------------------------
TypeOK ==
    /\ {level, raw, filtered} \subseteq {0, 1}
    /\ {stable, triggered, latched, pending, seen, reported} \subseteq BOOLEAN
    /\ {sinceRaw, sameFor} \subseteq 0 .. Longest /\ samples \in 0 .. 2

(* A bounce is not reported: an input becomes active only when it was read     *)
(* twice and never otherwise for stable_us (bm_input_debounce.h:82-110).       *)
BouncesAreIgnored ==
    Polled /\ triggered' # triggered /\ triggered' => samples' = 2 /\ sameFor' >= Stable

(* What is held is reported: the first poll that has read the same level for   *)
(* stable_us reports it, except a switch that is active at 0 and was pressed    *)
(* all the time since the reset (bm_limit_switch.c:115-127, 169-175).          *)
HeldIsReported ==
    Poll /\ samples' = 2 /\ sameFor' >= Stable =>
        filtered' = level /\ (ActiveLevel = 1 => triggered' = AsRead(level))

(* A switch driven by its edges is what the pin is, however fast the edges     *)
(* follow each other, unless the last read failed; and no report is lost       *)
(* before the latch is cleared (bm_limit_switch.c:53-82).                      *)
EdgesAreFollowed ==
    /\ ~pending /\ seen /\ Edges = {"rising", "falling"} => triggered = AsRead(level)
    /\ latched = reported
===============================================================================
