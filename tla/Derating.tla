------------------------------- MODULE Derating -------------------------------
(* The supervision of a battery and the factor it derates the load by           *)
(* (Source/component/bms_supervision.c, fault_derating.c): a sample outside its *)
(* limits latches, a healthy one asks to clear, and the factor goes down and,   *)
(* after the time to recover, up again along a ramp.  Time is in steps; the     *)
(* factor is counted in parts of Full, the factor 1.                            *)
EXTENDS Integers

CONSTANTS
    Full, Derated,  \* factor 1, and derate_target
    Rate,          \* rate_per_s * dt_s
    RecoverySteps, \* recovery_time_s / dt_s
    Failures       \* bound: reads that fail in a row

DeratingAssumption ==
    /\ {Full, Derated, Rate, RecoverySteps, Failures} \subseteq Nat
    /\ Derated <= Full /\ Rate > 0

VARIABLES
    latched, elapsed, factor, \* the derating: fault_latched, recovery_elapsed_s
    flags,     \* limit_flags # 0
    failed,    \* reads that failed in a row
    healthy,   \* history: healthy samples since the last one that was not
    faulty     \* history: samples outside the limits since the last healthy one

vars == <<latched, elapsed, factor, flags, failed, healthy, faulty>>

Init ==
    /\ latched = FALSE /\ elapsed = 0 /\ factor = Full
    /\ flags = FALSE /\ failed = 0
    /\ healthy = 0 /\ faulty = 0

UpTo(n, max) == IF n < max THEN n + 1 ELSE max
Ticks == RecoverySteps + (Full \div Rate) + 1

-----------------------------------------------------------------------------
\* bm_algo_ramp_step: towards the target, by no more than the rate.
Least(a, b) == IF a < b THEN a ELSE b
Most(a, b) == IF a > b THEN a ELSE b
HalfSpeed(to) == Most(factor - Rate \div 2, to)
Ramp(to) == IF factor < to THEN Least(factor + Rate, to) ELSE Most(factor - Rate, to)

\* bm_fault_derating_latch and _clear_request, then _step; what was latched anew, and
\* what was cleared, begins its time to recover again.
KeepsElapsed(sick) == elapsed
After(sick) == IF sick \/ latched THEN 0 ELSE elapsed
Recovered(e) == e >= RecoverySteps

Sample(sick) ==
    /\ flags' = sick /\ latched' = sick
    /\ IF sick
       THEN elapsed' = After(sick) /\ factor' = Ramp(Derated)
       ELSE /\ elapsed' = UpTo(After(sick), Ticks)
            /\ factor' = IF Recovered(elapsed') THEN Ramp(Full) ELSE factor
    /\ failed' = 0
    /\ healthy' = IF sick THEN 0 ELSE UpTo(healthy, Ticks)
    /\ faulty' = IF sick THEN UpTo(faulty, Ticks) ELSE 0

\* A sample that cannot be read changes nothing but the telemetry.
ReadFails ==
    /\ failed < Failures
    /\ failed' = failed + 1
    /\ UNCHANGED <<latched, elapsed, factor, flags, healthy, faulty>>

\* Safe stop; init does the same and clears the flags.
Stop ==
    /\ latched' = FALSE /\ elapsed' = 0 /\ factor' = Full
    /\ flags' \in {flags, FALSE}
    /\ failed' = 0 /\ healthy' = 0 /\ faulty' = 0

Next == (\E sick \in BOOLEAN : Sample(sick)) \/ ReadFails \/ Stop

Spec == Init /\ [][Next]_vars

-----------------------------------------------------------------------------
TypeOK ==
    /\ {latched, flags} \subseteq BOOLEAN
    /\ elapsed \in 0 .. Ticks /\ factor \in 0 .. Full /\ failed \in 0 .. Failures

(* A battery outside its limits is derated in as many samples as the ramp      *)
(* needs, whatever it was doing before, and is not derated below the target    *)
(* (bms_supervision.c:138-161; fault_derating.c:134-150).                      *)
LimitsAreFelt ==
    /\ faulty > 0 => factor <= Most(Derated, Full - faulty * Rate)
    /\ factor >= Derated

(* The factor rises, except by a stop, only after as many healthy samples in a *)
(* row as the time to recover, however short the fault before was              *)
(* (fault_derating.c:97-121, 150-158; bms_supervision.c:152-156).              *)
RisesWhenRecovered ==
    factor' > factor /\ faulty' + healthy' > 0 => healthy' >= RecoverySteps
===============================================================================
