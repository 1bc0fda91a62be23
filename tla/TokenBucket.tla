------------------------------ MODULE TokenBucket -----------------------------
(* The quality of service of a transport (Source/component/transport_qos.c):    *)
(* a bucket of tokens that admits bytes, and the latency of what was sent.  The *)
(* millisecond clock wraps at ClockMod, and so do the differences of its values.*)
EXTENDS Integers

CONSTANTS
    Rate,     \* token_rate_bytes_per_ms
    Burst,    \* token_burst_bytes
    Alarm,    \* latency_alarm_ms
    Sizes,    \* bytes that are asked for
    ClockMod, \* values of the clock: 2^32 in the code
    MaxIdle   \* bound: milliseconds between two steps of the component

BucketAssumption ==
    /\ {Rate, Burst, Alarm, ClockMod, MaxIdle} \subseteq Nat /\ Sizes \subseteq Nat
    /\ Rate > 0 /\ Burst > 0 /\ Alarm + MaxIdle < ClockMod \div 2

VARIABLES
    now,              \* now_ms
    tokens, last, haveTime,
    sentAt, havePending,
    latency,          \* of the last answer that was counted
    excess,           \* history: bytes admitted over what the rate allows since any moment
    idle,             \* milliseconds since the last step
    waiting           \* history: milliseconds since the pending send

vars == <<now, tokens, last, haveTime, sentAt, havePending, latency, excess, idle, waiting>>

Init ==
    /\ now \in {0, ClockMod - 1}
    /\ tokens = Burst /\ last = 0 /\ haveTime = FALSE
    /\ sentAt = 0 /\ havePending = FALSE /\ latency = 0
    /\ excess = 0 /\ idle = 0 /\ waiting = 0

Elapsed(from, to) == (to + ClockMod - from) % ClockMod
Signed(d) == IF d < ClockMod \div 2 THEN d ELSE d - ClockMod
Least(a, b) == IF a < b THEN a ELSE b

Elapse ==
    /\ idle < MaxIdle
    /\ now' = (now + 1) % ClockMod
    /\ idle' = idle + 1
    /\ excess' = IF excess > Rate THEN excess - Rate ELSE 0
    /\ waiting' = IF havePending THEN waiting + 1 ELSE 0
    /\ UNCHANGED <<tokens, last, haveTime, sentAt, havePending, latency>>

-----------------------------------------------------------------------------
\* token_refill: the first call only takes the time; the bucket never holds more than Burst.
Overflowing ==
    IF haveTime THEN tokens + Rate * Elapsed(last, now) ELSE tokens
Refilled ==
    IF haveTime THEN Least(tokens + Rate * Elapsed(last, now), Burst) ELSE tokens
Refill(left) ==
    /\ tokens' = left
    /\ last' = now /\ haveTime' = TRUE

\* bm_transport_qos_enqueue
Enqueue(bytes) ==
    /\ IF Refilled < bytes
       THEN Refill(Refilled) /\ UNCHANGED excess
       ELSE Refill(Refilled - bytes) /\ excess' = excess + bytes
    /\ UNCHANGED <<now, sentAt, havePending, latency, idle, waiting>>

\* bm_transport_qos_step: a send that got no answer in time is given up.
NeverGivenUp == FALSE
GivenUp == havePending /\ Elapsed(sentAt, now) > Alarm
Step ==
    /\ Refill(Refilled)
    /\ idle' = 0
    /\ havePending' = (havePending /\ ~GivenUp)
    /\ sentAt' = IF GivenUp THEN 0 ELSE sentAt
    /\ waiting' = IF GivenUp THEN 0 ELSE waiting
    /\ UNCHANGED <<now, latency, excess>>

\* A send while another waits takes its place.
OnTx ==
    /\ sentAt' = now /\ havePending' = TRUE /\ waiting' = 0
    /\ UNCHANGED <<now, tokens, last, haveTime, latency, excess, idle>>

OnRx ==
    /\ IF havePending
       THEN latency' = Signed(Elapsed(sentAt, now)) /\ sentAt' = 0 /\ havePending' = FALSE
       ELSE UNCHANGED <<latency, sentAt, havePending>>
    /\ waiting' = 0
    /\ UNCHANGED <<now, tokens, last, haveTime, excess, idle>>

\* bm_transport_qos_reset leaves the bucket empty, where init fills it.
Reset ==
    /\ tokens' = 0 /\ last' = 0 /\ haveTime' = FALSE
    /\ sentAt' = 0 /\ havePending' = FALSE /\ latency' = 0 /\ waiting' = 0
    /\ UNCHANGED <<now, excess, idle>>

Next == Reset \/ Elapse \/ (\E n \in Sizes : Enqueue(n)) \/ Step \/ OnTx \/ OnRx

Spec == Init /\ [][Next]_vars

-----------------------------------------------------------------------------
TypeOK ==
    /\ now \in 0 .. ClockMod - 1 /\ tokens \in 0 .. Burst
    /\ last \in 0 .. ClockMod - 1 /\ sentAt \in 0 .. ClockMod - 1

(* In no span of time are more bytes admitted than the burst and what the rate *)
(* allows, across the wrap of the clock (transport_qos.c:158-194, 256-277).    *)
WithinRate == excess <= Burst

(* An answer is counted with the time since the last send, and a step leaves   *)
(* no send waiting for longer than the alarm time                              *)
(* (transport_qos.c:96-146, 220-228).                                          *)
LatencyIsTrue ==
    /\ OnRx /\ havePending => latency' = waiting
    /\ Step /\ havePending' => waiting <= Alarm
===============================================================================
