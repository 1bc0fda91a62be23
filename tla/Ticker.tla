-------------------------------- MODULE Ticker --------------------------------
(* Periodic events of one CPU (Source/hybrid/bm_ticker.c): the main loop polls *)
(* and publishes what has come due, of a slot that is behind only so many, and *)
(* while the event queue, which interrupts also fill, takes them.              *)
EXTENDS Integers

CONSTANTS
    Slots,      \* the slots, 1 .. slot_count
    Period,     \* of each slot, in ticks
    MaxCatchup, \* BM_CONFIG_TICKER_MAX_CATCHUP
    Room,       \* the events the queue has room for
    MaxLate     \* bound: no poll is later than that

TickerAssumption ==
    /\ {MaxCatchup, Room} \subseteq Nat \ {0} /\ MaxLate \in Nat
    /\ 1 \in Slots /\ Slots \subseteq Nat \ {0}
    /\ \A s \in Slots : Period[s] \in Nat \ {0}

VARIABLES
    past,    \* what the clock is past next_us of each slot
    at, now, \* the poll: its slot, 0 when there is none; how long ago it read the clock
    catchup, \* events published for this slot
    refused, \* its last publication failed
    queued,  \* events in the queue
    owed,    \* history: periods that were due when the poll came to its slot
    done,    \* history: of these, published or counted as dropped
    counted  \* history: of these, counted as dropped

vars == <<past, at, now, catchup, refused, queued, owed, done, counted>>
turn == <<catchup, refused, owed, done, counted>>

Init ==
    /\ past = [s \in Slots |-> -Period[s]]
    /\ at = 0 /\ now = 0 /\ queued = 0
    /\ catchup = 0 /\ refused = FALSE
    /\ owed = 0 /\ done = 0 /\ counted = 0

Due(s) == past[s] - now
PeriodsIn(t, s) == IF t < 0 THEN 0 ELSE 1 + t \div Period[s]

Tick ==
    /\ \A s \in Slots : past[s] < MaxLate
    /\ past' = [s \in Slots |-> past[s] + 1]
    /\ now' = IF at = 0 THEN 0 ELSE now + 1
    /\ UNCHANGED <<at, queued, turn>>

\* The event queue: the main loop takes an event out, an interrupt puts one in.
Take == at = 0 /\ queued > 0 /\ queued' = queued - 1 /\ UNCHANGED <<past, at, now, turn>>
Other == queued < Room /\ queued' = queued + 1 /\ UNCHANGED <<past, at, now, turn>>

ComesTo(s, t) ==
    /\ at' = s
    /\ catchup' = 0 /\ refused' = FALSE /\ done' = 0 /\ counted' = 0
    /\ owed' = IF s = 0 THEN 0 ELSE PeriodsIn(t, s)

Poll ==
    /\ at = 0
    /\ ComesTo(1, past[1]) /\ now' = 0
    /\ UNCHANGED <<past, queued>>

Behind == at # 0 /\ Due(at) >= 0
MayPublish == Behind /\ catchup < MaxCatchup /\ ~refused
NextPeriod == past' = [past EXCEPT ![at] = @ - Period[at]]

Publish ==
    /\ MayPublish /\ queued < Room
    /\ queued' = queued + 1 /\ catchup' = catchup + 1 /\ done' = done + 1
    /\ NextPeriod
    /\ UNCHANGED <<at, now, refused, owed, counted>>

Drop ==
    /\ MayPublish /\ queued = Room
    /\ refused' = TRUE /\ done' = done + 1 /\ counted' = counted + 1
    /\ NextPeriod
    /\ UNCHANGED <<at, now, queued, catchup, owed>>

\* The rest is skipped, and the slot begins anew a period from now.
SkippedButOne(s) == Due(s) \div Period[s]
Skipped(s) == 1 + Due(s) \div Period[s]
Skip ==
    /\ Behind /\ ~MayPublish
    /\ done' = done + Skipped(at) /\ counted' = counted + Skipped(at)
    /\ past' = [past EXCEPT ![at] = now - Period[at]]
    /\ UNCHANGED <<at, now, queued, catchup, refused, owed>>

NextSlot ==
    /\ at # 0 /\ Due(at) < 0
    /\ IF at + 1 \in Slots THEN ComesTo(at + 1, past[at + 1] - now) /\ now' = now
                           ELSE ComesTo(0, 0) /\ now' = 0
    /\ UNCHANGED <<past, queued>>

Next == Tick \/ Take \/ Other \/ Poll \/ Publish \/ Drop \/ Skip \/ NextSlot

Spec == Init /\ [][Next]_vars

-----------------------------------------------------------------------------
TypeOK ==
    /\ \A s \in Slots : past[s] \in -Period[s] .. MaxLate
    /\ at \in Slots \cup {0} /\ queued \in 0 .. Room /\ catchup \in 0 .. MaxCatchup
    /\ refused \in BOOLEAN /\ {owed, done, counted} \subseteq 0 .. MaxLate + 1
    /\ \A s \in Slots : now \in 0 .. MaxLate + Period[s]

(* A poll accounts for every period that has come due, once: it is published   *)
(* or counted as dropped; and it is dropped only when the queue has refused an *)
(* event of this slot or the poll has already published as many as it may      *)
(* (bm_ticker.c:194-235).                                                      *)
EveryPeriodOnce ==
    /\ done <= owed
    /\ at # 0 /\ Due(at) < 0 => done = owed
    /\ counted > 0 => refused \/ owed > MaxCatchup
===============================================================================
