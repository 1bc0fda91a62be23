------------------------------- MODULE Recorder -------------------------------
(* bm_recorder (Source/hybrid/bm_recorder.c): an interrupt records frames into *)
(* a ring and overwrites the oldest without asking; the main loop of the same  *)
(* CPU copies them out and finds out afterwards whether a frame was            *)
(* overwritten under its hands.                                                *)
(*                                                                             *)
(* A frame is the number of its push, the value of head; it is copied word by  *)
(* word, and the interrupt comes between any two steps of the main loop.  The  *)
(* cumulative counter of dropped frames is kept as what it gained since the    *)
(* last frame delivered.                                                       *)
EXTENDS Naturals, Sequences

CONSTANTS
    Capacity,    \* r->capacity, a power of two
    CurMod,      \* bound: the 2^32 of head and tail, a multiple of Capacity
    MaxBehind,   \* bound: frames the main loop falls behind
    WordCount,   \* bound: words of a frame
    Budget       \* of a bm_recorder_drain that does not ask for all there is

RecorderAssumption ==
    /\ Capacity \in Nat \ {0, 1} /\ CurMod \in Nat /\ CurMod % Capacity = 0
    /\ MaxBehind \in Capacity .. CurMod - 2
    /\ WordCount \in Nat \ {0} /\ Budget \in Nat

VARIABLES
    head, tail, buf,
    pop,        \* the pop in progress: its step, candidate, retry and copy
    left,       \* pops the drain may still make
    dropped,    \* what r->dropped gained since the last frame delivered
    out,        \* the frame delivered last, and what it was counted to miss
    last        \* history: the number of the frame delivered last

vars == <<head, tail, buf, pop, left, dropped, out, last>>

Words == 1 .. WordCount
Number == 0 .. CurMod - 1
Resting == [pc |-> "idle", at |-> 0, retried |-> FALSE, copy |-> <<>>]
Nothing == [frame |-> <<>>, missed |-> 0, counted |-> 0]

TypeOK ==
    /\ head \in Number /\ tail \in Number /\ last \in Number
    /\ buf \in [0 .. Capacity - 1 -> [Words -> Number]]
    /\ pop.pc \in {"idle", "load", "copy", "check"} /\ pop.at \in Number
    /\ Len(pop.copy) <= WordCount
    /\ left \in Nat /\ dropped \in 0 .. CurMod - 1

Init ==
    /\ head = 0 /\ tail = 0
    /\ buf = [i \in 0 .. Capacity - 1 |-> [w \in Words |-> 0]]
    /\ pop = Resting /\ left = 0 /\ dropped = 0
    /\ out = Nothing /\ last = CurMod - 1

Minus(a, b) == (a - b) % CurMod
Ahead(n) == (n + 1) % CurMod

-----------------------------------------------------------------------------
(* bm_recorder_push, in the interrupt                                          *)
Push ==
    /\ Minus(head, last) <= MaxBehind
    /\ buf' = [buf EXCEPT ![head % Capacity] = [w \in Words |-> head]]
    /\ head' = Ahead(head)
    /\ UNCHANGED <<tail, pop, left, dropped, out, last>>

-----------------------------------------------------------------------------
(* bm_recorder_pop, in the main loop                                           *)
Avail == Minus(head, tail)

Begin(budget) ==
    /\ pop.pc = "idle"
    /\ pop' = [Resting EXCEPT !.pc = "load"]
    /\ left' = budget
    /\ UNCHANGED <<head, tail, buf, dropped, out, last>>

Pop == Begin(1)

\* A budget of 0 asks for what can be read on entry.
Readable == IF Avail > Capacity THEN Capacity ELSE Avail
Drain == \E budget \in {Readable, Budget} : budget > 0 /\ Begin(budget)

NoData ==
    /\ pop.pc = "load" /\ Avail = 0
    /\ pop' = Resting /\ left' = 0
    /\ UNCHANGED <<head, tail, buf, dropped, out, last>>

\* The oldest frame that is still there; those before it are counted.
Oldest == IF Avail > Capacity THEN Minus(head, Capacity) ELSE tail
NoneSkipped == 0
Skipped == IF Avail > Capacity THEN Avail - Capacity ELSE 0

Load ==
    /\ pop.pc = "load" /\ Avail # 0
    /\ dropped' = dropped + Skipped
    /\ pop' = [pop EXCEPT !.pc = "copy", !.at = Oldest, !.copy = <<>>]
    /\ UNCHANGED <<head, tail, buf, left, out, last>>

CopyWord ==
    LET copied == Append(pop.copy, buf[pop.at % Capacity][Len(pop.copy) + 1]) IN
    /\ pop.pc = "copy"
    /\ pop' = [pop EXCEPT !.copy = copied,
                          !.pc = IF Len(copied) = WordCount THEN "check" ELSE "copy"]
    /\ UNCHANGED <<head, tail, buf, left, dropped, out, last>>

OverwrittenOneLate == Minus(head, pop.at) > Capacity + 1
Overwritten == Minus(head, pop.at) > Capacity

\* The copy is thrown away, one drop is counted, and there is one more try.
Overrun ==
    /\ pop.pc = "check" /\ Overwritten
    /\ dropped' = dropped + 1
    /\ tail' = Minus(head, Capacity)
    /\ IF pop.retried
       THEN pop' = Resting /\ left' = 0
       ELSE pop' = [pop EXCEPT !.pc = "load", !.retried = TRUE] /\ UNCHANGED left
    /\ UNCHANGED <<head, buf, out, last>>

\* A frame is delivered; the drain goes on while it may.
Deliver ==
    /\ pop.pc = "check" /\ ~Overwritten
    /\ tail' = Ahead(pop.at)
    /\ out' = [frame |-> pop.copy, missed |-> Minus(pop.at, Ahead(last)), counted |-> dropped]
    /\ last' = pop.at /\ dropped' = 0
    /\ left' = left - 1
    /\ pop' = IF left' = 0 THEN Resting ELSE [Resting EXCEPT !.pc = "load"]
    /\ UNCHANGED <<head, buf>>

\* bm_recorder_reset, in the main loop; an interrupt between its stores finds the
\* ring as it finds it after them.
Reset ==
    /\ pop.pc = "idle"
    /\ head' = 0 /\ tail' = 0 /\ dropped' = 0
    /\ last' = CurMod - 1 /\ out' = Nothing
    /\ UNCHANGED <<buf, pop, left>>

Next ==
    \/ Push
    \/ Pop \/ Drain \/ NoData \/ Load \/ CopyWord \/ Overrun \/ Deliver \/ Reset

Spec == Init /\ [][Next]_vars

-----------------------------------------------------------------------------
(* A frame that is delivered is one frame, the one that was recorded under its *)
(* number, and none is delivered twice or out of order, however often the      *)
(* interrupt overwrites the ring during the copy (bm_recorder.h:8-12).         *)
GoodFrame ==
    out # Nothing =>
        /\ \A w \in Words : out.frame[w] = last
        /\ out.missed <= MaxBehind

(* The counter of drops grows whenever frames are missed, only then, and never *)
(* by more than are missed (bm_recorder.c:127-140).                            *)
DropsAreSeen ==
    /\ out.missed > 0 <=> out.counted > 0
    /\ out.counted <= out.missed

(* The counter is "累计因覆盖被消费者丢弃的帧数", the frames the consumer lost  *)
(* because they were overwritten (bm_recorder.h:51).                           *)
DropsAreCounted == out.counted = out.missed
===============================================================================
