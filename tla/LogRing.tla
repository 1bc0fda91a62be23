------------------------------- MODULE LogRing -------------------------------
(* The log ring of one CPU (Source/core/bm_log.c): the CPU writes its lines    *)
(* with all interrupts off, and the bootstrap CPU, the only one that may,      *)
(* drains them and puts them out.  Nothing else keeps the two apart.           *)
(*                                                                             *)
(* A line is stored and copied in two parts, its length and its text.  The     *)
(* level filter and the formatting are left out.                               *)
EXTENDS Naturals, Sequences

CONSTANTS
    Line,     \* lines
    Depth,    \* BM_CONFIG_LOG_RING_DEPTH
    Budget,   \* of bm_log_drain_cpu
    DropMod,  \* bound: the 2^32 of ring->drop
    Out       \* "nothing has been put out yet"

LogAssumption ==
    /\ Depth \in Nat \ {0} /\ Budget \in Nat \ {0} /\ DropMod \in Nat \ {0}
    /\ Out \notin Line

VARIABLES
    head, tail,   \* run through 0 .. 2 * Depth - 1
    slot,         \* what the length and the text of each slot belong to
    drop,         \* lines dropped
    wr,           \* the push in progress
    rd,           \* the drain in progress
    logged,       \* history: lines published and not put out, oldest first
    put           \* history: the line put out last

vars == <<head, tail, slot, drop, wr, rd, logged, put>>

Span == 2 * Depth
Parts == {"len", "text"}
NoPush == [pc |-> "idle", line |-> Out]
NoDrain == [pc |-> "idle", left |-> 0, len |-> Out, text |-> Out]

TypeOK ==
    /\ head \in 0 .. Span - 1 /\ tail \in 0 .. Span - 1
    /\ slot \in [0 .. Depth - 1 -> [Parts -> Line \cup {Out}]]
    /\ drop \in 0 .. DropMod - 1
    /\ wr \in [pc : {"idle", "len", "text", "publish"}, line : Line \cup {Out}]
    /\ rd \in [pc : {"idle", "test", "len", "text", "put"}, left : 0 .. Budget,
               len : Line \cup {Out}, text : Line \cup {Out}]
    /\ Len(logged) <= Depth

Init ==
    /\ head = 0 /\ tail = 0
    /\ slot = [i \in 0 .. Depth - 1 |-> [p \in Parts |-> Out]]
    /\ drop = 0 /\ wr = NoPush /\ rd = NoDrain
    /\ logged = <<>> /\ put = Out

AdvanceOneLap(v) == IF v + 1 >= Depth THEN 0 ELSE v + 1
Advance(v) == IF v + 1 >= Span THEN 0 ELSE v + 1
Occupancy == IF head >= tail THEN head - tail ELSE head + Span - tail
FullOneLate == Occupancy > Depth
Full == Occupancy >= Depth
Empty == head = tail

-----------------------------------------------------------------------------
(* log_ring_push, on the CPU of the ring                                       *)
Push(line) ==
    /\ wr.pc = "idle"
    /\ ~Full
    /\ wr' = [pc |-> "len", line |-> line]
    /\ UNCHANGED <<head, tail, slot, drop, rd, logged, put>>

\* A full ring drops the new line, not an old one.
Drop ==
    /\ wr.pc = "idle" /\ Full
    /\ drop' = (drop + 1) % DropMod
    /\ UNCHANGED <<head, tail, slot, wr, rd, logged, put>>

StorePart(part, next) ==
    /\ wr.pc = part
    /\ slot' = [slot EXCEPT ![head % Depth][part] = wr.line]
    /\ wr' = [wr EXCEPT !.pc = next]
    /\ UNCHANGED <<head, tail, drop, rd, logged, put>>

Publish ==
    /\ wr.pc = "publish"
    /\ head' = Advance(head)
    /\ wr' = NoPush
    /\ logged' = Append(logged, wr.line)
    /\ UNCHANGED <<tail, slot, drop, rd, put>>

-----------------------------------------------------------------------------
(* bm_log_drain_cpu, on the bootstrap CPU                                      *)
Drain ==
    /\ rd.pc = "idle"
    /\ rd' = [rd EXCEPT !.pc = "test", !.left = Budget]
    /\ UNCHANGED <<head, tail, slot, drop, wr, logged, put>>

TestRing ==
    /\ rd.pc = "test"
    /\ rd' = IF rd.left = 0 \/ Empty THEN NoDrain ELSE [rd EXCEPT !.pc = "len"]
    /\ UNCHANGED <<head, tail, slot, drop, wr, logged, put>>

CopyLen ==
    /\ rd.pc = "len"
    /\ rd' = [rd EXCEPT !.pc = "text", !.len = slot[tail % Depth]["len"]]
    /\ UNCHANGED <<head, tail, slot, drop, wr, logged, put>>

CopyText ==
    /\ rd.pc = "text"
    /\ rd' = [rd EXCEPT !.pc = "put", !.text = slot[tail % Depth]["text"]]
    /\ UNCHANGED <<head, tail, slot, drop, wr, logged, put>>

\* The copy is put out, then the slot is given back.
PutOut ==
    /\ rd.pc = "put"
    /\ tail' = Advance(tail)
    /\ rd' = [rd EXCEPT !.pc = "test", !.left = @ - 1]
    /\ logged' = Tail(logged)
    /\ put' = rd.text
    /\ UNCHANGED <<head, slot, drop, wr>>

Next ==
    \/ \E line \in Line : Push(line)
    \/ Drop
    \/ StorePart("len", "text") \/ StorePart("text", "publish") \/ Publish
    \/ Drain \/ TestRing \/ CopyLen \/ CopyText \/ PutOut

Spec == Init /\ [][Next]_vars

-----------------------------------------------------------------------------
(* What is put out is a line as it was logged, not parts of two                *)
(* (bm_log.c:166-172, 204-215).                                                *)
WholeLine == rd.pc = "put" => rd.len = rd.text /\ rd.text \in Line

(* The lines come out whole, in order and each once; those that do not fit are *)
(* dropped and nothing else is (bm_log.c:159-164, 186-188).                    *)
Ring == INSTANCE BoundedQueue WITH Item <- Line, Bound <- Depth, items <- logged, taken <- put
IsQueue == Ring!Spec
=============================================================================
