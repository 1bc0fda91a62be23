------------------------------ MODULE UltraQueue ------------------------------
(* The event queue of the ultra-light profile, one on each CPU                 *)
(* (Source/core/bm_ultra.c).  The main loop and interrupts push; the main loop *)
(* pops one event at a time and calls its callback outside the critical        *)
(* section, where interrupts push and the callback itself may push or reset.   *)
(*                                                                             *)
(* An event is its type; one with no callback is popped and forgotten.  Left   *)
(* out are the refusals that only a corrupt queue or event can meet, and the   *)
(* counter of the events they skip.                                            *)
EXTENDS Naturals, Sequences

CONSTANTS
    Types,     \* event types
    Handled,   \* those with a callback
    Depth,     \* BM_CONFIG_ULTRA_QUEUE_DEPTH, a power of two
    MaxCount,  \* bound: where the 32-bit counter saturates
    None

UltraAssumption ==
    /\ Depth \in Nat \ {0, 1} /\ MaxCount \in Nat
    /\ Handled \subseteq Types /\ None \notin Types

VARIABLES
    items, read, write,   \* bm_ultra_queue_t
    dropped,              \* events refused, saturating
    running,              \* the event whose callback runs
    pushed,               \* history: pushed and not yet popped, oldest first
    popped                \* history: the event popped last

vars == <<items, read, write, dropped, running, pushed, popped>>

TypeOK ==
    /\ items \in [0 .. Depth - 1 -> Types \cup {None}]
    /\ read \in 0 .. Depth - 1 /\ write \in 0 .. Depth - 1
    /\ dropped \in 0 .. MaxCount /\ running \in Handled \cup {None}
    /\ Len(pushed) = (write - read) % Depth

Init ==
    /\ items = [i \in 0 .. Depth - 1 |-> None] /\ read = 0 /\ write = 0
    /\ dropped = 0 /\ running = None /\ pushed = <<>> /\ popped = None

After(i) == (i + 1) % Depth
NeverFull == FALSE
Full == After(write) = read

Push(e) ==
    /\ ~Full
    /\ items' = [items EXCEPT ![write] = e]
    /\ write' = After(write)
    /\ pushed' = Append(pushed, e)
    /\ UNCHANGED <<read, dropped, running, popped>>

\* BM_ERR_OVERFLOW
Refuse ==
    /\ Full
    /\ dropped' = IF dropped = MaxCount THEN dropped ELSE dropped + 1
    /\ UNCHANGED <<items, read, write, running, pushed, popped>>

\* bm_ultra_queue_pop
Pop ==
    /\ read # write
    /\ popped' = items[read]
    /\ read' = After(read)
    /\ pushed' = Tail(pushed)

\* bm_ultra_process: pop, then the callback if there is one.
Process ==
    /\ running = None
    /\ Pop
    /\ running' = IF popped' \in Handled THEN popped' ELSE None
    /\ UNCHANGED <<items, write, dropped>>

Return ==
    /\ running # None
    /\ running' = None
    /\ UNCHANGED <<items, read, write, dropped, pushed, popped>>

Reset ==
    /\ items' = [i \in 0 .. Depth - 1 |-> None] /\ read' = 0 /\ write' = 0
    /\ dropped' = 0 /\ pushed' = <<>> /\ popped' = None
    /\ UNCHANGED running

Next == (\E e \in Types : Push(e)) \/ Refuse \/ Process \/ Return \/ Reset

Spec == Init /\ [][Next]_vars

-----------------------------------------------------------------------------
(* Events are processed in the order they were pushed, each once; one that     *)
(* does not fit is refused, and what waits is never overwritten                *)
(* (bm_ultra.c:147-162, 187-200).                                              *)
Queue == INSTANCE BoundedQueue WITH
    Item <- Types, Bound <- Depth - 1, Out <- None, items <- pushed, taken <- popped
IsQueue == Queue!Spec
===============================================================================
