---------------------------- MODULE BoundedQueue ----------------------------
(* What a bm_bus in QUEUE mode promises: a bounded first-in first-out queue   *)
(* that refuses a writer when it is full and never drops or repeats an item.  *)
EXTENDS Naturals, Sequences

CONSTANTS
    Item,   \* what the writer may put
    Bound,  \* items held at most
    Out     \* "nothing has been taken yet"

VARIABLES
    items,  \* committed and not yet taken, oldest first
    taken   \* the item of the last completed take

vars == <<items, taken>>

Init ==
    /\ items = <<>>
    /\ taken = Out

Put ==
    /\ Len(items) < Bound
    /\ \E v \in Item : items' = Append(items, v)
    /\ UNCHANGED taken

Take ==
    /\ items # <<>>
    /\ taken' = Head(items)
    /\ items' = Tail(items)

\* Attaching the consumer discards what was put before; so does a reset.
Discard ==
    /\ items' = <<>>
    /\ taken' = Out

Next == Put \/ Take \/ Discard

Spec == Init /\ [][Next]_vars
=============================================================================
