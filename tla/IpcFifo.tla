------------------------------- MODULE IpcFifo -------------------------------
(* A command ring between two CPUs behind a bus in IPC mode: the FIFO half of  *)
(* Source/mp/bm_mp_ipc_backend.c, and what bm_bus.c adds to it.                *)
(*                                                                             *)
(* One CPU writes, one reads, with no lock.  The writer fills a scratch of its *)
(* own and copies it into the ring when it commits, word by word while the     *)
(* other CPU runs; the reader copies the oldest slot into a scratch of its own *)
(* and gives the slot back when it releases.                                   *)
EXTENDS Naturals, Sequences

CONSTANTS
    Item,       \* what is sent
    Depth,      \* BM_CONFIG_MP_IPC_CMD_RING_DEPTH
    CurMod,     \* the cursors count modulo this (2^32)
    WordCount,  \* words of an item, copied one by one
    Out         \* nothing

\* bm_mp_ipc_backend.c:38: the depth is a power of two, so it divides 2^32.
FifoAssumption ==
    /\ Depth \in Nat /\ Depth >= 2
    /\ CurMod \in Nat /\ CurMod >= 2 * Depth /\ CurMod % Depth = 0
    /\ WordCount \in Nat /\ WordCount >= 1
    /\ Out \notin Item

Cursors == 0 .. CurMod - 1
Slots == 0 .. Depth - 1
Words == 1 .. WordCount

VARIABLES
    slots,       \* cmd_ring[source][target].slots
    head, tail,  \* its cursors
    wrPending,   \* the writer's context: wr_pending,
    scratch,     \* scratch,
    copiedIn,    \* and the words of it a commit under way has stored
    rpc,         \* the reader: "idle", "copying", or "holding" a copy,
    scratchR,    \* which is in scratch_r
    taken        \* history: the last copy the reader gave back

writer == <<head, wrPending, scratch, copiedIn>>
reader == <<tail, rpc, scratchR, taken>>
vars == <<slots, writer, reader>>

Init ==
    /\ slots = [s \in Slots |-> [w \in Words |-> Out]]
    /\ head = 0 /\ tail = 0
    /\ wrPending = FALSE /\ scratch = Out /\ copiedIn = 0
    /\ rpc = "idle" /\ scratchR = <<>> /\ taken = Out

Succ(c) == (c + 1) % CurMod
SlotOf(c) == c % Depth

\* head - tail, in the cursors' width.
PlainGap(h, t) == IF h >= t THEN h - t ELSE 0
Gap(h, t) == (h + CurMod - t) % CurMod

-----------------------------------------------------------------------------
(* The writing CPU.                                                           *)

FullAtDepth == Gap(head, tail) >= Depth
Full == Gap(head, tail) >= Depth - 1

\* BUSY while a write is pending, OVERFLOW when the ring is full.  The caller
\* then fills the scratch.
AcquireWrite ==
    /\ ~wrPending
    /\ ~Full
    /\ wrPending' = TRUE
    /\ \E v \in Item : scratch' = v
    /\ UNCHANGED <<slots, head, copiedIn, reader>>

\* Only between an acquire and a commit: the context has one user.
Abort ==
    /\ wrPending /\ copiedIn = 0
    /\ wrPending' = FALSE
    /\ scratch' = Out
    /\ UNCHANGED <<slots, head, copiedIn, reader>>

CopyIn ==
    /\ wrPending /\ copiedIn < WordCount
    /\ slots' = [slots EXCEPT ![SlotOf(head)][copiedIn + 1] = scratch]
    /\ copiedIn' = copiedIn + 1
    /\ UNCHANGED <<head, wrPending, scratch, reader>>

LastWordLate == copiedIn >= WordCount - 1
AllCopied == copiedIn = WordCount

PublishHead ==
    /\ wrPending /\ AllCopied
    /\ head' = Succ(head)
    /\ wrPending' = FALSE /\ scratch' = Out /\ copiedIn' = 0
    /\ UNCHANGED <<slots, reader>>

-----------------------------------------------------------------------------
(* The reading CPU.  The oldest item stays the oldest until it is released,   *)
(* however often the reader acquires.                                         *)

AcquireRead ==
    /\ rpc \in {"idle", "holding"}
    /\ head # tail
    /\ rpc' = "copying"
    /\ scratchR' = <<>>
    /\ UNCHANGED <<slots, writer, tail, taken>>

CopyOut ==
    /\ rpc = "copying"
    /\ scratchR' = Append(scratchR, slots[SlotOf(tail)][Len(scratchR) + 1])
    /\ rpc' = IF Len(scratchR') = WordCount THEN "holding" ELSE "copying"
    /\ UNCHANGED <<slots, writer, tail, taken>>

Release ==
    /\ rpc = "holding"
    /\ tail' = Succ(tail)
    /\ rpc' = "idle"
    /\ taken' = IF \A w \in Words : scratchR[w] = scratchR[1] THEN scratchR[1] ELSE Out
    /\ scratchR' = <<>>
    /\ UNCHANGED <<slots, writer>>

Next ==
    \/ AcquireWrite
    \/ Abort
    \/ CopyIn
    \/ PublishHead
    \/ AcquireRead
    \/ CopyOut
    \/ Release

Spec == Init /\ [][Next]_vars

-----------------------------------------------------------------------------
\* The state is well-formed: never more items than the depth less one, the copies
\* a prefix of an item (bm_mp_ipc_backend.c:96-181).
TypeOK ==
    /\ slots \in [Slots -> [Words -> Item \cup {Out}]]
    /\ head \in Cursors /\ tail \in Cursors /\ Gap(head, tail) < Depth
    /\ wrPending \in BOOLEAN /\ scratch \in Item \cup {Out}
    /\ copiedIn \in 0 .. WordCount
    /\ (copiedIn > 0) => wrPending
    /\ rpc \in {"idle", "copying", "holding"}
    /\ Len(scratchR) <= WordCount
    /\ taken \in Item \cup {Out}

\* The slot a commit stores into is never the one the reader may be copying, also
\* when the cursors come round: fullness is checked in acquire_write only, any
\* number of the reader's steps before the commit stores into the slot
\* (bm_mp_ipc_backend.c:104, 126, 162).
NeverSameSlot ==
    (copiedIn > 0 /\ rpc # "idle") => SlotOf(head) # SlotOf(tail)

\* A ring of Depth slots is a bounded queue of Depth - 1 whole items: what the
\* reader gives back is what was committed, in order, once, and an item aborted is
\* never seen (bm_mp_ipc_backend.c:16-27).
Items == [i \in 1 .. Gap(head, tail) |->
             slots[SlotOf((tail + i - 1) % CurMod)][1]]

Q == INSTANCE BoundedQueue WITH Bound <- Depth - 1, items <- Items

IsQueue == Q!Spec
=============================================================================
