------------------------------- MODULE Mempool -------------------------------
(* bm_mempool, a pool of blocks of one size that several CPUs share            *)
(* (Source/core/bm_mempool.c, routed build).  A call enters a critical section *)
(* and tries the lock of the pool once; whoever finds it taken gives up at     *)
(* once.  What is done under the lock is one step, the attempt another.        *)
(*                                                                             *)
(* The checks of the descriptor and of the address are left out: a block is    *)
(* its index.  Calls from a hard real-time interrupt are refused at the door.  *)
EXTENDS Naturals, FiniteSets

CONSTANTS
    Count,   \* blocks of the pool
    Cpus

MempoolAssumption == Count \in Nat \ {0} /\ IsFiniteSet(Cpus)

Blocks == 0 .. Count - 1

VARIABLES
    bitmap,   \* blocks whose bit is set
    lock,     \* pool->lock
    call,     \* what each CPU does under the lock
    dirty,    \* blocks that are not all zero
    grants,   \* history: callers that hold each block
    leaked    \* history: blocks given up by a caller whose free was refused

vars == <<bitmap, lock, call, dirty, grants, leaked>>

Outside == [op |-> "none", block |-> 0]

TypeOK ==
    /\ bitmap \subseteq Blocks /\ dirty \subseteq Blocks /\ leaked \subseteq Blocks
    /\ lock \in {0, 1}
    /\ call \in [Cpus -> [op : {"none", "alloc", "free", "reset"}, block : Blocks]]
    /\ grants \in [Blocks -> 0 .. 2]

Init ==
    /\ bitmap = {} /\ lock = 0 /\ dirty = Blocks /\ leaked = {}
    /\ call = [c \in Cpus |-> Outside]
    /\ grants = [b \in Blocks |-> 0]

-----------------------------------------------------------------------------
(* mempool_lock: one exchange, and no second one.                              *)
Locked(c, op, b) ==
    /\ lock = 0
    /\ lock' = 1
    /\ call' = [call EXCEPT ![c] = [op |-> op, block |-> b]]
    /\ UNCHANGED <<bitmap, dirty, grants, leaked>>

StaysLocked(c) == call' = [call EXCEPT ![c] = Outside] /\ UNCHANGED lock
Unlocked(c) ==
    /\ lock' = 0
    /\ call' = [call EXCEPT ![c] = Outside]

\* A caller frees what it holds, or once more what has been freed.
BeingFreed == {call[c].block : c \in {d \in Cpus : call[d].op = "free"}}
MayFree(b) == b \notin BeingFreed /\ b \notin leaked /\ (b \in bitmap => grants[b] > 0)

\* bm_mempool_reset is for tests and a controlled stop: no block is in use.
MayReset == \A b \in Blocks : grants[b] = 0

Alloc(c) == call[c] = Outside /\ Locked(c, "alloc", 0)
TryFree(c) == call[c] = Outside /\ \E b \in Blocks : MayFree(b) /\ Locked(c, "free", b)
Reset(c) == call[c] = Outside /\ MayReset /\ Locked(c, "reset", 0)

\* bm_mempool_free drops the result: refused, the block is nobody's any more.
FreeRefused(c) ==
    /\ call[c] = Outside /\ lock = 1
    /\ \E b \in bitmap :
          /\ MayFree(b)
          /\ grants' = [grants EXCEPT ![b] = @ - 1]
          /\ leaked' = leaked \cup {b}
    /\ UNCHANGED <<bitmap, lock, call, dirty>>

-----------------------------------------------------------------------------
(* Under the lock                                                              *)
Free == Blocks \ bitmap
FirstUsed == CHOOSE b \in Blocks : \A d \in Blocks : b <= d
FirstFree == CHOOSE b \in Free : \A d \in Free : b <= d
LeftAsIs(b) == dirty
Zeroed(b) == dirty \ {b}
Marked(b) == bitmap \cup {b}

Allocated(c) ==
    /\ call[c].op = "alloc" /\ Free # {}
    /\ bitmap' = Marked(FirstFree)
    /\ dirty' = Zeroed(FirstFree)
    /\ grants' = [grants EXCEPT ![FirstFree] = @ + 1]
    /\ Unlocked(c)
    /\ UNCHANGED leaked

Exhausted(c) ==
    /\ call[c].op = "alloc" /\ Free = {}
    /\ Unlocked(c)
    /\ UNCHANGED <<bitmap, dirty, grants, leaked>>

Freed(c) ==
    /\ call[c].op = "free" /\ call[c].block \in bitmap
    /\ bitmap' = bitmap \ {call[c].block}
    /\ grants' = [grants EXCEPT ![call[c].block] = @ - 1]
    /\ Unlocked(c)
    /\ UNCHANGED <<dirty, leaked>>

DoubleFree(c) ==
    /\ call[c].op = "free" /\ call[c].block \notin bitmap
    /\ Unlocked(c)
    /\ UNCHANGED <<bitmap, dirty, grants, leaked>>

ResetDone(c) ==
    /\ call[c].op = "reset"
    /\ bitmap' = {} /\ leaked' = {}
    /\ Unlocked(c)
    /\ UNCHANGED <<dirty, grants>>

\* The holder writes into its block.
Use ==
    /\ \E b \in Blocks : grants[b] > 0 /\ b \notin dirty /\ dirty' = dirty \cup {b}
    /\ UNCHANGED <<bitmap, lock, call, grants, leaked>>

Next ==
    \/ \E c \in Cpus :
          \/ Alloc(c) \/ TryFree(c) \/ Reset(c) \/ FreeRefused(c)
          \/ Allocated(c) \/ Exhausted(c) \/ Freed(c) \/ DoubleFree(c) \/ ResetDone(c)
    \/ Use

Spec == Init /\ [][Next]_vars

-----------------------------------------------------------------------------
(* A block is held by one caller at most, and only a block whose free was      *)
(* refused is neither free nor held (bm_mempool.c:195-228, 290-300).           *)
OneHolder == \A b \in Blocks :
    /\ grants[b] <= 1
    /\ b \in bitmap <=> (grants[b] = 1 \/ b \in leaked)

(* Whatever a call comes to, it leaves the lock as it found it, so that no     *)
(* caller is shut out for good (bm_mempool.c:224, 232, 295, 300, 342).         *)
LockIsHeld == lock = Cardinality({c \in Cpus : call[c] # Outside})

(* What is handed out is all zero (bm_mempool.h:52).                           *)
ZeroedWhenGranted == \A b \in Blocks : grants'[b] > grants[b] => b \notin dirty'
=============================================================================
