------------------------------- MODULE Stream -------------------------------
(* bm_stream on its owner CPU (Source/hybrid/bm_stream.c): blocks of payload   *)
(* go from an input producer (a DMA interrupt) to the main loop, which         *)
(* processes them, and from an output producer back out.  A block belongs to   *)
(* whoever its state says.                                                     *)
(*                                                                             *)
(* A critical section is one step; cache maintenance, which may fail, and the  *)
(* ready handler run outside, between two of them.  The counters of            *)
(* bm_stream_stats_t are left out.                                             *)
EXTENDS Integers, FiniteSets

CONSTANTS
    Blocks,       \* the blocks of the stream
    NoBlock,
    SeqMod,       \* bound: the 2^32 of block->sequence
    DropOldest,   \* the policy is BM_STREAM_POLICY_DROP_OLDEST
    Handled,      \* there is an on_ready handler (the legacy profile)
    Budget,       \* of bm_stream_drain
    CacheFaults,  \* cache maintenance can fail
    MaxHeld       \* bound: blocks the main loop keeps at a time

StreamAssumption ==
    /\ IsFiniteSet(Blocks) /\ NoBlock \notin Blocks
    /\ SeqMod \in Nat /\ SeqMod > 2 /\ Budget \in Nat /\ MaxHeld \in Nat
    /\ {DropOldest, Handled, CacheFaults} \subseteq BOOLEAN

In == "in"
Out == "out"
Producers == {In, Out}

VARIABLES
    state,       \* bm_block_state_t of each block
    sequence,    \* block->sequence
    next,        \* next_sequence
    pending,     \* pending_drain
    prod,        \* the call each producer is in, and the block it has
    main,        \* the call the main loop is in, its block, notifications left
    held,        \* the blocks the main loop keeps
    earlier      \* history: what In committed before each block and is not released

vars == <<state, sequence, next, pending, prod, main, held, earlier>>

Idle == [pc |-> "idle", block |-> NoBlock]
Resting == [pc |-> "idle", block |-> NoBlock, left |-> 0]

\* bm_stream_init
Init ==
    /\ state = [b \in Blocks |-> "FREE"]
    /\ sequence = [b \in Blocks |-> 0] /\ next = 0
    /\ pending = FALSE
    /\ prod = [p \in Producers |-> Idle]
    /\ main = Resting /\ held = {} /\ earlier = [b \in Blocks |-> {}]

In_(s) == {b \in Blocks : state[b] = s}
Waiting == In_("READY") \cup In_("PROCESSING")
Without(b) == [c \in Blocks |-> IF c = b THEN {} ELSE earlier[c] \ {b}]
Move(b, s) == state' = [state EXCEPT ![b] = s]

\* (int32_t)(a - b) < 0
OlderByValue(a, b) == a < b
Older(a, b) == (a - b) % SeqMod >= SeqMod \div 2
Oldest == {b \in In_("READY") : \A c \in In_("READY") : ~Older(sequence[c], sequence[b])}

-----------------------------------------------------------------------------
(* Producers                                                                  *)

Acquire(p) ==
    /\ prod[p].pc = "idle"
    /\ \E b \in In_("FREE") :
          /\ Move(b, "DMA_OWNED")
          /\ prod' = [prod EXCEPT ![p] = [pc |-> "owning", block |-> b]]
    /\ UNCHANGED <<sequence, next, pending, main, held, earlier>>

\* bm_stream_producer_acquire with no block free takes the oldest ready one.
AnyInUse == {b \in Blocks : state[b] \in {"READY", "PROCESSING"}}
Victims == Oldest

AcquireOldest ==
    /\ DropOldest /\ prod[In].pc = "idle" /\ In_("FREE") = {}
    /\ \E b \in Victims :
          /\ Move(b, "DMA_OWNED")
          /\ prod' = [prod EXCEPT ![In] = [pc |-> "owning", block |-> b]]
          /\ earlier' = Without(b)
    /\ UNCHANGED <<sequence, next, pending, main, held>>

\* The producer abandons the block, bm_stream_producer_abort.
Abort(p) ==
    /\ prod[p].pc = "owning"
    /\ Move(prod[p].block, "FREE")
    /\ prod' = [prod EXCEPT ![p] = Idle]
    /\ UNCHANGED <<sequence, next, pending, main, held, earlier>>

\* Bound: a block does not wait while SeqMod / 2 numbers go by, which only commits
\* that fail can use up.
InWindow == \A b \in Waiting : (next + 1 - sequence[b]) % SeqMod < SeqMod \div 2

\* Commit checks the state and numbers the block in a critical section; a length
\* beyond the capacity is refused there and leaves the block with the producer.
Commit(p) ==
    LET b == prod[p].block IN
    /\ prod[p].pc = "owning"
    /\ state[b] = "DMA_OWNED"
    /\ IF p = In
       THEN /\ InWindow
            /\ next' = (next + 1) % SeqMod
            /\ sequence' = [sequence EXCEPT ![b] = next']
       ELSE UNCHANGED <<next, sequence>>
    /\ prod' = [prod EXCEPT ![p].pc = "publishing"]
    /\ UNCHANGED <<state, pending, main, held, earlier>>

\* The cache maintenance fails: the block goes back to the pool.
Forgotten(b) == UNCHANGED state
Recycled(b) == Move(b, "FREE")
CommitFails(p) ==
    /\ CacheFaults /\ prod[p].pc = "publishing"
    /\ IF state[prod[p].block] = "DMA_OWNED"
       THEN Recycled(prod[p].block)
       ELSE UNCHANGED state
    /\ prod' = [prod EXCEPT ![p] = Idle]
    /\ UNCHANGED <<sequence, next, pending, main, held, earlier>>

Publish(p) ==
    LET b == prod[p].block IN
    /\ prod[p].pc = "publishing"
    /\ state[b] = "DMA_OWNED"
    /\ prod' = [prod EXCEPT ![p] = Idle]
    /\ IF p = In
       THEN /\ Move(b, "READY")
            /\ pending' = TRUE
            /\ earlier' = [earlier EXCEPT ![b] = Waiting]
       ELSE /\ Move(b, "OUTPUT_READY")
            /\ UNCHANGED <<pending, earlier>>
    /\ UNCHANGED <<sequence, next, main, held>>

-----------------------------------------------------------------------------
(* The main loop as a consumer                                                *)

Take ==
    /\ main.pc = "idle" /\ Cardinality(held) < MaxHeld
    /\ \E b \in Oldest :
          /\ Move(b, "PROCESSING")
          /\ main' = [main EXCEPT !.pc = "taking", !.block = b]
    /\ UNCHANGED <<sequence, next, pending, prod, held, earlier>>

TakeSucceeds ==
    /\ main.pc = "taking"
    /\ held' = held \cup {main.block}
    /\ main' = Resting
    /\ UNCHANGED <<state, sequence, next, pending, prod, earlier>>

TakeFails ==
    /\ CacheFaults /\ main.pc = "taking"
    /\ Move(main.block, "READY")
    /\ main' = Resting
    /\ UNCHANGED <<sequence, next, pending, prod, held, earlier>>

\* bm_stream_consumer_release, by the main loop or by the handler.
Release(b) ==
    /\ main.pc \in {"idle", "handling"}
    /\ b \in held \/ b = main.block \/ state[b] = "OUTPUT_READY"
    /\ state[b] \in {"PROCESSING", "OUTPUT_READY"}
    /\ Move(b, "FREE")
    /\ held' = held \ {b}
    /\ earlier' = Without(b)
    /\ UNCHANGED <<sequence, next, pending, prod, main>>

-----------------------------------------------------------------------------
(* bm_stream_drain                                                            *)

\* Without a handler it forgets what is pending; with none pending it returns.
DrainNoHandler ==
    /\ ~Handled /\ main.pc = "idle" /\ pending
    /\ pending' = FALSE
    /\ UNCHANGED <<state, sequence, next, prod, main, held, earlier>>

BudgetReached == main.left >= 0
HasBudget == main.left > 0

Drain ==
    /\ Handled /\ Budget > 0 /\ main.pc = "idle" /\ pending
    /\ main' = [main EXCEPT !.pc = "draining", !.left = Budget]
    /\ UNCHANGED <<state, sequence, next, pending, prod, held, earlier>>

DrainTake ==
    /\ main.pc = "draining" /\ HasBudget
    /\ \E b \in Oldest :
          /\ Move(b, "PROCESSING")
          /\ main' = [main EXCEPT !.pc = "consuming", !.block = b]
    /\ UNCHANGED <<sequence, next, pending, prod, held, earlier>>

DrainFails ==
    /\ CacheFaults /\ main.pc = "consuming"
    /\ Move(main.block, "READY")
    /\ main' = Resting
    /\ UNCHANGED <<sequence, next, pending, prod, held, earlier>>

\* The handler is called, and may release the block.
Notify ==
    /\ main.pc = "consuming"
    /\ main' = [main EXCEPT !.pc = "handling"]
    /\ UNCHANGED <<state, sequence, next, pending, prod, held, earlier>>

Handback ==
    /\ main.pc = "handling"
    /\ IF state[main.block] = "PROCESSING"
       THEN Move(main.block, "READY")
       ELSE UNCHANGED state
    /\ main' = [main EXCEPT !.pc = "draining", !.block = NoBlock, !.left = @ - 1]
    /\ UNCHANGED <<sequence, next, pending, prod, held, earlier>>

\* The last look at the blocks, in the section that clears the flag.
NoneRemains == FALSE
Remaining == In_("READY") # {}
DrainEnd ==
    /\ main.pc = "draining"
    /\ ~HasBudget \/ In_("READY") = {}
    /\ pending' = (Remaining /\ pending)
    /\ main' = Resting
    /\ UNCHANGED <<state, sequence, next, prod, held, earlier>>

-----------------------------------------------------------------------------
\* bm_stream_reset, as the modules' start calls it: nobody has a block.
Reset ==
    /\ prod = [p \in Producers |-> Idle] /\ main = Resting /\ held = {}
    /\ state' = [b \in Blocks |-> "FREE"]
    /\ sequence' = [b \in Blocks |-> 0] /\ next' = 0
    /\ earlier' = [b \in Blocks |-> {}]
    /\ UNCHANGED <<pending, prod, main, held>>

Produce(p) == Acquire(p) \/ Abort(p) \/ Commit(p) \/ CommitFails(p) \/ Publish(p)
Consume == Take \/ TakeSucceeds \/ TakeFails \/ \E b \in Blocks : Release(b)
Draining == Drain \/ DrainTake \/ DrainFails \/ Notify \/ Handback \/ DrainEnd

Next == (\E p \in Producers : Produce(p)) \/ AcquireOldest
        \/ Consume \/ DrainNoHandler \/ Draining \/ Reset

Spec == Init /\ [][Next]_vars

-----------------------------------------------------------------------------
(* Properties                                                                 *)

States == {"FREE", "DMA_OWNED", "READY", "PROCESSING", "OUTPUT_READY"}

TypeOK ==
    /\ state \in [Blocks -> States]
    /\ sequence \in [Blocks -> 0 .. SeqMod - 1] /\ next \in 0 .. SeqMod - 1
    /\ pending \in BOOLEAN
    /\ prod \in [Producers -> [pc : {"idle", "owning", "publishing"},
                               block : Blocks \cup {NoBlock}]]
    /\ main \in [pc : {"idle", "taking", "draining", "consuming", "handling"},
                 block : Blocks \cup {NoBlock}, left : 0 .. Budget]
    /\ held \subseteq Blocks
    /\ earlier \in [Blocks -> SUBSET Blocks]

\* The block the main loop is at work on and has not given up.
Working == IF main.pc \in {"taking", "consuming"} THEN {main.block} ELSE {}
\* In the handler the block may have been released and be on its way again.
Handling == IF main.pc = "handling" THEN {main.block} ELSE {}

\* A block has one owner: what a producer fills nobody else has, and what the main
\* loop reads stays as it was committed until it is released.
OneOwner ==
    /\ prod[In].block = NoBlock \/ prod[In].block # prod[Out].block
    /\ \A p \in Producers :
          prod[p].pc # "idle" => /\ state[prod[p].block] = "DMA_OWNED"
                                 /\ prod[p].block \notin held \cup Working
    /\ \A b \in held \cup Working : state[b] = "PROCESSING"

\* No block is lost to the pool: one that is not free is ready, or somebody has it.
\* (bm_stream.c:466-472 promises it of cache faults.)
NoLeak ==
    \A b \in Blocks :
        /\ state[b] = "DMA_OWNED" => \E p \in Producers : prod[p].block = b
        /\ state[b] = "PROCESSING" => b \in held \cup Working \cup Handling

\* The consumer is always given the block committed first among the ready ones,
\* also when the sequence numbers have come round and after blocks were handed
\* back or dropped.
FirstCommittedFirst ==
    [][\A b \in Blocks : state[b] = "READY" /\ state'[b] # "READY" =>
          state' = [c \in Blocks |-> "FREE"] \/
          \A c \in earlier[b] : state[c] # "READY"]_vars

\* A notification is not lost: while a block is ready a drain finds the flag set.
ReadyIsPending == Handled /\ In_("READY") # {} => pending
=============================================================================
