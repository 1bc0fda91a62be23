----------------------------- MODULE StreamRelay -----------------------------
(* The relay that carries blocks from one CPU to another                       *)
(* (Source/hybrid/bm_stream_relay.c).                                          *)
(*                                                                             *)
(* A ring of slots with one producer and one consumer and no lock.  The        *)
(* producer copies a block into a slot, stamps it with the epochs it knows and *)
(* a sequence number that leaves out 0, and moves the head.  The consumer, in  *)
(* every iteration of its CPU's main loop, hands at most Budget blocks to a    *)
(* callback, which reads them where they are; a slot whose stamps do not agree *)
(* with what the consumer knows is dropped as corrupt.  What a CPU knows of    *)
(* the profile depends on whether it has been bound to the profile's epoch.    *)
EXTENDS Naturals, Sequences

CONSTANTS
    Item,       \* the blocks that are sent
    Depth,      \* relay->depth
    SeqMod,     \* sequence numbers are 0 .. SeqMod - 1 (2^32)
    WordCount,  \* words of a block, copied and read one by one
    Budget,     \* blocks a drain may take (BM_CONFIG_MP_RELAY_DRAIN_BUDGET)
    BindsFirst, \* each CPU is bound before it uses the relay
    Out         \* nothing

\* bm_stream_relay.c:207-211: the depth is a power of two.
RelayAssumption ==
    /\ Depth \in Nat /\ Depth >= 2
    /\ SeqMod \in Nat /\ SeqMod > 2
    /\ WordCount \in Nat \ {0} /\ Budget \in Nat \ {0}
    /\ BindsFirst \in BOOLEAN
    /\ Out \notin Item

Slots == 0 .. Depth - 1
Words == 1 .. WordCount
Cpus == {"source", "target"}

VARIABLES
    bound,           \* the CPUs with a registered query (s_query)
    open,            \* relay->initialized
    registered,      \* the target has put the relay in its registry
    block,           \* slots: the words of the block,
    stamp,           \* header->sequence and header->profile_epoch,
    announced,       \* header->published_sequence
    head, tail,      \* relay->head, relay->tail
    nextSequence,    \* relay->next_sequence
    ppc, filled, sent,  \* a publish under way: its step, the words copied, its block
    cpc, drained, seen, \* a drain under way: its step, count, the words read
    lastSeq, taken      \* history: the last slot passed over, the last block read

producer == <<head, nextSequence, ppc, filled, sent>>
consumer == <<tail, cpc, drained, seen, lastSeq, taken>>
slots == <<block, stamp, announced>>
setup == <<bound, open, registered>>
vars == <<setup, slots, producer, consumer>>

Init ==
    /\ bound = {} /\ open = FALSE /\ registered = FALSE
    /\ block = [s \in Slots |-> [w \in Words |-> Out]]
    /\ stamp = [s \in Slots |-> [sequence |-> 0, epoch |-> 0]]
    /\ announced = [s \in Slots |-> 0]
    /\ head = 0 /\ tail = 0 /\ nextSequence = 0
    /\ ppc = "idle" /\ filled = 0 /\ sent = Out
    /\ cpc = "idle" /\ drained = 0 /\ seen = <<>>
    /\ lastSeq = 0 /\ taken = Out

Succ(i) == (i + 1) % Depth

-----------------------------------------------------------------------------
(* Setting up.  The profile is built, so its epoch is 1; a CPU that is not     *)
(* bound falls back on the epoch of the relay itself, which nobody sets.       *)

ActiveEpoch(c) == IF c \in bound THEN 1 ELSE 0

Bind(c) ==
    /\ c \notin bound
    /\ bound' = bound \cup {c}
    /\ UNCHANGED <<open, registered, slots, producer, consumer>>

Open ==
    /\ ~open
    /\ BindsFirst => "source" \in bound
    /\ open' = TRUE
    /\ UNCHANGED <<bound, registered, slots, producer, consumer>>

\* Nothing here asks whether this CPU is bound: the order is the application's.
RegisterUnbound == open /\ ~registered
MayRegister == open /\ ~registered /\ (BindsFirst => "target" \in bound)

Register ==
    /\ MayRegister
    /\ registered' = TRUE
    /\ UNCHANGED <<bound, open, slots, producer, consumer>>

-----------------------------------------------------------------------------
(* bm_stream_relay_publish, on the source CPU.                                *)

NeverFull == FALSE
Full == Succ(head) = tail

SuccSeq(s) == (s + 1) % SeqMod
NextSeq(s) == IF s + 1 = SeqMod THEN 1 ELSE s + 1

\* A publish that finds the ring full is counted, and takes no number.
SpendNumber == nextSequence' = NextSeq(nextSequence)
KeepNumber == UNCHANGED nextSequence

Refuse ==
    /\ ppc = "idle" /\ open
    /\ Full
    /\ KeepNumber
    /\ UNCHANGED <<setup, slots, head, ppc, filled, sent, consumer>>

BeginPublish ==
    /\ ppc = "idle" /\ open
    /\ ~Full
    /\ \E v \in Item : sent' = v
    /\ ppc' = "fill" /\ filled' = 0
    /\ UNCHANGED <<setup, slots, head, nextSequence, consumer>>

Fill ==
    /\ ppc = "fill" /\ filled < WordCount
    /\ block' = [block EXCEPT ![head][filled + 1] = sent]
    /\ filled' = filled + 1
    /\ UNCHANGED <<setup, stamp, announced, head, nextSequence, ppc, sent, consumer>>

LastWordLate == filled >= WordCount - 1
AllFilled == filled = WordCount

Stamp ==
    /\ ppc = "fill" /\ AllFilled
    /\ nextSequence' = NextSeq(nextSequence)
    /\ stamp' = [stamp EXCEPT ![head] =
           [sequence |-> nextSequence', epoch |-> ActiveEpoch("source")]]
    /\ ppc' = "announce"
    /\ UNCHANGED <<setup, block, announced, head, filled, sent, consumer>>

Announce ==
    /\ ppc = "announce"
    /\ announced' = [announced EXCEPT ![head] = stamp[head].sequence]
    /\ ppc' = "advance"
    /\ UNCHANGED <<setup, block, stamp, head, nextSequence, filled, sent, consumer>>

Advance ==
    /\ ppc = "advance"
    /\ head' = Succ(head)
    /\ ppc' = "idle" /\ filled' = 0 /\ sent' = Out
    /\ UNCHANGED <<setup, slots, nextSequence, consumer>>

Publish == Refuse \/ BeginPublish \/ Fill \/ Stamp \/ Announce \/ Advance

-----------------------------------------------------------------------------
(* bm_stream_relay_drain, on the target CPU.                                  *)

BeginDrain ==
    /\ cpc = "idle" /\ registered
    /\ cpc' = "look" /\ drained' = 0
    /\ UNCHANGED <<setup, slots, producer, tail, seen, lastSeq, taken>>

NeverSpent == FALSE
Spent == drained >= Budget

EndDrain ==
    /\ cpc = "look"
    /\ Spent \/ head = tail
    /\ cpc' = "idle" /\ drained' = 0
    /\ UNCHANGED <<setup, slots, producer, tail, seen, lastSeq, taken>>

Sound(s) ==
    /\ announced[s] = stamp[s].sequence
    /\ stamp[s].sequence # 0
    /\ stamp[s].epoch = ActiveEpoch("target")

\* The slot goes back to the producer, and the loop goes on.
PassOver ==
    /\ tail' = Succ(tail)
    /\ drained' = IF drained < Budget THEN drained + 1 ELSE Budget
    /\ cpc' = "look"
    /\ lastSeq' = stamp[tail].sequence
    /\ seen' = <<>>

Drop ==
    /\ cpc = "look" /\ ~Spent /\ head # tail
    /\ ~Sound(tail)
    /\ PassOver
    /\ UNCHANGED <<setup, slots, producer, taken>>

BeginConsume ==
    /\ cpc = "look" /\ ~Spent /\ head # tail
    /\ Sound(tail)
    /\ cpc' = "consume"
    /\ UNCHANGED <<setup, slots, producer, tail, drained, seen, lastSeq, taken>>

AllRead == Len(seen) = WordCount
\* The callback reads the block in the slot.
Read ==
    /\ cpc = "consume" /\ ~AllRead
    /\ seen' = Append(seen, block[tail][Len(seen) + 1])
    /\ UNCHANGED <<setup, slots, producer, tail, cpc, drained, lastSeq, taken>>

Whole(words) == \A i \in DOMAIN words : words[i] = words[1]

Consumed ==
    /\ cpc = "consume" /\ AllRead
    /\ PassOver
    /\ taken' = IF Whole(seen) THEN seen[1] ELSE Out
    /\ UNCHANGED <<setup, slots, producer>>

Drain == BeginDrain \/ EndDrain \/ Drop \/ BeginConsume \/ Read \/ Consumed

Next ==
    \/ \E c \in Cpus : Bind(c)
    \/ Open
    \/ Register
    \/ Publish
    \/ Drain

Spec == Init /\ [][Next]_vars

-----------------------------------------------------------------------------
\* The state is well-formed: a number of 0 is only in a slot never filled
\* (bm_stream_relay.c:265-315).
TypeOK ==
    /\ bound \subseteq Cpus /\ open \in BOOLEAN /\ registered \in BOOLEAN
    /\ block \in [Slots -> [Words -> Item \cup {Out}]]
    /\ stamp \in [Slots -> [sequence : 0 .. SeqMod - 1, epoch : {0, 1}]]
    /\ announced \in [Slots -> 0 .. SeqMod - 1]
    /\ head \in Slots /\ tail \in Slots
    /\ nextSequence \in 0 .. SeqMod - 1
    /\ (\E s \in Slots : announced[s] # 0) => nextSequence # 0
    /\ ppc \in {"idle", "fill", "announce", "advance"}
    /\ filled \in 0 .. WordCount /\ sent \in Item \cup {Out}
    /\ cpc \in {"idle", "look", "consume"}
    /\ drained \in 0 .. Budget
    /\ Len(seen) <= WordCount
    /\ lastSeq \in 0 .. SeqMod - 1 /\ taken \in Item \cup {Out}

\* A producer that is slow, a ring that is full and a sequence number that comes
\* round are never taken for corruption: when both CPUs are bound before they use
\* the relay, the consumer finds every slot it looks at sound, so a count above 0
\* means what its comment says it means (bm_stream_relay.c:300-308, 371-377).
NeverCorrupt == (registered /\ head # tail) => Sound(tail)

\* The numbers tell the consumer of no loss there was not: from one slot to the
\* next, delivered or dropped, the number goes up by one and leaves out 0, also
\* when publishes were refused in between (bm_stream_relay.c:284-311).
NoFalseGap == head # tail => stamp[tail].sequence = NextSeq(lastSeq)

\* The producer never stores into the slot the callback is reading, nor into its
\* header (bm_stream_relay.c:283-311, 385-390).
NeverUnderReader == (ppc # "idle" /\ cpc = "consume") => head # tail

\* When both CPUs are bound in time the relay is a bounded queue of Depth - 1 whole
\* blocks: each block that was not refused reaches the callback, in order, once.
Items == [i \in 1 .. ((head + Depth - tail) % Depth) |->
             block[(tail + i - 1) % Depth][1]]

Q == INSTANCE BoundedQueue WITH Bound <- Depth - 1, items <- Items

IsQueue == Q!Spec
=============================================================================
