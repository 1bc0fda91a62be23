------------------------------ MODULE IpcEvents ------------------------------
(* Events forwarded between CPUs (Source/mp/bm_mp_ipc_matrix.c): every pair of *)
(* CPUs has a ring with one writer and one reader.  The sources publish into   *)
(* their rings; the main loop of the target drains them, in order of source,   *)
(* into its own event queue (EventQueue, here the room its priorities have)    *)
(* and then processes that.                                                    *)
(*                                                                             *)
(* A source publishes inside its critical section, in steps another CPU can    *)
(* tell apart: the slot is unreadable between the claim and the fill.          *)
EXTENDS Integers, Sequences, FiniteSets

CONSTANTS
    NSources,       \* the source CPUs are 1 .. NSources, the target is none of them
    Kinds,          \* kinds of event: a type and a priority
    Known,          \* kinds whose type is registered on the target
    Prio,           \* their priorities
    Depth,          \* BM_CONFIG_MP_IPC_EVENT_RING_DEPTH
    Room,           \* events a priority of the target's queue holds
    PerSource,      \* BM_CONFIG_MP_IPC_PER_SOURCE_BUDGET
    DrainBudget,    \* BM_CONFIG_MP_IPC_DRAIN_BUDGET
    ProcessBudget,  \* BM_CONFIG_MP_EVENT_PROCESS_BUDGET
    Locals,         \* interrupts of the target publish into its queue as well
    SeqMod,         \* bound: the 2^32 of source_seq
    None

ASSUME IpcAssumption ==
    /\ Known \subseteq Kinds /\ None \notin Kinds
    /\ {NSources, Depth, Room, PerSource, DrainBudget, ProcessBudget, SeqMod} \subseteq Nat
    /\ NSources >= 1 /\ Depth >= 2 /\ SeqMod > 2 * Depth
    /\ Locals \in BOOLEAN

Sources == 1 .. NSources
Prios == {Prio[k] : k \in Kinds}

VARIABLES
    slots, head, tail,    \* the ring of each source
    nextSeq,              \* next_source_seq
    step,                 \* how far each source is with a publish, and its event
    lastSeq,              \* event_last_seq
    drain,                \* the drain under way, its locals
    used,                 \* events in the target's queue, by priority
    delivered             \* history: the last event of each source put in the queue

ring == <<slots, head, tail, nextSeq, step>>
vars == <<ring, lastSeq, drain, used, delivered>>

Garbage == [seq |-> 0, kind |-> None]
AtRest == [pc |-> "rest", src |-> 1, per |-> 0, done |-> 0, slot |-> Garbage]

Init ==
    /\ slots = [s \in Sources |-> [i \in 0 .. Depth - 1 |-> Garbage]]
    /\ head = [s \in Sources |-> 0] /\ tail = [s \in Sources |-> 0]
    /\ nextSeq = [s \in Sources |-> 0]
    /\ step = [s \in Sources |-> [pc |-> "idle", kind |-> None]]
    /\ lastSeq = [s \in Sources |-> 0]
    /\ drain = AtRest
    /\ used = [p \in Prios |-> 0]
    /\ delivered = [s \in Sources |-> None]

Succ(i) == (i + 1) % Depth

-----------------------------------------------------------------------------
(* bm_mp_ipc_publish_event_forward                                            *)

\* 0 is no sequence number: it is skipped when the counter comes round.
SuccWrap(n) == (n + 1) % SeqMod
SuccSeq(n) == IF (n + 1) % SeqMod = 0 THEN 1 ELSE (n + 1) % SeqMod

NeverFull(s) == FALSE
Full(s) == Succ(head[s]) = tail[s]

Claim(s, k) ==
    /\ step[s].pc = "idle"
    /\ ~Full(s)
    /\ nextSeq' = [nextSeq EXCEPT ![s] = SuccSeq(@)]
    /\ slots' = [slots EXCEPT ![s][head[s]] = Garbage]
    /\ step' = [step EXCEPT ![s] = [pc |-> "filling", kind |-> k]]
    /\ UNCHANGED <<head, tail, lastSeq, drain, used, delivered>>

Fill(s) ==
    /\ step[s].pc = "filling"
    /\ slots' = [slots EXCEPT ![s][head[s]] = [seq |-> nextSeq[s], kind |-> step[s].kind]]
    /\ step' = [step EXCEPT ![s].pc = "publishing"]
    /\ UNCHANGED <<head, tail, nextSeq, lastSeq, drain, used, delivered>>

Publish(s) ==
    /\ step[s].pc = "publishing"
    /\ head' = [head EXCEPT ![s] = Succ(@)]
    /\ step' = [step EXCEPT ![s] = [pc |-> "idle", kind |-> None]]
    /\ UNCHANGED <<slots, tail, nextSeq, lastSeq, drain, used, delivered>>

-----------------------------------------------------------------------------
(* bm_mp_ipc_drain_on_this_cpu, called by bm_mp_cpu_main_iteration            *)

Iterate ==
    /\ drain.pc = "rest"
    /\ drain' = [AtRest EXCEPT !.pc = "look"]
    /\ UNCHANGED <<ring, lastSeq, used, delivered>>

Empty(s) == head[s] = tail[s]
NoShare == TRUE
WithinShare == drain.per < PerSource

\* The loops over sources and slots: copy a slot, go to the next source, or end.
Look ==
    LET s == drain.src IN
    /\ drain.pc = "look"
    /\ drain' =
         IF s \notin Sources \/ drain.done >= DrainBudget
         THEN [drain EXCEPT !.pc = "process", !.done = 0]
         ELSE IF ~WithinShare \/ Empty(s)
         THEN [drain EXCEPT !.src = s + 1, !.per = 0]
         ELSE [drain EXCEPT !.pc = "copied", !.slot = slots[s][tail[s]]]
    /\ UNCHANGED <<ring, lastSeq, used, delivered>>

\* (int32_t)(seq - last) <= 0
NotNewer(a, b) == (a - b) % SeqMod = 0 \/ (a - b) % SeqMod > SeqMod \div 2
Suspect == drain.slot.seq = 0 \/ NotNewer(drain.slot.seq, lastSeq[drain.src])

AcceptsOneMore == drain.slot.kind \in Known /\ used[Prio[drain.slot.kind]] <= Room
Accepts == drain.slot.kind \in Known /\ used[Prio[drain.slot.kind]] < Room

\* The slot goes into the queue of the target; one whose sequence number is wrong
\* is reported to the fault hook and skipped.
Inspect ==
    LET s == drain.src
        k == drain.slot.kind
    IN
    /\ drain.pc = "copied"
    /\ Suspect \/ Accepts
    /\ drain' = [drain EXCEPT !.pc = "advance"]
    /\ IF Suspect
       THEN UNCHANGED <<lastSeq, used, delivered>>
       ELSE /\ used' = [used EXCEPT ![Prio[k]] = @ + 1]
            /\ lastSeq' = [lastSeq EXCEPT ![s] = drain.slot.seq]
            /\ delivered' = [delivered EXCEPT ![s] = k]
    /\ UNCHANGED ring

\* What the slot held is forgotten here: it is not read again before it is filled.
Advance ==
    LET s == drain.src IN
    /\ drain.pc = "advance"
    /\ tail' = [tail EXCEPT ![s] = Succ(@)]
    /\ slots' = [slots EXCEPT ![s][tail[s]] = Garbage]
    /\ drain' = [drain EXCEPT !.pc = "look", !.per = @ + 1, !.done = @ + 1, !.slot = Garbage]
    /\ UNCHANGED <<head, nextSeq, step, lastSeq, used, delivered>>

\* The queue refuses it: the drain returns, and the slot stays for the next.
SkipRefused == [drain EXCEPT !.pc = "advance"]
Return == [drain EXCEPT !.pc = "process", !.done = 0, !.slot = Garbage]
Refuse ==
    /\ drain.pc = "copied" /\ ~Suspect /\ ~Accepts
    /\ drain' = Return
    /\ UNCHANGED <<ring, lastSeq, used, delivered>>

\* bm_event_process takes events while there are any and its budget lasts.
Process ==
    /\ drain.pc = "process"
    /\ IF drain.done < ProcessBudget /\ \E p \in Prios : used[p] > 0
       THEN /\ \E p \in Prios : used[p] > 0 /\ used' = [used EXCEPT ![p] = @ - 1]
            /\ drain' = [drain EXCEPT !.done = @ + 1]
       ELSE drain' = AtRest /\ UNCHANGED used
    /\ UNCHANGED <<ring, lastSeq, delivered>>

\* An interrupt of the target publishes into its queue.
PublishLocally(p) ==
    /\ Locals /\ used[p] < Room
    /\ used' = [used EXCEPT ![p] = @ + 1]
    /\ UNCHANGED <<ring, lastSeq, drain, delivered>>

Target == Iterate \/ Look \/ Inspect \/ Advance \/ Refuse \/ Process

Next ==
    \/ \E s \in Sources : (\E k \in Kinds : Claim(s, k)) \/ Fill(s) \/ Publish(s)
    \/ Target
    \/ \E p \in Prios : PublishLocally(p)

Spec == Init /\ [][Next]_vars

-----------------------------------------------------------------------------
(* Properties                                                                 *)

Seqs == 0 .. SeqMod - 1
Slot == [seq : Seqs, kind : Kinds \cup {None}]

TypeOK ==
    /\ slots \in [Sources -> [0 .. Depth - 1 -> Slot]]
    /\ head \in [Sources -> 0 .. Depth - 1] /\ tail \in [Sources -> 0 .. Depth - 1]
    /\ nextSeq \in [Sources -> Seqs] /\ lastSeq \in [Sources -> Seqs]
    /\ step \in [Sources -> [pc : {"idle", "filling", "publishing"}, kind : Kinds \cup {None}]]
    /\ drain \in [pc : {"rest", "look", "copied", "advance", "process"}, src : 1 .. NSources + 1,
                  per : 0 .. PerSource, done : Nat, slot : Slot]
    /\ used \in [Prios -> 0 .. Room]
    /\ delivered \in [Sources -> Kinds \cup {None}]

\* A published event whose turn has not come: from the tail, which still covers the
\* one just put in the target's queue, to the head.
Settled(s) == IF drain.pc = "advance" /\ drain.src = s THEN Succ(tail[s]) ELSE tail[s]
Pending(s) ==
    [i \in 1 .. (head[s] - Settled(s)) % Depth |->
        slots[s][(Settled(s) + i - 1) % Depth].kind]

\* Whatever the target's queue refuses, each ring carries its source's events to that
\* queue in order, each once: it is the bounded queue of BoundedQueue.
FirstRing == INSTANCE BoundedQueue WITH
    Item <- Kinds, Bound <- Depth - 1, Out <- None,
    items <- Pending(1), taken <- delivered[1]
LastRing == INSTANCE BoundedQueue WITH
    Item <- Kinds, Bound <- Depth - 1, Out <- None,
    items <- Pending(NSources), taken <- delivered[NSources]
FirstRingIsQueue == FirstRing!Spec
LastRingIsQueue == LastRing!Spec

\* The sequence check never takes a good slot for a bad one, also where the counter
\* comes round: the fault hook of bm_mp_ipc_matrix.c:266 is not called for nothing.
NoFalseAlarm == ~(drain.pc = "copied" /\ Suspect)
=============================================================================
