----------------------------- MODULE TtSchedule -----------------------------
(* The time-triggered schedule of one CPU (Source/hybrid/bm_tt_schedule.c).    *)
(* Every tick looks through the table: an activity of the ISR domain is run in *)
(* the tick, one of the MAINLOOP domain only has its inputs frozen there, and  *)
(* bm_tt_schedule_run_pending runs it in the main loop, which a tick preempts  *)
(* anywhere.  Outputs are double-buffered and published a period later.        *)
(*                                                                             *)
(* What is frozen, computed or published is the age of the inputs it comes     *)
(* from, in activations of its activity; a step writes its outputs in two      *)
(* parts.  All activities read one bus, which the main loop publishes.         *)
(*                                                                             *)
(* Before that bm_tt_schedule_init accepts a table or refuses it: periods      *)
(* whose least common multiple fits the table of frames, computed in machine   *)
(* words, and no frame in which the ISR domain runs longer than a minor period.*)
EXTENDS Naturals, Sequences, Functions

CONSTANTS
    N,         \* entry_count
    Every, AtTick, \* of each entry
    InIsr,     \* entries of the ISR domain
    NFrames,   \* n_frames, the least common multiple of Every
    Limit,     \* max_age_us of each entry, in periods; 0 for none
    Budget,    \* of bm_tt_schedule_run_pending
    MaxNest,   \* a tick that takes too long is preempted by the next, up to so many
    Oldest,    \* bound: ages are told apart up to here
    Entries,   \* what an entry of a table that is tried may be: [every, at, wcet, isr]
    Minors,    \* minor_us of a table that is tried
    MaxEntries, \* bound: the tables tried have so many entries
    MaxFrames, \* BM_CONFIG_TT_SCHED_MAX_FRAMES
    WordMod    \* a word holds 0 .. WordMod - 1

TtAssumption ==
    /\ {N, MaxNest, Budget} \subseteq Nat /\ {NFrames, Oldest} \subseteq Nat \ {0}
    /\ \A a \in 1 .. N :
          /\ {Every[a], AtTick[a], Limit[a]} \subseteq Nat
          /\ AtTick[a] < Every[a] /\ NFrames % Every[a] = 0
    /\ MaxFrames \in 1 .. WordMod - 1 /\ \A e \in Entries : e.wcet < WordMod

Acts == 1 .. N
OutParts == {1, 2}

VARIABLES
    tick,      \* tick_idx
    isr,       \* the ticks in progress, the last preempting the others
    main,      \* run_pending in progress: its entry, step and count
    rt,        \* phase, running, pending and fresh of each entry
    snapshot, outbuf, bus,    \* inputs frozen, outputs computed, outputs published
    input,     \* of the input bus: published once, being published now
    news, miss, stale,        \* seq # baseline_seq; miss and stale of each entry
    since,     \* history: activations since the input was published last
    gap,       \* history: ticks since the last activation
    overruns,  \* history: activations counted as overrun since the snapshot
    entries, minor,  \* the table the application hands over
    frames, returned \* n_frames, which stays 0 when the table is refused

vars == <<tick, isr, main, rt, snapshot, outbuf, bus, input, news, miss, stale, since,
          gap, overruns>>

\* Where a tick or run_pending is: away, at an entry, or at a step of its turn: the
\* two parts of the outputs, then what the code does with them.
Away == 9
AtEntry == 0
Idle == [pc |-> Away, at |-> 1, ran |-> 0]
Default == [p \in OutParts |-> Oldest]

Init ==
    /\ tick = 0 /\ isr = <<>> /\ main = Idle
    /\ rt = [a \in Acts |->
                [phase |-> 0, running |-> FALSE, pending |-> FALSE, fresh |-> FALSE]]
    /\ snapshot = [a \in Acts |-> Oldest]
    /\ outbuf = [a \in Acts |-> [ph \in {0, 1} |-> Default]]
    /\ bus = [a \in Acts |-> Default]
    /\ input = [valid |-> FALSE, writing |-> FALSE]
    /\ news = [a \in Acts |-> FALSE] /\ miss = [a \in Acts |-> 0]
    /\ stale = [a \in Acts |-> FALSE] /\ since = [a \in Acts |-> 0]
    /\ gap = [a \in Acts |-> Every[a] - AtTick[a] - 1] /\ overruns = [a \in Acts |-> 0]

-----------------------------------------------------------------------------
(* bm_tt_schedule_init: the table that is tried.                               *)
MaxWord == WordMod - 1

TableInit ==
    /\ entries \in UNION {[1 .. n -> Entries] : n \in 0 .. MaxEntries}
    /\ minor \in Minors
    /\ frames = 0 /\ returned = FALSE

Gcd[a \in Nat, b \in Nat] == IF b = 0 THEN a ELSE Gcd[b, a % b]

\* tt_lcm: 0 when the product does not fit a word.
LcmWraps(a, b) == ((a \div Gcd[a, b]) * b) % WordMod
Lcm(a, b) ==
    LET q == a \div Gcd[a, b] IN IF q > MaxWord \div b THEN 0 ELSE q * b

Plus(x, y) == IF x + y > MaxWord THEN MaxWord ELSE x + y

EntryOk(e) ==
    /\ e.every # 0 /\ e.at < e.every
    /\ minor * e.every <= MaxWord

\* The multiple over the first entries; 0 once an entry is refused or it is too long.
Multiple ==
    LET M[k \in 0 .. Len(entries)] ==
            IF k = 0 THEN 1
            ELSE IF M[k - 1] = 0 \/ ~EntryOk(entries[k]) THEN 0
            ELSE LET n == Lcm(M[k - 1], entries[k].every)
                 IN  IF n > MaxFrames THEN 0 ELSE n
    IN  M[Len(entries)]

\* Of the entries in Ks the time of one frame: never more than a word holds.
Load(Ks) == FoldFunctionOnSet(Plus, 0, [k \in DOMAIN entries |-> entries[k].wcet], Ks)

IsrEntries == {k \in DOMAIN entries : entries[k].isr}
HitsAll(k, t) == TRUE
Hits(k, t) == t >= entries[k].at /\ (t - entries[k].at) % entries[k].every = 0

\* tt_frame_check: all of the ISR domain in one frame fits, or what each frame runs.
FramesFit(n) ==
    \/ Load(IsrEntries) <= minor
    \/ \A t \in 0 .. n - 1 : Load({k \in IsrEntries : Hits(k, t)}) <= minor

Acceptable ==
    /\ Len(entries) > 0 /\ minor # 0
    /\ Multiple # 0 /\ FramesFit(Multiple)

Accept ==
    /\ ~returned /\ Acceptable
    /\ frames' = Multiple /\ returned' = TRUE
    /\ UNCHANGED <<entries, minor>>

Refuse ==
    /\ ~returned /\ ~Acceptable
    /\ returned' = TRUE
    /\ UNCHANGED <<entries, minor, frames>>

TryTable == (Accept \/ Refuse) /\ UNCHANGED vars

-----------------------------------------------------------------------------
(* The schedule of a table that was accepted.                                  *)
UpTo(n, max) == IF n < max THEN n + 1 ELSE max
Older(n) == UpTo(n, Oldest)
OlderParts(v) == [p \in OutParts |-> Older(v[p])]

-----------------------------------------------------------------------------
(* tt_freeze_inputs; snap is what is frozen, and the read fails while the bus  *)
(* is being published.                                                         *)
CanRead == input.valid /\ ~input.writing
MissesAlways(a) == UpTo(miss[a], Limit[a] + 1)
Misses(a) == IF news[a] THEN 0 ELSE UpTo(miss[a], Limit[a] + 1)

Freeze(a) ==
    /\ miss' = IF CanRead THEN [miss EXCEPT ![a] = Misses(a)] ELSE miss
    /\ news' = IF CanRead THEN [news EXCEPT ![a] = FALSE] ELSE news
    /\ stale' = [stale EXCEPT ![a] =
                    ~CanRead \/ (Limit[a] # 0 /\ miss'[a] > Limit[a])]
    /\ overruns' = [overruns EXCEPT ![a] = 0]
Overrun(a) ==
    /\ overruns' = [overruns EXCEPT ![a] = Older(@)]
    /\ UNCHANGED <<news, miss, stale>>

\* One more activation: everything of this entry is one activation older.
Ages(a, fresh) ==
    /\ snapshot' = [snapshot EXCEPT ![a] = IF fresh THEN 0 ELSE Older(@)]
    /\ outbuf' = [outbuf EXCEPT ![a] = [ph \in {0, 1} |-> OlderParts(@[ph])]]
    /\ since' = [since EXCEPT ![a] = UpTo(@, Limit[a] + 1)]
    /\ gap' = [gap EXCEPT ![a] = 0]

-----------------------------------------------------------------------------
(* bm_tt_schedule_tick                                                         *)
Top == isr[Len(isr)]
GoTo(pc) == isr' = [isr EXCEPT ![Len(isr)].pc = pc]
NextEntry == isr' = [isr EXCEPT ![Len(isr)] = [at |-> @.at + 1, pc |-> AtEntry]]
Hit(a) == tick % Every[a] = AtTick[a]
Looking(a) == isr # <<>> /\ Top.pc = AtEntry /\ Top.at = a

\* The timer's interrupt, also while a tick that takes too long is in progress.
Tick ==
    /\ Len(isr) < MaxNest
    /\ isr' = Append(isr, [at |-> 1, pc |-> AtEntry])
    /\ gap' = [a \in Acts |-> UpTo(gap[a], NFrames + 1)]
    /\ UNCHANGED <<tick, main, rt, snapshot, outbuf, bus, input, news, miss, stale, since,
                   overruns>>

NotNow(a) ==
    /\ Looking(a) /\ ~Hit(a)
    /\ NextEntry
    /\ UNCHANGED <<tick, main, rt, snapshot, outbuf, bus, input, news, miss, stale, since,
                   gap, overruns>>

\* A step in progress is not entered again.
Unguarded(a) == FALSE
Reentered(a) == rt[a].running
IsrOverrun(a) ==
    /\ Looking(a) /\ Hit(a) /\ a \in InIsr /\ Reentered(a)
    /\ Overrun(a) /\ Ages(a, FALSE)
    /\ bus' = [bus EXCEPT ![a] = OlderParts(@)]
    /\ NextEntry
    /\ UNCHANGED <<tick, main, rt, input>>

IsrBegin(a) ==
    /\ Looking(a) /\ Hit(a) /\ a \in InIsr /\ ~Reentered(a)
    /\ rt' = [rt EXCEPT ![a].running = TRUE]
    /\ Freeze(a) /\ Ages(a, TRUE)
    /\ bus' = [bus EXCEPT ![a] = OlderParts(@)]
    /\ GoTo(1)
    /\ UNCHANGED <<tick, main, input>>

Write(a, part) ==
    outbuf' = [outbuf EXCEPT ![a][rt[a].phase][part] = snapshot[a]]

IsrStep(a, part) ==
    /\ isr # <<>> /\ Top = [at |-> a, pc |-> part]
    /\ Write(a, part)
    /\ GoTo(part + 1)
    /\ UNCHANGED <<tick, main, rt, snapshot, bus, input, news, miss, stale, since, gap,
                   overruns>>

\* tt_publish
InProgress(a) == outbuf[a][rt[a].phase]
Completed(a) == outbuf[a][1 - rt[a].phase]

IsrPublish(a) ==
    /\ isr # <<>> /\ Top = [at |-> a, pc |-> 3]
    /\ bus' = [bus EXCEPT ![a] = Completed(a)]
    /\ rt' = [rt EXCEPT ![a].phase = 1 - @, ![a].running = FALSE]
    /\ NextEntry
    /\ UNCHANGED <<tick, main, snapshot, outbuf, input, news, miss, stale, since, gap,
                   overruns>>

\* A finished step of the main loop is published; then its inputs are frozen anew,
\* or the activation is counted as an overrun.
NeverPending(a) == FALSE
StillPending(a) == rt[a].pending
MainHit(a) ==
    /\ Looking(a) /\ Hit(a) /\ a \notin InIsr
    /\ bus' = [bus EXCEPT ![a] =
                  OlderParts(IF rt[a].fresh THEN Completed(a) ELSE @)]
    /\ rt' = [rt EXCEPT ![a].fresh = FALSE, ![a].pending = TRUE]
    /\ Ages(a, ~StillPending(a))
    /\ IF StillPending(a) THEN Overrun(a) ELSE Freeze(a)
    /\ NextEntry
    /\ UNCHANGED <<tick, main, input>>

WrapsLate(t) == (t + 1) % (NFrames + 1)
FollowingTick(t) == (t + 1) % NFrames
TickEnds ==
    /\ isr # <<>> /\ Top.at > N
    /\ tick' = FollowingTick(tick)
    /\ isr' = SubSeq(isr, 1, Len(isr) - 1)
    /\ UNCHANGED <<main, rt, snapshot, outbuf, bus, input, news, miss, stale, since, gap,
                   overruns>>

-----------------------------------------------------------------------------
(* The main loop: bm_tt_schedule_run_pending                                   *)
MainGoes(pc) ==
    /\ isr = <<>>
    /\ main' = [main EXCEPT !.pc = pc]
    /\ UNCHANGED <<tick, isr, snapshot, bus, input, news, miss, stale, since, gap, overruns>>

RunPending == main.pc = Away /\ MainGoes(AtEntry) /\ UNCHANGED <<rt, outbuf>>

AnyOfMain(a) == a \notin InIsr
Runnable(a) == a \notin InIsr /\ rt[a].pending
MainLook ==
    /\ main.pc = AtEntry /\ isr = <<>>
    /\ main' = IF main.at > N \/ main.ran = Budget THEN Idle
               ELSE IF Runnable(main.at) THEN [main EXCEPT !.pc = 1]
               ELSE [main EXCEPT !.at = @ + 1]
    /\ UNCHANGED <<tick, isr, rt, snapshot, outbuf, bus, input, news, miss, stale, since,
                   gap, overruns>>

MainStep(part) ==
    /\ main.pc = part
    /\ Write(main.at, part)
    /\ MainGoes(part + 1)
    /\ UNCHANGED rt

Flip ==
    /\ main.pc = 3
    /\ rt' = [rt EXCEPT ![main.at].phase = 1 - @]
    /\ MainGoes(4) /\ UNCHANGED outbuf
SetFresh ==
    /\ main.pc = 4
    /\ rt' = [rt EXCEPT ![main.at].fresh = TRUE]
    /\ MainGoes(5) /\ UNCHANGED outbuf
Finish ==
    /\ main.pc = 5 /\ isr = <<>>
    /\ rt' = [rt EXCEPT ![main.at].pending = FALSE]
    /\ main' = [pc |-> AtEntry, at |-> main.at + 1, ran |-> main.ran + 1]
    /\ UNCHANGED <<tick, isr, snapshot, outbuf, bus, input, news, miss, stale, since, gap,
                   overruns>>

\* The main loop publishes the input; a tick may come in between.
BeginInput ==
    /\ isr = <<>> /\ main.pc = Away /\ ~input.writing
    /\ input' = [input EXCEPT !.writing = TRUE]
    /\ UNCHANGED <<tick, isr, main, rt, snapshot, outbuf, bus, news, miss, stale, since, gap,
                   overruns>>
CommitInput ==
    /\ isr = <<>> /\ input.writing
    /\ input' = [valid |-> TRUE, writing |-> FALSE]
    /\ news' = [a \in Acts |-> TRUE] /\ since' = [a \in Acts |-> 0]
    /\ UNCHANGED <<tick, isr, main, rt, snapshot, outbuf, bus, miss, stale, gap, overruns>>

Next ==
    \/ Tick \/ TickEnds
    \/ \E a \in Acts :
          \/ NotNow(a) \/ IsrOverrun(a) \/ IsrBegin(a) \/ IsrPublish(a) \/ MainHit(a)
          \/ \E part \in OutParts : IsrStep(a, part)
    \/ RunPending \/ MainLook \/ Flip \/ SetFresh \/ Finish
    \/ \E part \in OutParts : MainStep(part)
    \/ BeginInput \/ CommitInput

Spec == Init /\ [][Next]_vars

-----------------------------------------------------------------------------
TypeOK ==
    /\ tick \in 0 .. NFrames - 1 /\ Len(isr) <= MaxNest
    /\ rt \in [Acts -> [phase : {0, 1}, running : BOOLEAN, pending : BOOLEAN, fresh : BOOLEAN]]
    /\ snapshot \in [Acts -> 0 .. Oldest]
    /\ outbuf \in [Acts -> [{0, 1} -> [OutParts -> 0 .. Oldest]]]
    /\ bus \in [Acts -> [OutParts -> 0 .. Oldest]]
    /\ \A a \in Acts : miss[a] \in 0 .. Limit[a] + 1 /\ main.ran \in 0 .. Budget

(* A table is accepted exactly if it can be kept: for as long as it runs no    *)
(* tick of the ISR domain is longer than a minor period, and it comes round    *)
(* after n_frames, the shortest time after which every activity does           *)
(* (bm_tt_schedule.c:301-308, 327-361, 515-526).  Not where minor_us is the    *)
(* largest number of a word: the saturated load of a frame never exceeds it.   *)
LongTime == 1 .. 4 * MaxFrames
Divides(n) == \A k \in DOMAIN entries : n % entries[k].every = 0
Keepable(n) ==
    /\ Len(entries) > 0 /\ minor > 0
    /\ \A k \in DOMAIN entries :
          entries[k].every # 0 /\ entries[k].at < entries[k].every
          /\ minor * entries[k].every <= MaxWord
    /\ n <= MaxFrames /\ Divides(n) /\ \A m \in 1 .. n - 1 : ~Divides(m)
    /\ \A t \in LongTime :
          minor >= FoldFunctionOnSet(+, 0, [k \in DOMAIN entries |-> entries[k].wcet],
                       {k \in IsrEntries : t % entries[k].every = entries[k].at})

AcceptsKeepable ==
    returned /\ minor < MaxWord =>
        IF frames # 0 THEN Keepable(frames)
        ELSE ~\E n \in 1 .. MaxFrames : Keepable(n)

(* What is published comes from one completed step on inputs frozen together,  *)
(* in an earlier activation, also when a tick is preempted by the next         *)
(* (bm_tt_schedule.c:258-274, 652-681, 722-726).                               *)
WholeOutputs == \A a \in Acts : bus[a][1] = bus[a][2] /\ bus[a][1] > 0

(* A result that waits for its tick is neither lost nor overwritten: no other  *)
(* step of the activity begins before it is published                          *)
(* (bm_tt_schedule.c:692-697, 718-726).                                        *)
NothingOverwritten ==
    main.pc \in 1 .. 4 => ~rt[main.at].fresh /\ rt[main.at].pending

(* Every activity keeps its period, also where the index of ticks comes round  *)
(* (bm_tt_schedule.c:519, 648, 683).                                           *)
EveryIsKept == \A a \in Acts : Looking(a) => (Hit(a) <=> gap[a] = Every[a])

(* An output of the ISR domain is published exactly one activation after its   *)
(* inputs were frozen, and one of the main loop is later than that by the      *)
(* activations counted as overruns, no more and no less                        *)
(* (bm_tt_schedule.c:244-257, 670-680).                                        *)
LateIsCounted(a) ==
    /\ a \in InIsr /\ rt[a].running /\ ~rt'[a].running => bus'[a][1] \in {Oldest, 1}
    /\ rt[a].fresh /\ ~rt'[a].fresh => bus'[a][1] = Older(overruns[a])

(* Inputs are called stale only when they are: never published, being          *)
(* published, or not published for longer than they may be; and for the ISR    *)
(* domain whenever they are (bm_tt_schedule.c:145-165).                        *)
StaleIsRight(a) ==
    LET IsOld == ~CanRead \/ (Limit[a] # 0 /\ since[a] > Limit[a])
        Frozen == since'[a] # since[a] /\ since'[a] # 0 /\ overruns'[a] = 0
    IN  Frozen => (stale'[a] => IsOld) /\ (a \in InIsr /\ IsOld => stale'[a])
==============================================================================
