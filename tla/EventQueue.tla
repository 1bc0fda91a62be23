----------------------------- MODULE EventQueue -----------------------------
(* bm_event on one CPU (Source/core/bm_event.c): a table of event types with   *)
(* lists of subscribers, one ring per priority, and bm_event_process, which    *)
(* takes events out and calls the subscribers outside the critical section.    *)
(*                                                                             *)
(* Critical sections are atomic.  Between any two of them an interrupt or the  *)
(* running callback may publish, subscribe, unsubscribe, reset or process.     *)
EXTENDS Naturals, Sequences, FiniteSets

CONSTANTS
    Builds,     \* the settings of the builds to check, the fields named below
    Unowned     \* not a type: what no list holds

BuildAssumption ==
    \A b \in Builds :
        /\ b.prios \in Nat /\ b.prios >= 1 /\ b.depth \in Nat /\ b.depth >= 2
        /\ b.burst \in Nat /\ b.burst >= 1 /\ b.ids \in Nat /\ b.ids >= 2
        /\ b.subs \in Nat /\ b.fanOut \in Nat
        /\ b.counts \in Nat /\ b.bypass \in Nat
        /\ b.budgets \subseteq Nat
        /\ Unowned \notin b.types

VARIABLES
    build,                    \* bm_config.h of this build, static
    registered,               \* types with a name
    list,                     \* per type its entries, the head first
    id,                       \* per entry the id, 0 if free
    nextId,                   \* next_subscriber_id
    frozen,                   \* subscriptions_frozen
    items, rd, wr,            \* prio_items, prio_read, prio_write
    dropped, rejected,        \* queue_dropped, reentrancy_rejected
    depth,                    \* dispatch_depth
    sinceFair, fairCursor,    \* events_since_fair, fair_prio_cursor
    pc, left, item, sub,      \* bm_event_process: i, item and sub
    called,                   \* entries called for this item
    bypassed                  \* per priority, events taken before its oldest one

Types == build.types          \* event types
NPrio == build.prios          \* BM_CONFIG_EVENT_PRIORITIES, 0 is the highest
Depth == build.depth          \* entries of a ring, a power of two
BurstMax == build.burst       \* BM_CONFIG_EVENT_PRIORITY_BURST_MAX
MaxSubs == build.subs         \* BM_CONFIG_MAX_EVENT_SUBSCRIBERS
FanOut == build.fanOut        \* BM_CONFIG_MAX_EVENT_SUBSCRIBERS_PER_TYPE
IdMod == build.ids            \* subscriber ids count modulo this (2^32)
Budgets == build.budgets      \* the max_events of the calls of bm_event_process
CounterMax == build.counts    \* bound: the diagnostic counters saturate here (2^32 - 1)
BypassMax == build.bypass     \* bound: bypassed is counted up to here

Prios == 0 .. (NPrio - 1)
Index == 0 .. (Depth - 1)
Subs == 1 .. MaxSubs     \* the entries of subscribers[]
Nil == 0                 \* no entry

table == <<registered, list, id, nextId, frozen>>
ring == <<items, rd, wr>>
fair == <<sinceFair, fairCursor>>
call == <<pc, left, item, sub, called>>
vars == <<build, table, ring, dropped, rejected, depth, fair, call, bypassed>>

Counter(n) == IF n >= CounterMax THEN CounterMax ELSE n + 1
NoItem == Unowned
NeverSpend(n) == n
Spend(n) == n - 1
FirstCursor == IF NPrio > 1 THEN 1 ELSE 0

\* A CPU after bm_event_reset, which every boot runs before anything else.
Init ==
    /\ build \in Builds
    /\ registered = {} /\ list = [t \in Types |-> <<>>]
    /\ id = [e \in Subs |-> 0] /\ nextId = 1 /\ frozen = FALSE
    /\ items = [p \in Prios |-> [i \in Index |-> NoItem]]
    /\ rd = [p \in Prios |-> 0] /\ wr = [p \in Prios |-> 0]
    /\ dropped = 0 /\ rejected = 0 /\ depth = 0
    /\ sinceFair = 0 /\ fairCursor = FirstCursor
    /\ pc = "idle" /\ left = 0 /\ item = NoItem /\ sub = Nil /\ called = {}
    /\ bypassed = [p \in Prios |-> 0]

-----------------------------------------------------------------------------
(* The table of types and subscribers.                                        *)

Entries(t) == {list[t][i] : i \in DOMAIN list[t]}
AlwaysAllowed == TRUE
ChangeAllowed == ~frozen /\ depth = 0

Reject ==
    /\ rejected' = Counter(rejected)
    /\ UNCHANGED <<build, table, ring, dropped, depth, fair, call, bypassed>>

RegisterType(t) ==
    /\ ChangeAllowed
    /\ t \notin registered
    /\ registered' = registered \cup {t}
    /\ UNCHANGED <<build, list, id, nextId, frozen, ring, dropped, rejected, depth, fair,
                   call, bypassed>>

Freeze ==
    /\ frozen' = TRUE
    /\ UNCHANGED <<build, registered, list, id, nextId, ring, dropped, rejected, depth,
                   fair, call, bypassed>>

TrustWrap == TRUE
IdsLeft == nextId # 0

Subscribe(t) ==
    /\ ChangeAllowed
    /\ t \in registered
    /\ Len(list[t]) < FanOut
    /\ \E e \in Subs :
        /\ id[e] = 0 /\ \A d \in Subs : id[d] = 0 => e <= d
        /\ IdsLeft
        /\ id' = [id EXCEPT ![e] = nextId]
        /\ nextId' = (nextId + 1) % IdMod
        /\ list' = [list EXCEPT ![t] = <<e>> \o @]
    /\ UNCHANGED <<build, registered, frozen, ring, dropped, rejected, depth, fair, call,
                   bypassed>>

Unsubscribe(t, e) ==
    /\ ChangeAllowed
    /\ e \in Entries(t)
    /\ \E i \in DOMAIN list[t] :
        /\ list[t][i] = e
        /\ list' = [list EXCEPT ![t] = SubSeq(@, 1, i - 1) \o SubSeq(@, i + 1, Len(@))]
    /\ id' = [id EXCEPT ![e] = 0]
    /\ UNCHANGED <<build, registered, nextId, frozen, ring, dropped, rejected, depth, fair,
                   call, bypassed>>

\* What reset makes of the rings.
KeepRings == UNCHANGED ring
ClearRings ==
    /\ items' = [p \in Prios |-> [i \in Index |-> NoItem]]
    /\ rd' = [p \in Prios |-> 0] /\ wr' = [p \in Prios |-> 0]

Reset ==
    /\ depth = 0
    /\ registered' = {} /\ list' = [t \in Types |-> <<>>]
    /\ id' = [e \in Subs |-> 0] /\ nextId' = 1 /\ frozen' = FALSE
    /\ ClearRings
    /\ dropped' = 0 /\ rejected' = 0
    /\ sinceFair' = 0 /\ fairCursor' = FirstCursor
    /\ bypassed' = [p \in Prios |-> 0]
    /\ UNCHANGED <<build, depth, call>>

\* Register, subscribe and unsubscribe once frozen, reset and process in dispatch.
LateChange == (~ChangeAllowed /\ Reject) \/ (depth > 0 /\ Reject)

-----------------------------------------------------------------------------
(* Publishing: bm_event_publish_copy and its variants for this CPU's types.    *)

Pending(p) == rd[p] # wr[p]
Next1(i) == (i + 1) % Depth
NeverFull(p) == FALSE
Full(p) == Next1(wr[p]) = rd[p]

Publish(t, p) ==
    /\ t \in registered
    /\ ~Full(p)
    /\ items' = [items EXCEPT ![p][wr[p]] = t]
    /\ wr' = [wr EXCEPT ![p] = Next1(@)]
    /\ UNCHANGED <<build, table, rd, dropped, rejected, depth, fair, call, bypassed>>

PublishOverflow(t, p) ==
    /\ t \in registered
    /\ Full(p)
    /\ dropped' = Counter(dropped)
    /\ UNCHANGED <<build, table, ring, rejected, depth, fair, call, bypassed>>

-----------------------------------------------------------------------------
(* bm_event_process.                                                          *)

ProcessCall(n) ==
    /\ pc = "idle"
    /\ frozen
    /\ depth = 0
    /\ depth' = 1 /\ left' = n /\ pc' = "loop"
    /\ UNCHANGED <<build, table, ring, dropped, rejected, fair, item, sub, called, bypassed>>

Highest == CHOOSE p \in Prios : Pending(p) /\ \A q \in Prios : Pending(q) => p <= q
LowerPending == \E q \in Prios : q > Highest /\ Pending(q)
IgnoreBurst == FALSE
BurstOver == LowerPending /\ sinceFair >= BurstMax

\* The first pending priority below the highest, looking round from fair_prio_cursor.
Distance(p) == (p + NPrio - fairCursor) % NPrio
FairChoice ==
    CHOOSE p \in Prios :
        /\ p > Highest /\ Pending(p)
        /\ \A q \in Prios : q > Highest /\ Pending(q) => Distance(p) <= Distance(q)
Selected == IF BurstOver THEN FairChoice ELSE Highest
StayAt(p) == p
CursorAfter(p) == (p + 1) % NPrio

TakeFrom(p) ==
    /\ item' = items[p][rd[p]]
    /\ rd' = [rd EXCEPT ![p] = Next1(@)]
    /\ bypassed' = [q \in Prios |->
                       IF q = p \/ ~Pending(q) THEN 0
                       ELSE IF bypassed[q] = BypassMax THEN BypassMax
                       ELSE bypassed[q] + 1]

\* _queue_pop_highest_prio found an event; the walk begins at the head of its list.
Pop ==
    /\ pc = "loop" /\ left > 0
    /\ \E p \in Prios : Pending(p)
    /\ TakeFrom(Selected)
    /\ sinceFair' = IF LowerPending /\ ~BurstOver THEN sinceFair + 1 ELSE 0
    /\ fairCursor' = IF BurstOver THEN CursorAfter(Selected) ELSE fairCursor
    /\ sub' = IF list[item'] = <<>> THEN Nil ELSE Head(list[item'])
    /\ left' = Spend(left) /\ called' = {} /\ pc' = "walk"
    /\ UNCHANGED <<build, table, items, wr, dropped, rejected, depth>>

\* sub->next, read after the callback from the list as it is then.
After(e) ==
    IF \E t \in Types : \E i \in DOMAIN list[t] : list[t][i] = e /\ i < Len(list[t])
    THEN LET t == CHOOSE t \in Types : e \in Entries(t)
             i == CHOOSE i \in DOMAIN list[t] : list[t][i] = e
         IN  list[t][i + 1]
    ELSE Nil

\* A callback runs and returns; what it does meanwhile are the other actions.
Callback ==
    /\ pc = "walk" /\ sub # Nil
    /\ called' = called \cup {sub}
    /\ pc' = "called"
    /\ UNCHANGED <<build, table, ring, dropped, rejected, depth, fair, left, item, sub,
                   bypassed>>

Advance ==
    /\ pc = "called"
    /\ sub' = After(sub)
    /\ pc' = "walk"
    /\ UNCHANGED <<build, table, ring, dropped, rejected, depth, fair, left, item, called,
                   bypassed>>

Dispatched ==
    /\ pc = "walk" /\ sub = Nil
    /\ pc' = "loop"
    /\ item' = NoItem /\ called' = {}
    /\ UNCHANGED <<build, table, ring, dropped, rejected, depth, fair, left, sub, bypassed>>

\* The rings are empty or the budget is spent.
ProcessReturn ==
    /\ pc = "loop"
    /\ left = 0 \/ \A p \in Prios : ~Pending(p)
    /\ sinceFair' = IF left = 0 THEN sinceFair ELSE 0
    /\ depth' = depth - 1 /\ left' = 0 /\ pc' = "idle"
    /\ UNCHANGED <<build, table, ring, dropped, rejected, fairCursor, item, sub, called,
                   bypassed>>

Process == Pop \/ Callback \/ Advance \/ Dispatched \/ ProcessReturn

Next ==
    \/ Freeze \/ Reset \/ LateChange
    \/ \E t \in Types :
        \/ RegisterType(t) \/ Subscribe(t) \/ \E e \in Subs : Unsubscribe(t, e)
        \/ \E p \in Prios : Publish(t, p) \/ PublishOverflow(t, p)
    \/ \E n \in Budgets : ProcessCall(n)
    \/ Process

Spec == Init /\ [][Next]_vars

-----------------------------------------------------------------------------
\* The events waiting in the ring of a priority, the oldest first.
Waiting(p) ==
    [i \in 1 .. (wr[p] + Depth - rd[p]) % Depth |-> items[p][(rd[p] + i - 1) % Depth]]

(* An entry of subscribers[] is on one list at most, and is free exactly when  *)
(* it is on none, also after the ids have run out.                             *)
ListsDisjoint ==
    /\ \A t, u \in Types : t # u => Entries(t) \cap Entries(u) = {}
    /\ \A t \in Types : Cardinality(Entries(t)) = Len(list[t])
    /\ \A e \in Subs : id[e] = 0 <=> \A t \in Types : e \notin Entries(t)

(* No event of an unregistered type waits, also after a reset.                *)
WaitingRegistered ==
    \A p \in Prios : \A i \in DOMAIN Waiting(p) : Waiting(p)[i] \in registered

(* The fields keep their ranges, an entry of a subscriber list has one owner,  *)
(* and what waits may be dispatched.                                           *)
TypeOK ==
    /\ registered \subseteq Types /\ frozen \in BOOLEAN
    /\ \A t \in Types : Len(list[t]) <= FanOut /\ Entries(t) \subseteq Subs
    /\ id \in [Subs -> 0 .. (IdMod - 1)] /\ nextId \in 0 .. (IdMod - 1)
    /\ items \in [Prios -> [Index -> Types \cup {NoItem}]]
    /\ rd \in [Prios -> Index] /\ wr \in [Prios -> Index]
    /\ dropped \in 0 .. CounterMax /\ rejected \in 0 .. CounterMax
    /\ depth \in {0, 1} /\ sinceFair \in 0 .. BurstMax /\ fairCursor \in Prios
    /\ pc \in {"idle", "loop", "walk", "called"} /\ left \in Nat
    /\ item \in Types \cup {NoItem} /\ sub \in Subs \cup {Nil} /\ called \subseteq Subs
    /\ ListsDisjoint /\ WaitingRegistered

(* Every subscriber of the type is called for an event before the walk ends,   *)
(* although callbacks and interrupts run in the middle of it.                  *)
EveryoneCalled == pc = "walk" /\ sub = Nil => called = Entries(item)

(* How often the oldest event of the highest and of the lowest priority is     *)
(* overtaken is bounded: an urgent event by one that had its turn, the lowest  *)
(* one by a burst and a turn of each lower priority.                           *)
BoundedBypass ==
    /\ bypassed[0] <= 1
    /\ bypassed[NPrio - 1] <= (BurstMax + 1) * (NPrio - 1)

(* The ring of a priority is a queue: a step leaves it, appends to it, or      *)
(* takes its oldest event for dispatch; only a reset empties it.               *)
FirstInFirstOut ==
    [][\A p \in Prios :
        \/ UNCHANGED Waiting(p)
        \/ \E t \in Types : Waiting(p)' = Append(Waiting(p), t)
        \/ Waiting(p) # <<>> /\ Waiting(p)' = Tail(Waiting(p)) /\ item' = Head(Waiting(p))
        \/ Waiting(p)' = <<>> /\ registered' = {}]_vars
=============================================================================
