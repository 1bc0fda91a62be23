------------------------------ MODULE Watchdog ------------------------------
(* The software watchdog (Source/core/bm_wdg.c) with the gate the multicore    *)
(* profile puts in front of it (Source/mp/bm_mp_wdg.c): every registered       *)
(* module checks in, bm_wdg_feed looks at the check-ins and only then feeds    *)
(* the hardware.                                                               *)
(*                                                                             *)
(* The bootstrap CPU has two contexts, the main loop and an interrupt that may *)
(* preempt it wherever interrupts are enabled and runs to its end first.       *)
(* A critical section is one step.  Time is the age of what a stamp records,   *)
(* saturated above the timeout it is compared with.                            *)
EXTENDS Naturals, FiniteSets

CONSTANT
    Setups        \* the uses of the watchdog to check, the fields named below

Main == "main"
Isr == "isr"
Ctx == {Main, Isr}

WdgAssumption ==
    \A u \in Setups :
        /\ IsFiniteSet(u.names) /\ u.feeders \subseteq Ctx
        /\ u.duty \in [Ctx -> SUBSET u.names]
        /\ {u.modules, u.timeout, u.heartbeat, u.delay, u.changes} \subseteq Nat
        /\ u.beats \in Nat \ {0}

VARIABLES
    setup,                     \* which of them, static
    registered, fed, age,      \* _wdg_modules: who is in it, fed, now - last_feed_us
    frozen,                    \* _wdg_registry_frozen
    pc, loc,                   \* the call each context is in, and its locals
    hb,                        \* cpu_hb_seq of the other CPUs
    lastHb, seen, changeAge,   \* s_last_hb, s_seen, now - s_last_change_ticks
    stopped,                   \* s_stopped
    \* History: the age of each module's last call of feed_module; who has checked
    \* in since the hardware was last fed; the age of each CPU's last heartbeat;
    \* calls of the safe-stop hook; registrations and resets.
    called, sinceHw, silent, stops, changes

Names == setup.names            \* modules that may register
MaxModules == setup.modules     \* BM_CONFIG_MAX_WDG_MODULES
Timeout == setup.timeout        \* the module timeout, in ticks
Others == setup.others          \* the CPUs the gate supervises; {} without a gate
HbTimeout == setup.heartbeat    \* the heartbeat timeout, in ticks
Feeders == setup.feeders        \* the contexts that call bm_wdg_feed
Duty == setup.duty              \* the modules each context checks in for
HbMod == setup.beats            \* bound: the 2^32 of cpu_hb_seq
GateDelay == setup.delay        \* bound: ticks the gate is held up between time and look
MaxChanges == setup.changes     \* bound: registrations and resets

registry == <<registered, fed, age, frozen>>
gate == <<lastHb, seen, changeAge, stopped>>
history == <<called, sinceHw, silent, stops, changes>>
vars == <<setup, registry, pc, loc, hb, gate, history>>

\* name, at: of feed_module, the module and the age of its timestamp.
\* count, ok: of feed, what its snapshot showed; current: _wdg_generation is still
\* the snapshot's (that it could come round, 2^32 later, is left out);
\* at: the age of the gate's now; looked, stalled: the CPUs it has looked at, and what
\* it found.
\* undisturbed (history): nothing was registered or reset since the snapshot.
NoLocals == [name |-> "", at |-> 0, count |-> 0, ok |-> FALSE, current |-> TRUE,
             looked |-> {}, stalled |-> FALSE, undisturbed |-> TRUE]

Ageing(a, limit) == IF a > limit THEN a ELSE a + 1
Ago(limit) == 0 .. limit + 1

Init ==
    /\ setup \in Setups
    /\ registered = {} /\ fed = {} /\ age = [m \in Names |-> 0]
    /\ frozen = FALSE
    /\ pc = [c \in Ctx |-> "idle"] /\ loc = [c \in Ctx |-> NoLocals]
    /\ hb = [p \in Others |-> 0]
    /\ lastHb = [p \in Others |-> 0] /\ seen = {}
    /\ changeAge = [p \in Others |-> 0] /\ stopped = FALSE
    /\ called = [m \in Names |-> Timeout + 1] /\ sinceHw = {}
    /\ silent = [p \in Others |-> HbTimeout + 1] /\ stops = 0 /\ changes = 0

-----------------------------------------------------------------------------
Runs(c) == c = Main => pc[Isr] = "idle"
At(c, label) == Runs(c) /\ pc[c] = label
Goto(c, label) == pc' = [pc EXCEPT ![c] = label]
Return(c) == Goto(c, "idle") /\ loc' = [loc EXCEPT ![c] = NoLocals]

\* _wdg_generation++, seen by the calls under way.
InFeed(c) == pc[c] \in {"gate", "looking", "deciding"}
Bump(l) == [c \in Ctx |-> IF InFeed(c) THEN [l[c] EXCEPT !.current = FALSE] ELSE l[c]]
Disturb ==
    [c \in Ctx |-> IF InFeed(c)
                   THEN [loc[c] EXCEPT !.current = FALSE, !.undisturbed = FALSE]
                   ELSE loc[c]]

Change == changes < MaxChanges /\ changes' = changes + 1

\* bm_wdg_register; a known name and a full table change nothing.
Register(c, m) ==
    /\ At(c, "idle") /\ Change
    /\ ~frozen
    /\ m \notin registered /\ Cardinality(registered) < MaxModules
    /\ registered' = registered \cup {m}
    /\ fed' = fed \ {m}
    /\ loc' = Disturb
    /\ sinceHw' = sinceHw \ {m}
    /\ UNCHANGED <<setup, age, frozen, pc, hb, gate, called, silent, stops>>

ResetCountOnly(c) ==
    /\ At(c, "idle") /\ Change
    /\ registered' = {} /\ fed' = fed
    /\ frozen' = FALSE
    /\ loc' = Disturb
    /\ sinceHw' = {}
    /\ UNCHANGED <<setup, age, pc, hb, gate, called, silent, stops>>

\* bm_wdg_reset
Reset(c) ==
    /\ At(c, "idle") /\ Change
    /\ registered' = {} /\ fed' = {}
    /\ frozen' = FALSE
    /\ loc' = Disturb
    /\ sinceHw' = {}
    /\ UNCHANGED <<setup, age, pc, hb, gate, called, silent, stops>>

\* bm_wdg_feed_module takes the time first, and stamps it in a critical section.
CheckIn(c, m) ==
    /\ m \in Duty[c] /\ At(c, "idle")
    /\ Goto(c, "stamping")
    /\ loc' = [loc EXCEPT ![c] = [NoLocals EXCEPT !.name = m]]
    /\ called' = [called EXCEPT ![m] = 0]
    /\ UNCHANGED <<setup, registry, hb, gate, sinceHw, silent, stops, changes>>

Stamp(c) ==
    LET m == loc[c].name IN
    /\ At(c, "stamping")
    /\ IF m \in registered
       THEN /\ fed' = fed \cup {m}
            /\ age' = [age EXCEPT ![m] = loc[c].at]
            /\ sinceHw' = sinceHw \cup {m}
       ELSE UNCHANGED <<fed, age, sinceHw>>
    /\ Return(c)
    /\ UNCHANGED <<setup, registered, frozen, hb, gate, called, silent, stops, changes>>

-----------------------------------------------------------------------------
(* bm_wdg_feed                                                                *)

Fresh(m) == m \in fed /\ age[m] <= Timeout

\* The first critical section, which also closes the registry.
Snapshot(c) ==
    /\ c \in Feeders /\ At(c, "idle")
    /\ frozen' = TRUE
    /\ loc' = [loc EXCEPT ![c] =
                 [NoLocals EXCEPT !.count = Cardinality(registered),
                                  !.ok = \A m \in registered : Fresh(m)]]
    /\ Goto(c, IF Others = {} THEN "deciding" ELSE "gate")
    /\ UNCHANGED <<setup, registered, fed, age, hb, gate, history>>

\* bm_mp_wdg_bootstrap_check takes the time.
GateNow(c) ==
    /\ At(c, "gate")
    /\ Goto(c, "looking")
    /\ loc' = [loc EXCEPT ![c].at = 0]
    /\ UNCHANGED <<setup, registry, hb, gate, history>>

BeatingOnce(p) == p \notin seen
Beating(p) == p \notin seen \/ hb[p] # lastHb[p]
\* now - s_last_change_ticks, in 32 bits: a stamp later than now wraps.
Overdue(p, at) == changeAge[p] < at \/ changeAge[p] - at >= HbTimeout

\* It looks at one CPU after the other (by index; here in any order).
LookAt(c, p) ==
    LET at == loc[c].at IN
    /\ At(c, "looking") /\ p \notin loc[c].looked
    /\ loc' = [loc EXCEPT ![c].looked = @ \cup {p},
                          ![c].stalled = @ \/ (~Beating(p) /\ Overdue(p, at))]
    /\ IF Beating(p)
       THEN /\ seen' = seen \cup {p}
            /\ lastHb' = [lastHb EXCEPT ![p] = hb[p]]
            /\ changeAge' = [changeAge EXCEPT ![p] = at]
       ELSE UNCHANGED <<seen, lastHb, changeAge>>
    /\ UNCHANGED <<setup, registry, pc, hb, stopped, history>>

EveryStop == TRUE
FirstStop == ~stopped
ClosesOnce(c) == loc[c].stalled /\ ~stopped
Closes(c) == loc[c].stalled

\* With all of them looked at, it exchanges the latch or lets the feed go on.
GateVerdict(c) ==
    /\ At(c, "looking") /\ loc[c].looked = Others
    /\ IF Closes(c)
       THEN /\ stopped' = TRUE
            /\ stops' = IF FirstStop THEN stops + 1 ELSE stops
            /\ Return(c)
       ELSE /\ Goto(c, "deciding")
            /\ UNCHANGED <<stopped, stops, loc>>
    /\ UNCHANGED <<setup, registry, hb, lastHb, seen, changeAge, called, sinceHw, silent,
                   changes>>

SameCount(c) == Cardinality(registered) = loc[c].count
Unchanged(c) == loc[c].current /\ Cardinality(registered) = loc[c].count
NoRecheck(c) == TRUE
Recheck(c) == \A m \in registered : Fresh(m)

\* What lets the last critical section feed the hardware.
Granted(c) ==
    /\ loc[c].count # 0 => loc[c].ok
    /\ Unchanged(c)
    /\ loc[c].count # 0 => Recheck(c)

KeepFed == fed
Consumed == fed \ registered

FeedHardware(c) ==
    /\ At(c, "deciding")
    /\ Granted(c)
    /\ fed' = Consumed
    /\ sinceHw' = {}
    /\ Goto(c, "idle")
    /\ loc' = [(IF loc[c].count # 0 THEN Bump(loc) ELSE loc) EXCEPT ![c] = NoLocals]
    /\ UNCHANGED <<setup, registered, age, frozen, hb, gate, called, silent, stops, changes>>

Blocked(c) ==
    /\ At(c, "deciding")
    /\ ~Granted(c)
    /\ Return(c)
    /\ UNCHANGED <<setup, registry, hb, gate, history>>

-----------------------------------------------------------------------------
\* bm_mp_wdg_feed_this_cpu, on another CPU; by HbMod, no look sees it come round.
Beat(p) ==
    /\ (hb[p] + 1) % HbMod # lastHb[p]
    /\ hb' = [hb EXCEPT ![p] = (hb[p] + 1) % HbMod]
    /\ silent' = [silent EXCEPT ![p] = 0]
    /\ UNCHANGED <<setup, registry, pc, loc, gate, called, sinceHw, stops, changes>>

\* bm_mp_wdg_reset
GateReset(c) ==
    /\ Others # {} /\ At(c, "idle") /\ Change
    /\ lastHb' = [p \in Others |-> 0] /\ seen' = {}
    /\ changeAge' = [p \in Others |-> 0]
    /\ stopped' = FALSE /\ stops' = 0
    /\ UNCHANGED <<setup, registry, pc, loc, hb, called, sinceHw, silent>>

Tick ==
    /\ \A c \in Ctx : pc[c] = "looking" => loc[c].at < GateDelay
    /\ age' = [m \in Names |-> Ageing(age[m], Timeout)]
    /\ called' = [m \in Names |-> Ageing(called[m], Timeout)]
    /\ loc' = [c \in Ctx |->
                 CASE pc[c] = "stamping" -> [loc[c] EXCEPT !.at = Ageing(@, Timeout)]
                   [] pc[c] = "looking" -> [loc[c] EXCEPT !.at = Ageing(@, HbTimeout)]
                   [] OTHER -> loc[c]]
    /\ changeAge' = [p \in Others |-> Ageing(changeAge[p], 2 * HbTimeout)]
    /\ silent' = [p \in Others |-> Ageing(silent[p], 2 * HbTimeout)]
    /\ UNCHANGED <<setup, registered, fed, frozen, pc, hb, lastHb, seen,
                   stopped, sinceHw, stops, changes>>

Call(c) ==
    \/ \E m \in Names : Register(c, m) \/ CheckIn(c, m)
    \/ Reset(c) \/ Snapshot(c) \/ GateReset(c)

\* The context goes on with the call it is in.
Proceed(c) ==
    \/ Stamp(c) \/ GateNow(c) \/ (\E p \in Others : LookAt(c, p)) \/ GateVerdict(c)
    \/ FeedHardware(c) \/ Blocked(c)

Beats == \E p \in Others : Beat(p)
Next == (\E c \in Ctx : Call(c) \/ Proceed(c)) \/ Beats \/ Tick

Spec == Init /\ [][Next]_vars

-----------------------------------------------------------------------------
(* Properties                                                                 *)

TypeOK ==
    /\ registered \subseteq Names /\ Cardinality(registered) <= MaxModules
    /\ fed \subseteq registered
    /\ age \in [Names -> Ago(Timeout)] /\ called \in [Names -> Ago(Timeout)]
    /\ frozen \in BOOLEAN
    /\ pc \in [Ctx -> {"idle", "stamping", "gate", "looking", "deciding"}]
    /\ hb \in [Others -> 0 .. HbMod - 1] /\ lastHb \in [Others -> 0 .. HbMod - 1]
    /\ seen \subseteq Others /\ sinceHw \subseteq registered
    /\ changeAge \in [Others -> Ago(2 * HbTimeout)]
    /\ silent \in [Others -> Ago(2 * HbTimeout)]
    /\ stopped \in BOOLEAN /\ stops \in Nat /\ changes \in 0 .. MaxChanges

\* The hardware is fed only when every registered module has called feed_module
\* within the timeout (bm_wdg.c:334-341 looks again after the gate, which takes
\* time), however calls of two contexts interleave.
HwFeedsFresh ==
    [][\A c \in Ctx : FeedHardware(c) => \A m \in registered : called[m] <= Timeout]_vars

\* A check-in pays for one feed of the hardware: since it was last fed, every
\* module has checked in anew.  A module that hangs lets no second feed through.
CheckInsPayOnce ==
    [][\A c \in Ctx : FeedHardware(c) => registered \subseteq sinceHw]_vars

\* A call of bm_wdg_feed that was under way when a module registered or the
\* registry was reset does not feed the hardware on what it saw before.
NoFeedAcrossChange ==
    [][\A c \in Ctx : FeedHardware(c) => loc[c].undisturbed]_vars

\* The gate finds a CPU stalled only if that CPU has been silent for the heartbeat
\* timeout, less the time by which the look at bm_mp_wdg.c:88 came after the clock was
\* read; and it closes on nothing else.
JustLook ==
    /\ \A c \in Ctx : \A p \in Others :
          LookAt(c, p) /\ loc'[c].stalled # loc[c].stalled
              => silent[p] + GateDelay >= HbTimeout
    /\ \A c \in Ctx : pc[c] = "looking" /\ pc'[c] = "idle" => loc[c].stalled
GateIsJust == [][JustLook]_vars

\* The safe-stop hook is called once until the gate is reset, also when a second
\* context finds the stalled CPU (the exchange at bm_mp_wdg.c:117).
SafeStopOnce == stops <= 1
=============================================================================
