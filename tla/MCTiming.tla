------------------------------- MODULE MCTiming -------------------------------
(* Instances for TLC of what a CPU must do in time.  A behaviour is one of     *)
(* Parts: the timer of two slots while another interrupt races its start       *)
(* ("race") or while time goes on ("served"); the watchdog in one of three     *)
(* uses ("watchdog"): with two modules, or behind the gate, which the main     *)
(* loop asks or either context; the queue of events on one of three builds     *)
(* ("events"): with more subscriptions than ids, with a ring that wraps, or    *)
(* with three priorities that compete.                                         *)
EXTENDS HrtTimer

CONSTANTS a, b, p2, t1, t2, none, Parts, Setups, Builds

Periods == <<2, 3>>

VARIABLES
    part,        \* what the behaviour is about
    setup, registered, fed, age, frozen, pc, loc, hb, lastHb, seen, changeAge, stopped,
    called, sinceHw, silent, stops, changes,
    build, types, list, id, nextId, eventsFrozen, items, rd, wr, dropped, rejected, depth,
    sinceFair, fairCursor, eventsPc, left, item, sub, calledNow, bypassed

wdgVars == <<setup, registered, fed, age, frozen, pc, loc, hb, lastHb, seen, changeAge,
             stopped, called, sinceHw, silent, stops, changes>>
eventVars == <<build, types, list, id, nextId, eventsFrozen, items, rd, wr, dropped,
               rejected, depth, sinceFair, fairCursor, eventsPc, left, item, sub, calledNow,
               bypassed>>
allVars == <<part, vars, wdgVars, eventVars>>

Race == INSTANCE HrtTimer WITH IrqCalls <- TRUE

\* Either context may check in for any module.
Contexts == {"main", "isr"}
AnyDuty(names) == [c \in Contexts |-> names]
Feeds ==
    [names |-> {a, b}, modules |-> 2, timeout |-> 1, others |-> {}, heartbeat |-> 1,
     feeders |-> Contexts, duty |-> AnyDuty({a, b}), beats |-> 3, delay |-> 1,
     changes |-> 3]
Gate ==
    [names |-> {a}, modules |-> 1, timeout |-> 1, others |-> {p2}, heartbeat |-> 2,
     feeders |-> {"main"}, duty |-> AnyDuty({a}), beats |-> 2, delay |-> 1, changes |-> 1]
BothAsk ==
    [names |-> {a}, modules |-> 1, timeout |-> 1, others |-> {p2}, heartbeat |-> 1,
     feeders |-> Contexts, duty |-> AnyDuty({a}), beats |-> 2, delay |-> 0, changes |-> 1]
ThreeUses == {Feeds, Gate, BothAsk}
Wdg == INSTANCE Watchdog

Subscribers ==
    [types |-> {t1, t2}, prios |-> 1, depth |-> 2, burst |-> 1, subs |-> 3, fanOut |-> 2,
     ids |-> 4, budgets |-> {1}, counts |-> 1, bypass |-> 0]
Order ==
    [types |-> {t1, t2}, prios |-> 1, depth |-> 4, burst |-> 2, subs |-> 0, fanOut |-> 0,
     ids |-> 2, budgets |-> {1, 2}, counts |-> 1, bypass |-> 0]
Competing ==
    [types |-> {t1}, prios |-> 3, depth |-> 2, burst |-> 2, subs |-> 0, fanOut |-> 0,
     ids |-> 2, budgets |-> {1}, counts |-> 0, bypass |-> 7]
ThreeBuilds == {Subscribers, Order, Competing}
Events == INSTANCE EventQueue WITH
    Unowned <- none,
    registered <- types, frozen <- eventsFrozen, pc <- eventsPc, called <- calledNow

ASSUME TimingAssumption == Wdg!WdgAssumption /\ Events!BuildAssumption

\* What a behaviour is not about is the same in all.
TimingInit ==
    /\ part \in Parts
    /\ Init /\ Wdg!Init /\ Events!Init
    /\ part # "watchdog" => setup = CHOOSE u \in Setups : TRUE
    /\ part # "events" => build = CHOOSE u \in Builds : TRUE

TimerNext ==
    /\ \/ part = "race" /\ Race!Next
       \/ part = "served" /\ Next
    /\ UNCHANGED <<part, wdgVars, eventVars>>
WatchdogNext == part = "watchdog" /\ Wdg!Next /\ UNCHANGED <<part, vars, eventVars>>
EventsNext == part = "events" /\ Events!Next /\ UNCHANGED <<part, vars, wdgVars>>

TimingNext == TimerNext \/ WatchdogNext \/ EventsNext
TimingSpec == TimingInit /\ [][TimingNext]_allVars

\* Time goes on, the timer's interrupt comes, and a pass that was begun goes on; the
\* main loop calls bm_event_process again and again, and callbacks return.
WhenServed(A) == part = "served" /\ A /\ UNCHANGED <<part, wdgVars, eventVars>>
WhenWatched(A) == part = "watchdog" /\ A /\ UNCHANGED <<part, vars, eventVars>>
WithEvents(A) == part = "events" /\ A /\ UNCHANGED <<part, vars, wdgVars>>

FairTiming ==
    /\ TimingSpec
    /\ WF_allVars(WhenServed(Tick) \/ WhenWatched(Wdg!Tick) \/ WithEvents(Events!Process))
    /\ WF_allVars(\/ WhenServed(Interrupt)
                  \/ WithEvents(\E n \in build.budgets \ {0} : Events!ProcessCall(n)))
    /\ \A p \in Passes : WF_allVars(WhenServed(Dispatch(p)))

-----------------------------------------------------------------------------
(* The timer, the watchdog and the event queue are well-formed: an entry of a  *)
(* subscriber list has one owner, and what waits may be dispatched.            *)
TypesOK ==
    CASE part \in {"race", "served"} -> TypeOK
      [] part = "watchdog" -> Wdg!TypeOK
      [] OTHER -> Events!TypeOK

(* Every period of a slot is run or counted as missed, exactly once: never two *)
(* runs for one period, never early, never a period miscounted, none that was  *)
(* due overlooked by a pass that was not cut short, across the wrap of the     *)
(* counter and whoever makes the pass (bm_hrt.c:194-245, 264-275).             *)
PeriodsAccounted == [](OncePerPeriod /\ MissesAreExact) /\ NothingOverlooked

(* The hardware is fed only on what it should be, however the calls of the     *)
(* main loop and the interrupt interleave: every module has checked in in time *)
(* and anew since the last feed, and the registry has not changed since this   *)
(* call looked at it.  The gate, where the main loop alone asks it, closes on  *)
(* a CPU only that has been silent for its timeout, and the safe-stop hook is  *)
(* called once, though both contexts find the CPU (bm_wdg.c:289-341;           *)
(* bm_mp_wdg.c:85-117).                                                        *)
FeedsAreEarned ==
    /\ Wdg!HwFeedsFresh /\ Wdg!CheckInsPayOnce /\ Wdg!NoFeedAcrossChange
    /\ [][(setup.feeders = {"main"} => Wdg!JustLook) /\ (Wdg!SafeStopOnce)']_allVars

(* A slot that is due is run or counted, unless the timer is stopped.  While   *)
(* interrupts publish events for ever, every call of bm_event_process comes    *)
(* back, and an event of the lowest priority that was overtaken is taken out.  *)
(* When a CPU has stopped beating for good, the hardware is not fed for ever   *)
(* (bm_hrt.c:194-245; bm_event.c:861-985; bm_mp_wdg.c:105).                    *)
Awaited(k) ==
    CASE part = "served" -> started /\ owed[k] >= Period[k]
      [] part = "events" -> IF k = 1 THEN eventsPc # "idle" ELSE bypassed[build.prios - 1] > 0
      [] OTHER -> FALSE
WhatIsDueComes ==
    /\ \A k \in {1, 2} : Awaited(k) ~> ~Awaited(k)
    /\ <>[][~(setup = Gate /\ Wdg!Beat(p2))]_allVars
           => <>[][~(setup = Gate /\ Wdg!FeedHardware("main"))]_allVars

(* Every subscriber of the type is called for an event before the walk ends,   *)
(* although callbacks and interrupts run in the middle of it; the highest and  *)
(* the lowest priority are overtaken so often and no more: an urgent event by  *)
(* one that had its turn, the lowest by a burst and a turn of each lower one   *)
(* (bm_event.c:861-985, 1040-1075).                                              *)
EventsReachAll == part = "events" => Events!EveryoneCalled /\ Events!BoundedBypass

(* The ring of a priority is a queue: a step leaves it, appends to it, or      *)
(* takes its oldest event for dispatch; only a reset empties it.               *)
FirstInFirstOut == Events!FirstInFirstOut
===============================================================================
