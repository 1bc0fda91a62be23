----------------------------- MODULE Timing_proof -----------------------------
(* Proofs about MCTiming, for every number of slots, their periods and the     *)
(* width of the tick counter, every use of the watchdog and every build of the *)
(* event queue.                                                                *)
(*                                                                             *)
(* TimerInv: when a slot is due next is told from the clock and from the ticks *)
(* it is owed, and a pass leaves no slot behind that owes it a period.         *)
(* WdgInv: who counts as fed has checked in, and a call that was not told of a *)
(* change has seen none.  EventsInv: an entry has one place on one list, a     *)
(* walk has called what it has gone by, and the turns since the lowest         *)
(* priority was served are those the cursor has gone by.                       *)
EXTENDS MCTiming, Sequences, TLAPS, FiniteSetTheorems, SequenceTheorems,
        WellFoundedInduction

-----------------------------------------------------------------------------
(* The timer                                                                   *)

\* A sum of two remainders is at most one round too large.
LEMMA ModSmall ==
    ASSUME NEW m \in Nat \ {0}, NEW x \in 0 .. 2 * m - 1
    PROVE  x % m = IF x < m THEN x ELSE x - m
OBVIOUS

\* A remainder.
LEMMA ModIs ==
    ASSUME NEW m \in Nat \ {0}, NEW x \in Nat
    PROVE  x % m \in 0 .. m - 1
OBVIOUS

\* Half of what the counter counts to holds a period and the longest delay.
LEMMA TickFacts ==
    /\ TickMod \in Nat \ {0} /\ TickMod \div 2 \in Nat /\ 2 * (TickMod \div 2) <= TickMod
    /\ \A s \in Slots : Period[s] \in Nat \ {0} /\ Period[s] + MaxLate <= TickMod \div 2
    /\ MaxLate \in Nat /\ NSlots \in Nat \ {0} /\ PerIsr \in Nat \ {0}
<1>1. TickMod \div 2 \in Nat /\ 2 * (TickMod \div 2) <= TickMod
  BY HrtAssumption
<1>2. \A s \in Slots : Period[s] \in Nat \ {0} /\ Period[s] + MaxLate <= TickMod \div 2
  BY HrtAssumption DEF Slots
<1>3. 1 \in Slots
  BY HrtAssumption DEF Slots
<1>4. TickMod # 0
  BY <1>1, <1>2, <1>3, HrtAssumption
<1> QED BY <1>1, <1>2, <1>4, HrtAssumption

\* Sums and differences of ticks come round at most once.
LEMMA PlusIs ==
    ASSUME NEW t \in 0 .. TickMod - 1, NEW d \in 0 .. TickMod - 1
    PROVE  /\ Plus(t, d) = IF t + d < TickMod THEN t + d ELSE t + d - TickMod
           /\ Plus(t, d) \in 0 .. TickMod - 1
<1> DEFINE x == t + d
<1>1. x \in 0 .. 2 * TickMod - 1 /\ TickMod \in Nat \ {0}
  BY TickFacts
<1> HIDE DEF x
<1>2. x % TickMod = IF x < TickMod THEN x ELSE x - TickMod
  BY <1>1, ModSmall
<1>3. Plus(t, d) = IF x < TickMod THEN x ELSE x - TickMod
  BY <1>2 DEF Plus, x
<1> HIDE DEF Plus
<1> QED BY <1>1, <1>3 DEF x

\* How long ago u was, by a counter that comes round.
LEMMA SinceIs ==
    ASSUME NEW t \in 0 .. TickMod - 1, NEW u \in 0 .. TickMod - 1
    PROVE  /\ Since(t, u) = IF t >= u THEN t - u ELSE t - u + TickMod
           /\ Since(t, u) \in 0 .. TickMod - 1
<1> DEFINE x == t + TickMod - u
<1>1. x \in 0 .. 2 * TickMod - 1 /\ TickMod \in Nat \ {0} /\ (x < TickMod <=> t < u)
  BY TickFacts
<1> HIDE DEF x
<1>2. x % TickMod = IF x < TickMod THEN x ELSE x - TickMod
  BY <1>1, ModSmall
<1>3. Since(t, u) = IF x < TickMod THEN x ELSE x - TickMod
  BY <1>2 DEF Since, x
<1> HIDE DEF Since
<1> QED BY <1>1, <1>3 DEF x

\* How late a pass is, and the slots it has been at.
Late(p) == Since(now, passNow[p])
Passed(p) == {s \in Slots : s < at[p] \/ (calling[p] /\ s = at[p])}

\* A tick, written without coming round.
Stands(t, x) ==
    /\ t \in 0 .. TickMod - 1
    /\ t = x \/ t = x + TickMod \/ t = x - TickMod

TimerTypes ==
    /\ TypeOK
    /\ owed \in [Slots -> Nat] /\ ~miscounted

\* A timer that is started has its table, and knows of every slot the ticks since the
\* last period accounted for.
TimerKnows ==
    started =>
        /\ initialized
        /\ \A s \in Slots :
              owed[s] <= MaxLate + 1 /\ Stands(nextTick[s], now + Period[s] - owed[s])

\* A pass is not too late, and the interrupt is no later than the poll it preempts.
PassesInTime ==
    /\ \A p \in Passes : at[p] # 0 => Late(p) <= MaxLate
    /\ at["isr"] # 0 /\ at["poll"] # 0 => Late("isr") <= Late("poll")

\* No slot a pass has been at owes a period that was due when the pass read the clock.
NoneLeftBehind ==
    started =>
        \A p \in Passes : at[p] # 0 =>
            \A s \in Passed(p) : owed[s] < Period[s] + Late(p)

TimerInv ==
    /\ TimerTypes
    /\ initialized => slotCount = NSlots
    /\ TimerKnows /\ PassesInTime /\ NoneLeftBehind

\* The timer is not started to begin with.
LEMMA TimerStarts == Init => TimerInv
<1> SUFFICES ASSUME Init PROVE TimerInv
  OBVIOUS
<1>1. 0 \in 0 .. TickMod - 1 /\ 0 \in 0 .. NSlots + 1 /\ 0 \in 0 .. PerIsr /\ 0 \in Nat
  BY TickFacts
<1>2. TypeOK
  BY <1>1 DEF Init, TypeOK
<1>3. TimerTypes
  BY <1>1, <1>2 DEF Init, TimerTypes, NoneOwed
<1>4. ~initialized /\ ~started /\ \A p \in Passes : at[p] = 0
  BY DEF Init
<1>5. PassesInTime
  BY <1>4 DEF PassesInTime, Passes
<1> QED BY <1>3, <1>4, <1>5 DEF TimerInv, TimerKnows, NoneLeftBehind

\* What a pass knows does not depend on more than this.
LEMMA PassesRest ==
    ASSUME PassesInTime, UNCHANGED <<now, at, passNow>>
    PROVE  PassesInTime'
BY DEF PassesInTime, Late

\* A step that leaves the clock, the table, the passes and the history alone.
LEMMA TimerRests ==
    ASSUME TimerInv, TypeOK', UNCHANGED <<now, table, pass, history>>
    PROVE  TimerInv'
<1>1. PassesInTime'
  BY PassesRest DEF TimerInv, pass
<1>2. TimerTypes'
  BY DEF TimerInv, TimerTypes, history
<1>3. TimerKnows'
  BY DEF TimerInv, TimerKnows, table, history
<1>4. NoneLeftBehind'
  BY DEF TimerInv, NoneLeftBehind, table, history, pass, Passed, Late
<1> QED BY <1>1, <1>2, <1>3, <1>4 DEF TimerInv, table

\* Time goes on: all that is owed, and every pass, is a tick later.
LEMMA TickKeeps ==
    ASSUME TimerInv, Tick
    PROVE  TimerInv'
<1> USE TickFacts
<1>1. /\ now \in 0 .. TickMod - 1 /\ passNow \in [Passes -> 0 .. TickMod - 1]
      /\ owed \in [Slots -> Nat] /\ started \in BOOLEAN
  BY DEF TimerInv, TimerTypes, TypeOK
<1>2. now' = (IF now + 1 < TickMod THEN now + 1 ELSE now + 1 - TickMod)
      /\ now' \in 0 .. TickMod - 1
  <2>1. 1 \in Slots
    BY DEF Slots
  <2>2. 1 \in 0 .. TickMod - 1
    BY <2>1
  <2>3. now' = Plus(now, 1)
    BY DEF Tick
  <2> QED BY <1>1, <2>2, <2>3, PlusIs
<1>3. UNCHANGED <<at, passNow, calling, started, initialized, slotCount, nextTick>>
  BY DEF Tick, table, pass
<1>4. owed' \in [Slots -> Nat] /\ (started => \A s \in Slots : owed'[s] = owed[s] + 1)
  BY <1>1 DEF Tick
<1>5. ASSUME NEW p \in Passes, at[p] # 0
      PROVE  Late(p)' = Late(p) + 1 /\ Late(p)' <= MaxLate /\ Late(p) \in Nat
  <2>1. passNow[p] \in 0 .. TickMod - 1 /\ passNow'[p] = passNow[p]
    BY <1>1, <1>3
  <2>2. Since(now, passNow[p]) < MaxLate
    BY <1>5 DEF Tick
  <2>3. /\ Since(now, passNow[p]) = IF now >= passNow[p] THEN now - passNow[p]
                                    ELSE now - passNow[p] + TickMod
        /\ Since(now', passNow[p]) = IF now' >= passNow[p] THEN now' - passNow[p]
                                     ELSE now' - passNow[p] + TickMod
    BY <1>1, <1>2, <2>1, SinceIs
  <2>4. MaxLate < TickMod
    <3>1. 1 \in Slots
      BY DEF Slots
    <3> QED BY <3>1
  <2>5. Since(now', passNow[p]) = Since(now, passNow[p]) + 1
    BY <1>1, <1>2, <2>1, <2>2, <2>3, <2>4
  <2>6. Since(now, passNow[p]) \in Nat
    BY <1>1, <2>1, <2>3
  <2> QED BY <2>1, <2>2, <2>5, <2>6 DEF Late
<1>6. PassesInTime'
  BY <1>3, <1>5 DEF PassesInTime, Passes, TimerInv
<1>7. TypeOK'
  BY <1>2, <1>3 DEF Tick, TypeOK, TimerInv, TimerTypes, pass
<1>8. TimerTypes'
  BY <1>4, <1>7 DEF Tick, TimerTypes, TimerInv
<1>9. ASSUME started, NEW s \in Slots
      PROVE  owed'[s] <= MaxLate + 1 /\ Stands(nextTick'[s], now' + Period[s] - owed'[s])
  <2>1. owed[s] <= MaxLate /\ owed[s] \in Nat /\ owed'[s] = owed[s] + 1
    BY <1>1, <1>4, <1>9 DEF Tick
  <2>2. Stands(nextTick[s], now + Period[s] - owed[s])
    BY <1>9 DEF TimerInv, TimerKnows
  <2>3. /\ nextTick[s] \in 0 .. TickMod - 1
        /\ \/ nextTick[s] = now + Period[s] - owed[s]
           \/ nextTick[s] = now + Period[s] - owed[s] + TickMod
           \/ nextTick[s] = now + Period[s] - owed[s] - TickMod
    BY <1>1, <2>1, <2>2 DEF Stands
  <2>4. Period[s] + MaxLate <= TickMod \div 2 /\ Period[s] \in Nat \ {0}
    OBVIOUS
  <2>5. \/ nextTick[s] = now' + Period[s] - owed'[s]
        \/ nextTick[s] = now' + Period[s] - owed'[s] + TickMod
        \/ nextTick[s] = now' + Period[s] - owed'[s] - TickMod
    BY <1>1, <1>2, <2>1, <2>3, <2>4
  <2>6. now' \in Int /\ owed'[s] \in Int /\ nextTick'[s] = nextTick[s]
    BY <1>2, <1>3, <2>1
  <2> QED BY <2>1, <2>3, <2>5, <2>6 DEF Stands
<1>10. TimerKnows'
  BY <1>3, <1>9 DEF TimerInv, TimerKnows
<1>11. ASSUME started, NEW p \in Passes, at[p] # 0, NEW s \in Passed(p)
       PROVE  owed'[s] < Period[s] + Late(p)'
  <2>1. s \in Slots /\ owed[s] < Period[s] + Late(p)
    BY <1>11 DEF TimerInv, NoneLeftBehind, Passed
  <2>2. owed'[s] = owed[s] + 1 /\ Late(p)' = Late(p) + 1 /\ Late(p) \in Nat /\ owed[s] \in Nat
    BY <1>1, <1>4, <1>5, <1>11, <2>1
  <2> QED BY <2>1, <2>2
<1>12. \A p \in Passes : Passed(p)' = Passed(p)
  BY <1>3 DEF Passed
<1>13. NoneLeftBehind'
  BY <1>3, <1>11, <1>12 DEF NoneLeftBehind
<1> QED BY <1>3, <1>6, <1>8, <1>10, <1>13 DEF TimerInv

\* A stop, whoever calls it.
LEMMA StopKeeps ==
    ASSUME TimerInv, StopOrReset, TypeOK', PassesInTime', UNCHANGED miscounted
    PROVE  TimerInv'
<1>1. ~started' /\ owed' = [s \in Slots |-> 0]
  BY DEF StopOrReset, Stop, Reset, StopLocked, NoneOwed
<1>2. owed' \in [Slots -> Nat]
  BY <1>1
<1>3. TimerTypes'
  BY <1>2 DEF TimerInv, TimerTypes
<1>4. initialized' => slotCount' = NSlots
  BY DEF StopOrReset, Stop, Reset, TimerInv
<1> QED BY <1>1, <1>3, <1>4 DEF TimerInv, TimerKnows, NoneLeftBehind

\* What a stop leaves is well-formed.
LEMMA StopTypes ==
    ASSUME TypeOK, StopOrReset
    PROVE  /\ timerOn' \in BOOLEAN /\ callback' \in BOOLEAN /\ started' \in BOOLEAN
           /\ initialized' \in BOOLEAN /\ slotCount' \in {0, NSlots}
           /\ nextTick' \in [Slots -> 0 .. TickMod - 1]
<1>1. 0 \in 0 .. TickMod - 1
  BY TickFacts
<1> QED BY <1>1 DEF StopOrReset, Stop, Reset, StopLocked, TypeOK

\* How late a pass is, is a tick.
LEMMA LateIs ==
    ASSUME TypeOK, NEW p \in Passes
    PROVE  /\ Late(p) \in 0 .. TickMod - 1
           /\ Late(p) = IF now >= passNow[p] THEN now - passNow[p]
                        ELSE now - passNow[p] + TickMod
<1>1. now \in 0 .. TickMod - 1 /\ passNow[p] \in 0 .. TickMod - 1
  BY DEF TypeOK
<1> QED BY <1>1, SinceIs DEF Late

\* A period from now.
LEMMA DeadlineIs ==
    ASSUME NEW t \in 0 .. TickMod - 1, NEW s \in Slots
    PROVE  /\ DeadlineFrom(t, s) = IF t + Period[s] < TickMod THEN t + Period[s]
                                   ELSE t + Period[s] - TickMod
           /\ DeadlineFrom(t, s) \in 0 .. TickMod - 1
<1>1. Period[s] \in Nat \ {0} /\ Period[s] <= TickMod \div 2
      /\ 2 * (TickMod \div 2) <= TickMod /\ TickMod \in Nat /\ TickMod \div 2 \in Nat
  BY TickFacts
<1>2. Period[s] \in 0 .. TickMod - 1
  BY <1>1
<1> QED BY <1>2, PlusIs DEF DeadlineFrom

\* The timer is started: no slot owes anything, wherever a poll is.
LEMMA CommitKeeps ==
    ASSUME TimerInv, initialized, Commit, starting' \in {"no", "setUp", "commit"},
           UNCHANGED <<now, pass, miscounted>>
    PROVE  TimerInv'
<1>1. UNCHANGED <<now, at, passNow, fired, calling, initialized, slotCount, pending>>
  BY DEF pass, Commit
<1>2. TypeOK /\ now \in 0 .. TickMod - 1
  BY DEF TimerInv, TimerTypes, TypeOK
<1>3. nextTick' = [s \in Slots |-> DeadlineFrom(now, s)] /\ owed' = [s \in Slots |-> 0]
  BY DEF Commit, NoneOwed
<1>4. \A s \in Slots : DeadlineFrom(now, s) \in 0 .. TickMod - 1
  BY <1>2, DeadlineIs
<1>5. TypeOK'
  BY <1>1, <1>2, <1>3, <1>4 DEF TypeOK, Commit
<1>6. TimerTypes'
  BY <1>3, <1>5 DEF TimerInv, TimerTypes
<1>7. PassesInTime'
  BY <1>1, PassesRest DEF TimerInv
<1>8. ASSUME NEW s \in Slots
      PROVE  owed'[s] <= MaxLate + 1 /\ Stands(nextTick'[s], now' + Period[s] - owed'[s])
  <2>1. owed'[s] = 0 /\ nextTick'[s] = DeadlineFrom(now, s) /\ now' = now
    BY <1>1, <1>3
  <2>2. Period[s] \in Nat /\ MaxLate \in Nat /\ TickMod \in Nat /\ now \in Nat
    BY <1>2, TickFacts
  <2>3. \/ DeadlineFrom(now, s) = now + Period[s] - 0
        \/ DeadlineFrom(now, s) = now + Period[s] - 0 - TickMod
    BY <1>2, <2>2, DeadlineIs
  <2> QED BY <1>4, <2>1, <2>2, <2>3 DEF Stands
<1>9. TimerKnows'
  BY <1>1, <1>8 DEF TimerKnows
<1>10. ASSUME NEW p \in Passes, NEW s \in Slots
       PROVE  owed'[s] < Period[s] + Late(p)'
  <2>1. Late(p)' = Late(p)
    BY <1>1 DEF Late
  <2>2. Late(p) \in Nat /\ Period[s] \in Nat \ {0} /\ owed'[s] = 0
    BY <1>2, <1>3, LateIs, TickFacts
  <2> QED BY <2>1, <2>2
<1>11. NoneLeftBehind'
  BY <1>10 DEF NoneLeftBehind, Passed
<1> QED BY <1>1, <1>6, <1>7, <1>9, <1>11 DEF TimerInv

\* A pass reads the clock, before it has been at any slot.
LEMMA BeginKeeps ==
    ASSUME TimerInv, NEW p \in Passes, at[p] = 0, BeginPass(p), pending' \in BOOLEAN,
           p = "poll" => MainRuns,
           UNCHANGED <<now, timerOn, callback, table, starting, history>>
    PROVE  TimerInv'
<1>1. UNCHANGED <<now, calling, initialized, started, slotCount, nextTick, owed, miscounted>>
  BY DEF BeginPass, table, history
<1>2. TypeOK /\ now \in 0 .. TickMod - 1 /\ at \in [Passes -> 0 .. NSlots + 1]
      /\ passNow \in [Passes -> 0 .. TickMod - 1] /\ fired \in [Passes -> 0 .. PerIsr]
  BY DEF TimerInv, TimerTypes, TypeOK
<1>3. /\ at' \in [Passes -> 0 .. NSlots + 1] /\ at'[p] = 1
      /\ passNow' \in [Passes -> 0 .. TickMod - 1] /\ passNow'[p] = now
      /\ fired' \in [Passes -> 0 .. PerIsr] /\ fired'[p] = 0
      /\ \A q \in Passes \ {p} : at'[q] = at[q] /\ passNow'[q] = passNow[q]
                                 /\ fired'[q] = fired[q]
  <2>1. 1 \in 0 .. NSlots + 1 /\ 0 \in 0 .. PerIsr
    BY TickFacts
  <2> QED BY <1>2, <2>1 DEF BeginPass
<1>4. \A q \in Passes : calling'[q] => at'[q] \in Slots /\ fired'[q] < PerIsr
  <2>1. 1 \in Slots /\ 0 < PerIsr
    BY TickFacts DEF Slots
  <2> QED BY <1>1, <1>2, <1>3, <2>1 DEF TypeOK
<1>5. TypeOK'
  BY <1>1, <1>2, <1>3, <1>4 DEF TypeOK
<1>6. TimerTypes'
  BY <1>1, <1>5 DEF TimerInv, TimerTypes
<1>7. TimerKnows'
  BY <1>1 DEF TimerInv, TimerKnows
<1>8. Late(p)' = 0 /\ \A q \in Passes \ {p} : Late(q)' = Late(q)
  <2>1. Since(now, now) = 0
    BY <1>2, SinceIs
  <2> QED BY <1>1, <1>3, <2>1 DEF Late
<1>9. \A q \in Passes : Late(q) \in Nat /\ Late(q)' \in Nat
  BY <1>2, <1>8, LateIs
<1>10. PassesInTime'
  <2>1. \A q \in Passes : at'[q] # 0 => Late(q)' <= MaxLate
    BY <1>3, <1>8, TickFacts DEF PassesInTime, TimerInv
  <2>2. p = "poll" => at'["isr"] = 0
    BY <1>3 DEF MainRuns, Passes
  <2>3. p = "isr" => Late("isr")' = 0 /\ Late("poll")' \in Nat
    BY <1>8, <1>9 DEF Passes
  <2> QED BY <2>1, <2>2, <2>3 DEF PassesInTime, Passes
<1>11. ASSUME started, NEW q \in Passes, at'[q] # 0, NEW s \in Passed(q)'
       PROVE  owed'[s] < Period[s] + Late(q)'
  <2>1. s \in Slots /\ (s < at'[q] \/ (calling[q] /\ s = at'[q]))
    BY <1>1, <1>11 DEF Passed
  <2>2. CASE q # p
    <3>1. s \in Passed(q) /\ at[q] # 0 /\ Late(q)' = Late(q)
      BY <1>3, <1>8, <1>11, <2>1, <2>2 DEF Passed
    <3> QED BY <1>1, <1>11, <3>1 DEF NoneLeftBehind, TimerInv
  <2>3. CASE q = p
    <3>1. s = 1 /\ calling[p]
      BY <1>3, <2>1, <2>3 DEF Slots
    <3>2. at[p] # 0
      BY <1>2, <3>1 DEF TypeOK, Slots
    <3> QED BY <3>1, <3>2
  <2> QED BY <2>2, <2>3
<1>12. NoneLeftBehind'
  BY <1>1, <1>11 DEF NoneLeftBehind
<1> QED BY <1>1, <1>6, <1>7, <1>10, <1>12 DEF TimerInv

\* What a pass that is at a slot knows.
LEMMA AtSlotFacts ==
    ASSUME TimerInv, NEW p \in Passes, AtSlot(p)
    PROVE  /\ at[p] \in Slots /\ at[p] # 0 /\ ~calling[p] /\ fired[p] < PerIsr
           /\ p = "poll" => MainRuns
<1>1. at[p] \in 0 .. NSlots + 1 /\ at[p] # 0 /\ at[p] <= slotCount /\ slotCount \in {0, NSlots}
  BY DEF AtSlot, InPass, OutOfSlots, TimerInv, TimerTypes, TypeOK
<1>2. at[p] \in Slots
  BY <1>1, TickFacts DEF Slots
<1> QED BY <1>1, <1>2 DEF AtSlot, InPass, Runs

\* By how much the tick that a slot is due at has gone by when a pass reads the clock:
\* by what it is owed, less a period and what the pass is late.
LEMMA BehindIs ==
    ASSUME TimerInv, started, NEW p \in Passes, at[p] \in Slots, Late(p) <= MaxLate
    PROVE  LET d == owed[at[p]] - Period[at[p]] - Late(p)
           IN  /\ Behind(p) = IF d >= 0 THEN d ELSE d + TickMod
               /\ Reached(passNow[p], nextTick[at[p]]) <=> d >= 0
               /\ d \in Int /\ Behind(p) \in Nat
<1> DEFINE s == at[p]
           d == owed[s] - Period[s] - Late(p)
<1>1. TypeOK /\ owed[s] \in Nat /\ owed[s] <= MaxLate + 1
      /\ Stands(nextTick[s], now + Period[s] - owed[s])
  BY DEF TimerInv, TimerTypes, TimerKnows
<1>2. now \in 0 .. TickMod - 1 /\ passNow[p] \in 0 .. TickMod - 1
      /\ nextTick[s] \in 0 .. TickMod - 1
  BY <1>1 DEF TypeOK
<1>3. /\ TickMod \in Nat /\ TickMod \div 2 \in Nat /\ 2 * (TickMod \div 2) <= TickMod
      /\ Period[s] \in Nat \ {0} /\ Period[s] + MaxLate <= TickMod \div 2 /\ MaxLate \in Nat
  BY TickFacts
<1> HIDE DEF s
<1>4. \/ nextTick[s] = now + Period[s] - owed[s]
      \/ nextTick[s] = now + Period[s] - owed[s] + TickMod
      \/ nextTick[s] = now + Period[s] - owed[s] - TickMod
  BY <1>1, <1>2, <1>3 DEF Stands
<1>5. Late(p) \in Nat
      /\ Late(p) = IF now >= passNow[p] THEN now - passNow[p] ELSE now - passNow[p] + TickMod
  BY <1>1, LateIs
<1>6. Since(passNow[p], nextTick[s]) = IF passNow[p] >= nextTick[s]
          THEN passNow[p] - nextTick[s] ELSE passNow[p] - nextTick[s] + TickMod
  BY <1>2, SinceIs
<1>7. d \in Int /\ d < TickMod \div 2 /\ -(TickMod \div 2) <= d
  BY <1>1, <1>3, <1>5
<1>8. Since(passNow[p], nextTick[s]) = IF d >= 0 THEN d ELSE d + TickMod
  BY <1>1, <1>2, <1>3, <1>4, <1>5, <1>6, <1>7
<1> HIDE DEF d
<1>9. Since(passNow[p], nextTick[s]) < TickMod \div 2 <=> d >= 0
  BY <1>3, <1>7, <1>8
<1>10. Since(passNow[p], nextTick[s]) \in Nat
  BY <1>3, <1>7, <1>8
<1> QED BY <1>7, <1>8, <1>9, <1>10 DEF Behind, Reached, d, s

\* A pass goes on to the next slot.
LEMMA MoveTypes ==
    ASSUME TypeOK, NEW p \in Passes, at[p] \in Slots, Move(p)
    PROVE  /\ at' \in [Passes -> 0 .. NSlots + 1] /\ at'[p] = at[p] + 1 /\ at'[p] # 0
           /\ \A q \in Passes \ {p} : at'[q] = at[q]
<1>1. at[p] + 1 \in 0 .. NSlots + 1 /\ at[p] + 1 # 0
  BY TickFacts DEF Slots
<1> QED BY <1>1 DEF Move, TypeOK

\* Nothing that a pass has left behind owes a period, if neither the slot it leaves nor
\* those that now owe something else do.
LEMMA MoveKeeps ==
    ASSUME TimerInv, NEW p \in Passes, at[p] \in Slots, Move(p), calling'[p] = FALSE,
           UNCHANGED <<now, passNow, started, initialized, slotCount>>,
           \A q \in Passes \ {p} : calling'[q] = calling[q],
           started => \A q \in Passes : at[q] # 0 =>
              \A s \in Passed(q) \cup (IF q = p THEN {at[p]} ELSE {}) :
                  owed'[s] < Period[s] + Late(q)
    PROVE  PassesInTime' /\ NoneLeftBehind'
<1>1. at'[p] = at[p] + 1 /\ at[p] # 0 /\ \A q \in Passes \ {p} : at'[q] = at[q]
  BY MoveTypes, TickFacts DEF TimerInv, TimerTypes, Slots
<1>2. \A q \in Passes : Late(q)' = Late(q) /\ (at'[q] # 0 => at[q] # 0)
  BY <1>1 DEF Late
<1>3. PassesInTime'
  BY <1>2 DEF TimerInv, PassesInTime, Passes
<1>4. Passed(p)' \subseteq Passed(p) \cup {at[p]}
  BY <1>1 DEF Passed, Slots
<1>5. \A q \in Passes \ {p} : Passed(q)' = Passed(q)
  BY <1>1 DEF Passed
<1>6. ASSUME started, NEW q \in Passes, at'[q] # 0, NEW s \in Passed(q)'
      PROVE  owed'[s] < Period[s] + Late(q)'
  <2>1. at[q] # 0 /\ s \in Passed(q) \cup (IF q = p THEN {at[p]} ELSE {})
    BY <1>2, <1>4, <1>5, <1>6
  <2> QED BY <1>2, <1>6, <2>1
<1>7. NoneLeftBehind'
  BY <1>6 DEF NoneLeftBehind
<1> QED BY <1>3, <1>7

\* A slot that is not due owes less than a period.
LEMMA NotDueKeeps ==
    ASSUME TimerInv, NEW p \in Passes, NotDue(p)
    PROVE  TimerInv'
<1>1. at[p] \in Slots /\ at[p] # 0 /\ ~calling[p] /\ TypeOK /\ Late(p) <= MaxLate
  BY AtSlotFacts DEF NotDue, TimerInv, TimerTypes, PassesInTime
<1>2. UNCHANGED <<now, timer, table, passNow, fired, calling, starting, history>> /\ Move(p)
  BY DEF NotDue
<1>3. UNCHANGED <<started, initialized, slotCount, nextTick, owed, miscounted, calling,
                  timerOn, callback, pending>>
  BY <1>2 DEF table, history, timer
<1>4. ASSUME started PROVE owed[at[p]] < Period[at[p]] + Late(p)
  <2>1. owed[at[p]] - Period[at[p]] - Late(p) < 0
    BY <1>1, <1>4, BehindIs DEF NotDue
  <2>2. owed[at[p]] \in Nat /\ Period[at[p]] \in Nat /\ Late(p) \in Nat
    BY <1>1, LateIs, TickFacts DEF TimerInv, TimerTypes
  <2> QED BY <2>1, <2>2
<1>5. started => \A q \in Passes : at[q] # 0 =>
          \A s \in Passed(q) \cup (IF q = p THEN {at[p]} ELSE {}) :
              owed'[s] < Period[s] + Late(q)
  BY <1>3, <1>4 DEF TimerInv, NoneLeftBehind
<1>c. calling'[p] = FALSE /\ \A q \in Passes \ {p} : calling'[q] = calling[q]
  BY <1>1, <1>3 DEF TypeOK
<1>6. PassesInTime' /\ NoneLeftBehind'
  BY <1>1, <1>2, <1>3, <1>5, <1>c, MoveKeeps
<1>7. at' \in [Passes -> 0 .. NSlots + 1]
      /\ \A q \in Passes : calling'[q] => at'[q] \in Slots /\ fired'[q] < PerIsr
  BY <1>1, <1>2, MoveTypes DEF TypeOK
<1>8. TypeOK'
  BY <1>1, <1>2, <1>3, <1>7 DEF TypeOK
<1>9. TimerTypes' /\ TimerKnows'
  BY <1>2, <1>3, <1>8 DEF TimerInv, TimerTypes, TimerKnows
<1> QED BY <1>3, <1>6, <1>9 DEF TimerInv

\* The periods that a delay spans: one more than it holds whole ones.
LEMMA MissedAre ==
    ASSUME NEW d \in Nat, NEW n \in Nat \ {0}
    PROVE  /\ (1 + d \div n) * n \in Int
           /\ d < (1 + d \div n) * n /\ (1 + d \div n) * n <= d + n
<1>1. d = n * (d \div n) + (d % n) /\ d \div n \in Nat /\ d % n \in 0 .. n - 1
  OBVIOUS
<1>2. (1 + d \div n) * n = n + n * (d \div n)
  BY <1>1
<1> QED BY <1>1, <1>2

\* The interrupt preempts a poll, and not the other way round.
LEMMA LaterPass ==
    ASSUME TimerInv, NEW p \in Passes, p = "poll" => MainRuns, at[p] # 0,
           NEW q \in Passes, at[q] # 0
    PROVE  Late(p) <= Late(q) /\ Late(p) \in Nat /\ Late(q) \in Nat
<1>1. Late(p) \in Nat /\ Late(q) \in Nat
  BY LateIs DEF TimerInv, TimerTypes
<1>2. p = q \/ (p = "isr" /\ q = "poll") \/ (p = "poll" /\ q = "isr")
  BY DEF Passes
<1>3. ~(p = "poll" /\ q = "isr")
  BY DEF MainRuns
<1> QED BY <1>1, <1>2, <1>3 DEF TimerInv, PassesInTime

\* A slot that is a whole period late is counted, and starts over when the pass began.
LEMMA MissKeeps ==
    ASSUME TimerInv, NEW p \in Passes, Miss(p)
    PROVE  TimerInv'
<1> DEFINE s == at[p]
           late == Since(now, passNow[p])
           counted == MissedPeriods(p) * Period[s]
<1>1. /\ s \in Slots /\ at[p] # 0 /\ ~calling[p] /\ TypeOK /\ Late(p) <= MaxLate
      /\ p = "poll" => MainRuns
  BY AtSlotFacts DEF Miss, TimerInv, TimerTypes, PassesInTime
<1>2. UNCHANGED <<now, timer, initialized, started, slotCount, passNow, fired, calling,
                  starting>> /\ Move(p)
  BY DEF Miss
<1>3. /\ nextTick' = [nextTick EXCEPT ![s] = DeadlineFrom(passNow[p], s)]
      /\ miscounted' = (miscounted \/
            (started /\ ~(counted <= owed[s] /\ owed[s] < counted + Period[s] + late)))
      /\ owed' = IF started THEN [owed EXCEPT ![s] = late] ELSE owed
  BY DEF Miss
<1>4. /\ now \in 0 .. TickMod - 1 /\ passNow[p] \in 0 .. TickMod - 1
      /\ nextTick \in [Slots -> 0 .. TickMod - 1] /\ owed \in [Slots -> Nat]
      /\ TickMod \in Nat /\ MaxLate \in Nat
  BY <1>1, TickFacts DEF TypeOK, TimerInv, TimerTypes
<1>5. late = Late(p) /\ late \in Nat /\ late <= MaxLate
  BY <1>1, LateIs DEF Late
<1>6. Period[s] \in Nat \ {0} /\ owed[s] \in Nat
  BY <1>1, <1>4, TickFacts
<1>7. DeadlineFrom(passNow[p], s) \in 0 .. TickMod - 1
  BY <1>1, <1>4, DeadlineIs
<1>8. started => counted <= owed[s] /\ owed[s] < counted + Period[s] + late
  <2> SUFFICES ASSUME started PROVE counted <= owed[s] /\ owed[s] < counted + Period[s] + late
    OBVIOUS
  <2> DEFINE d == owed[s] - Period[s] - Late(p)
  <2>1. Reached(passNow[p], nextTick[s])
    BY DEF Miss
  <2>2. d >= 0 /\ d \in Int /\ Behind(p) = d
    BY <1>1, <2>1, BehindIs
  <2>3. counted = (1 + d \div Period[s]) * Period[s]
    BY <2>2 DEF MissedPeriods
  <2>4. d \in Nat
    BY <2>2
  <2> HIDE DEF d, counted
  <2>5. counted \in Int /\ d < counted /\ counted <= d + Period[s]
    BY <1>6, <2>3, <2>4, MissedAre
  <2>6. d = owed[s] - Period[s] - late
    BY <1>5 DEF d
  <2> QED BY <1>5, <1>6, <2>5, <2>6
<1>9. ~miscounted'
  BY <1>3, <1>8 DEF TimerInv, TimerTypes
<1> HIDE DEF counted, late
<1>10. /\ owed' \in [Slots -> Nat] /\ nextTick' \in [Slots -> 0 .. TickMod - 1]
       /\ started => owed'[s] = late /\ \A r \in Slots \ {s} : owed'[r] = owed[r]
       /\ nextTick'[s] = DeadlineFrom(passNow[p], s)
       /\ \A r \in Slots \ {s} : nextTick'[r] = nextTick[r]
  BY <1>1, <1>3, <1>4, <1>5, <1>7
<1> HIDE DEF s
<1>11. ASSUME started, NEW q \in Passes, at[q] # 0,
              NEW r \in Passed(q) \cup (IF q = p THEN {at[p]} ELSE {})
       PROVE  owed'[r] < Period[r] + Late(q)
  <2>1. r \in Slots
    BY <1>1, <1>11 DEF Passed, s
  <2>2. late <= Late(q) /\ Late(q) \in Nat
    BY <1>1, <1>5, <1>11, LaterPass
  <2>3. CASE r = s
    BY <1>5, <1>6, <1>10, <1>11, <2>2, <2>3
  <2>4. CASE r # s
    <3>1. r \in Passed(q)
      BY <1>11, <2>4 DEF s
    <3>2. owed'[r] = owed[r]
      BY <1>10, <1>11, <2>1, <2>4
    <3> QED BY <1>11, <3>1, <3>2 DEF TimerInv, NoneLeftBehind
  <2> QED BY <2>3, <2>4
<1>c. calling'[p] = FALSE /\ \A q \in Passes \ {p} : calling'[q] = calling[q]
  BY <1>1, <1>2 DEF TypeOK
<1>12. PassesInTime' /\ NoneLeftBehind'
  BY <1>1, <1>2, <1>11, <1>c, MoveKeeps DEF s
<1>13. at' \in [Passes -> 0 .. NSlots + 1]
       /\ \A q \in Passes : calling'[q] => at'[q] \in Slots /\ fired'[q] < PerIsr
  BY <1>1, <1>2, MoveTypes DEF TypeOK, s
<1>14. TypeOK'
  BY <1>1, <1>2, <1>10, <1>13 DEF TypeOK, timer
<1>15. TimerTypes'
  BY <1>9, <1>10, <1>14 DEF TimerTypes
<1>16. ASSUME started, NEW r \in Slots
       PROVE  owed'[r] <= MaxLate + 1 /\ Stands(nextTick'[r], now' + Period[r] - owed'[r])
  <2>1. CASE r = s
    <3>1. owed'[r] = late /\ nextTick'[r] = DeadlineFrom(passNow[p], s) /\ now' = now
      BY <1>2, <1>10, <1>16, <2>1
    <3>2. DeadlineFrom(passNow[p], s) = IF passNow[p] + Period[s] < TickMod
              THEN passNow[p] + Period[s] ELSE passNow[p] + Period[s] - TickMod
      BY <1>1, <1>4, DeadlineIs
    <3>3. late = IF now >= passNow[p] THEN now - passNow[p] ELSE now - passNow[p] + TickMod
      BY <1>1, <1>5, LateIs
    <3>4. \/ nextTick'[r] = now' + Period[r] - owed'[r]
          \/ nextTick'[r] = now' + Period[r] - owed'[r] + TickMod
          \/ nextTick'[r] = now' + Period[r] - owed'[r] - TickMod
      BY <1>4, <1>5, <1>6, <1>7, <2>1, <3>1, <3>2, <3>3
    <3>5. now' \in Int /\ owed'[r] \in Int /\ nextTick'[r] \in 0 .. TickMod - 1
      BY <1>4, <1>5, <1>7, <3>1
    <3>6. Period[r] \in Int
      BY <1>6, <2>1
    <3> QED BY <1>4, <1>5, <3>1, <3>4, <3>5, <3>6 DEF Stands
  <2>2. CASE r # s
    <3>1. owed'[r] = owed[r] /\ nextTick'[r] = nextTick[r] /\ now' = now
      BY <1>2, <1>10, <1>16, <2>2
    <3> QED BY <1>16, <3>1 DEF TimerInv, TimerKnows
  <2> QED BY <2>1, <2>2
<1>17. TimerKnows'
  BY <1>2, <1>16 DEF TimerInv, TimerKnows
<1> QED BY <1>2, <1>12, <1>15, <1>17 DEF TimerInv

\* A slot that is claimed owes one period less, and the pass is at it while its callback
\* runs.
LEMMA ClaimKeeps ==
    ASSUME TimerInv, NEW p \in Passes, Claim(p)
    PROVE  TimerInv'
<1> DEFINE s == at[p]
<1>1. /\ s \in Slots /\ at[p] # 0 /\ ~calling[p] /\ TypeOK /\ Late(p) <= MaxLate
      /\ p = "poll" => MainRuns
      /\ fired[p] < PerIsr
  BY AtSlotFacts DEF Claim, TimerInv, TimerTypes, PassesInTime
<1>2. UNCHANGED <<now, timer, initialized, started, slotCount, at, passNow, fired, starting,
                  miscounted>>
  BY DEF Claim
<1>3. /\ nextTick' = [nextTick EXCEPT ![s] = DeadlineFrom(nextTick[s], s)]
      /\ owed' = IF started THEN [owed EXCEPT ![s] = owed[s] - Period[s]] ELSE owed
      /\ calling' = [calling EXCEPT ![p] = TRUE]
  BY DEF Claim
<1>4. /\ now \in 0 .. TickMod - 1 /\ nextTick \in [Slots -> 0 .. TickMod - 1]
      /\ owed \in [Slots -> Nat] /\ calling \in [Passes -> BOOLEAN]
      /\ TickMod \in Nat /\ MaxLate \in Nat
  BY <1>1, TickFacts DEF TypeOK, TimerInv, TimerTypes
<1>5. Late(p) \in Nat
  BY <1>1, LateIs
<1>6. Period[s] \in Nat \ {0} /\ owed[s] \in Nat /\ nextTick[s] \in 0 .. TickMod - 1
  BY <1>1, <1>4, TickFacts
<1>7. DeadlineFrom(nextTick[s], s) \in 0 .. TickMod - 1
  BY <1>1, <1>6, DeadlineIs
<1>8. started => /\ Late(p) <= owed[s] - Period[s]
                 /\ owed[s] - Period[s] < Period[s] + Late(p)
                 /\ owed[s] - Period[s] \in Nat
  <2> SUFFICES ASSUME started
               PROVE  /\ Late(p) <= owed[s] - Period[s]
                      /\ owed[s] - Period[s] < Period[s] + Late(p)
                      /\ owed[s] - Period[s] \in Nat
    OBVIOUS
  <2> DEFINE d == owed[s] - Period[s] - Late(p)
  <2>1. Reached(passNow[p], nextTick[s]) /\ Behind(p) < Period[s]
    BY DEF Claim
  <2>2. d >= 0 /\ d \in Int /\ Behind(p) = d
    BY <1>1, <2>1, BehindIs
  <2> QED BY <1>5, <1>6, <2>1, <2>2
<1> HIDE DEF s
<1>9. owed' \in [Slots -> Nat]
  BY <1>3, <1>4, <1>8
<1>10. /\ nextTick' \in [Slots -> 0 .. TickMod - 1]
       /\ nextTick'[s] = DeadlineFrom(nextTick[s], s)
       /\ \A r \in Slots \ {s} : nextTick'[r] = nextTick[r] /\ owed'[r] = owed[r]
       /\ started => owed'[s] = owed[s] - Period[s]
       /\ calling' \in [Passes -> BOOLEAN] /\ calling'[p]
       /\ \A q \in Passes \ {p} : calling'[q] = calling[q]
  BY <1>1, <1>3, <1>4, <1>7
<1>11. \A q \in Passes : calling'[q] => at'[q] \in Slots /\ fired'[q] < PerIsr
  BY <1>1, <1>2, <1>10 DEF TypeOK, s
<1>12. TypeOK'
  BY <1>1, <1>2, <1>10, <1>11 DEF TypeOK, timer
<1>13. TimerTypes'
  BY <1>2, <1>9, <1>12 DEF TimerInv, TimerTypes
<1>14. PassesInTime'
  BY <1>2, PassesRest DEF TimerInv
<1>15. ASSUME started, NEW r \in Slots
       PROVE  owed'[r] <= MaxLate + 1 /\ Stands(nextTick'[r], now' + Period[r] - owed'[r])
  <2>0. owed[r] <= MaxLate + 1 /\ Stands(nextTick[r], now + Period[r] - owed[r])
    BY <1>15 DEF TimerInv, TimerKnows
  <2>1. CASE r = s
    <3>1. /\ owed'[r] = owed[r] - Period[r] /\ nextTick'[r] = DeadlineFrom(nextTick[r], r)
          /\ now' = now /\ Period[r] \in Nat \ {0} /\ owed[r] \in Nat
          /\ nextTick[r] \in 0 .. TickMod - 1
      BY <1>2, <1>6, <1>10, <1>15, <2>1
    <3>2. DeadlineFrom(nextTick[r], r) = IF nextTick[r] + Period[r] < TickMod
              THEN nextTick[r] + Period[r] ELSE nextTick[r] + Period[r] - TickMod
      BY <3>1, DeadlineIs
    <3>3. \/ nextTick[r] = now + Period[r] - owed[r]
          \/ nextTick[r] = now + Period[r] - owed[r] + TickMod
          \/ nextTick[r] = now + Period[r] - owed[r] - TickMod
      BY <1>4, <2>0, <3>1 DEF Stands
    <3>4. nextTick'[r] \in 0 .. TickMod - 1 /\ owed'[r] \in Nat
      BY <1>8, <1>9, <1>10
    <3>5. Period[r] + MaxLate <= TickMod \div 2 /\ 2 * (TickMod \div 2) <= TickMod
          /\ TickMod \div 2 \in Nat
      BY TickFacts
    <3>6. \/ nextTick'[r] = now' + Period[r] - owed'[r]
          \/ nextTick'[r] = now' + Period[r] - owed'[r] + TickMod
          \/ nextTick'[r] = now' + Period[r] - owed'[r] - TickMod
      BY <1>4, <2>0, <3>1, <3>2, <3>3, <3>4, <3>5
    <3>7. now' \in Int /\ owed'[r] <= MaxLate + 1
      BY <1>4, <2>0, <3>1
    <3> QED BY <1>4, <3>1, <3>4, <3>6, <3>7 DEF Stands
  <2>2. CASE r # s
    <3>1. owed'[r] = owed[r] /\ nextTick'[r] = nextTick[r] /\ now' = now
      BY <1>2, <1>10, <2>2
    <3> QED BY <2>0, <3>1
  <2> QED BY <2>1, <2>2
<1>16. TimerKnows'
  BY <1>2, <1>15 DEF TimerInv, TimerKnows
<1>17. ASSUME started, NEW q \in Passes, at[q] # 0, NEW r \in Passed(q)'
       PROVE  owed'[r] < Period[r] + Late(q)'
  <2>1. Late(q)' = Late(q) /\ r \in Slots
    BY <1>2 DEF Late, Passed
  <2>2. Late(p) <= Late(q) /\ Late(q) \in Nat
    BY <1>1, <1>17, LaterPass
  <2>3. CASE r = s
    BY <1>5, <1>6, <1>8, <1>10, <1>17, <2>1, <2>2, <2>3
  <2>4. CASE r # s
    <3>1. r \in Passed(q)
      BY <1>2, <1>10, <2>1, <2>4 DEF Passed, s
    <3>2. owed'[r] = owed[r]
      BY <1>10, <2>1, <2>4
    <3> QED BY <1>17, <2>1, <3>1, <3>2 DEF TimerInv, NoneLeftBehind
  <2> QED BY <2>3, <2>4
<1>18. NoneLeftBehind'
  BY <1>2, <1>17 DEF NoneLeftBehind
<1> QED BY <1>2, <1>13, <1>14, <1>16, <1>18 DEF TimerInv

\* A callback returns: the pass has been at the slot, and goes on.
LEMMA CalledFacts ==
    ASSUME TimerInv, NEW p \in Passes, calling[p], Called(p)
    PROVE  /\ at[p] \in Slots /\ Move(p) /\ calling'[p] = FALSE
           /\ calling' \in [Passes -> BOOLEAN] /\ fired' \in [Passes -> 0 .. PerIsr]
           /\ at' \in [Passes -> 0 .. NSlots + 1]
           /\ \A q \in Passes \ {p} : calling'[q] = calling[q]
           /\ \A q \in Passes : calling'[q] => at'[q] \in Slots /\ fired'[q] < PerIsr
<1>1. /\ TypeOK /\ at[p] \in Slots /\ fired[p] < PerIsr
      /\ calling \in [Passes -> BOOLEAN] /\ fired \in [Passes -> 0 .. PerIsr]
  BY DEF TimerInv, TimerTypes, TypeOK
<1>2. /\ calling' = [calling EXCEPT ![p] = FALSE] /\ Move(p)
      /\ fired' = [fired EXCEPT ![p] = fired[p] + 1]
  BY DEF Called
<1>3. fired[p] + 1 \in 0 .. PerIsr
  BY <1>1, TickFacts
<1>4. at' \in [Passes -> 0 .. NSlots + 1] /\ \A q \in Passes \ {p} : at'[q] = at[q]
  BY <1>1, <1>2, MoveTypes
<1>5. /\ calling'[p] = FALSE /\ calling' \in [Passes -> BOOLEAN]
      /\ fired' \in [Passes -> 0 .. PerIsr]
      /\ \A q \in Passes \ {p} : calling'[q] = calling[q] /\ fired'[q] = fired[q]
  BY <1>1, <1>2, <1>3
<1>6. \A q \in Passes : calling'[q] => at'[q] \in Slots /\ fired'[q] < PerIsr
  BY <1>1, <1>4, <1>5 DEF TypeOK
<1> QED BY <1>1, <1>2, <1>4, <1>5, <1>6

\* The callback of a slot returns.
LEMMA CallbackKeeps ==
    ASSUME TimerInv, NEW p \in Passes, Callback(p)
    PROVE  TimerInv'
<1>1. calling[p] /\ Called(p) /\ UNCHANGED <<timer, table, owed>>
      /\ UNCHANGED <<now, passNow, starting, miscounted>>
  BY DEF Callback, Called
<1>2. UNCHANGED <<started, initialized, slotCount, nextTick, timerOn, callback, pending>>
  BY <1>1 DEF timer, table
<1>3. at[p] \in Slots /\ at[p] \in Passed(p)
  BY <1>1, CalledFacts DEF Passed
<1>4. started => \A q \in Passes : at[q] # 0 =>
          \A s \in Passed(q) \cup (IF q = p THEN {at[p]} ELSE {}) :
              owed'[s] < Period[s] + Late(q)
  BY <1>1, <1>3 DEF TimerInv, NoneLeftBehind
<1>5. PassesInTime' /\ NoneLeftBehind'
  BY <1>1, <1>2, <1>4, CalledFacts, MoveKeeps
<1>6. TypeOK
  BY DEF TimerInv, TimerTypes
<1>7. TypeOK'
  BY <1>1, <1>2, <1>6, CalledFacts DEF TypeOK
<1>8. TimerTypes' /\ TimerKnows'
  BY <1>1, <1>2, <1>7 DEF TimerInv, TimerTypes, TimerKnows
<1> QED BY <1>2, <1>5, <1>8 DEF TimerInv

\* A callback stops the timer.
LEMMA CallbackStopsKeeps ==
    ASSUME TimerInv, NEW p \in Passes, CallbackStops(p)
    PROVE  TimerInv'
<1>1. calling[p] /\ Called(p) /\ StopOrReset /\ UNCHANGED pending
      /\ UNCHANGED <<now, passNow, starting, miscounted>>
  BY DEF CallbackStops, Called
<1>2. TypeOK /\ at[p] \in Slots /\ Move(p)
  BY <1>1, CalledFacts DEF TimerInv, TimerTypes
<1>3. at[p] # 0 /\ \A q \in Passes \ {p} : at'[q] = at[q]
  BY <1>2, MoveTypes DEF Slots
<1>4. PassesInTime'
  BY <1>1, <1>3 DEF TimerInv, PassesInTime, Late, Passes
<1>5. TypeOK'
  BY <1>1, <1>2, CalledFacts, StopTypes DEF TypeOK
<1> QED BY <1>1, <1>4, <1>5, StopKeeps

\* A pass ends.
LEMMA EndPassKeeps ==
    ASSUME TimerInv, NEW p \in Passes, EndPass(p)
    PROVE  TimerInv'
<1>1. /\ UNCHANGED <<now, timer, table, calling, starting, history>> /\ ~calling[p]
      /\ at' = [at EXCEPT ![p] = 0] /\ passNow' = [passNow EXCEPT ![p] = 0]
      /\ fired' = [fired EXCEPT ![p] = 0]
  BY DEF EndPass, InPass
<1>2. UNCHANGED <<started, initialized, slotCount, nextTick, timerOn, callback, pending, owed,
                  miscounted>>
  BY <1>1 DEF timer, table, history
<1>3. TypeOK
  BY DEF TimerInv, TimerTypes
<1>4. 0 \in 0 .. NSlots + 1 /\ 0 \in 0 .. TickMod - 1 /\ 0 \in 0 .. PerIsr
  BY TickFacts
<1>5. /\ at' \in [Passes -> 0 .. NSlots + 1] /\ passNow' \in [Passes -> 0 .. TickMod - 1]
      /\ fired' \in [Passes -> 0 .. PerIsr] /\ at'[p] = 0
      /\ \A q \in Passes \ {p} : at'[q] = at[q] /\ passNow'[q] = passNow[q]
                                 /\ fired'[q] = fired[q]
  BY <1>1, <1>3, <1>4 DEF TypeOK
<1>6. \A q \in Passes : calling'[q] => at'[q] \in Slots /\ fired'[q] < PerIsr
  BY <1>1, <1>3, <1>5 DEF TypeOK
<1>7. TypeOK'
  BY <1>1, <1>2, <1>3, <1>5, <1>6 DEF TypeOK
<1>8. TimerTypes' /\ TimerKnows'
  BY <1>1, <1>2, <1>7 DEF TimerInv, TimerTypes, TimerKnows
<1>9. \A q \in Passes : at'[q] # 0 =>
          at[q] # 0 /\ Late(q)' = Late(q) /\ Passed(q)' = Passed(q)
  BY <1>1, <1>5 DEF Late, Passed
<1>10. PassesInTime'
  BY <1>9 DEF PassesInTime, TimerInv, Passes
<1>11. NoneLeftBehind'
  BY <1>2, <1>9 DEF NoneLeftBehind, TimerInv
<1> QED BY <1>2, <1>8, <1>10, <1>11 DEF TimerInv

\* What another interrupt does.
IrqCommits ==
    /\ MainRuns /\ ~started /\ initialized
    /\ Commit
    /\ UNCHANGED <<now, pass, starting, miscounted>>
IrqStopped ==
    /\ MainRuns
    /\ StopOrReset
    /\ UNCHANGED <<now, pending, pass, starting, miscounted>>

\* The steps outside the passes.
LEMMA MainKeeps ==
    ASSUME TimerInv,
           \/ InitTable \/ MainStops
           \/ BeginStart \/ FailStart \/ SetUp \/ CommitStart \/ GiveUpStart
           \/ IrqCommits \/ IrqStopped
           \/ Interrupt \/ Unanswered \/ Poll
    PROVE  TimerInv'
<1>0. TypeOK
  BY DEF TimerInv, TimerTypes
<1>1. ASSUME InitTable PROVE TimerInv'
  <2>1. \A s \in Slots : DeadlineFrom(now, s) \in 0 .. TickMod - 1
    BY <1>0, DeadlineIs DEF TypeOK
  <2>2. UNCHANGED <<now, timerOn, callback, pending, started, at, passNow, fired, calling,
                    starting, owed, miscounted>> /\ ~started
    BY <1>1 DEF InitTable, timer, pass, history
  <2>3. TypeOK'
    BY <1>0, <1>1, <2>1, <2>2 DEF TypeOK, InitTable
  <2>4. TimerTypes' /\ PassesInTime'
    BY <2>2, <2>3, PassesRest DEF TimerInv, TimerTypes
  <2> QED BY <1>1, <2>2, <2>4 DEF TimerInv, TimerKnows, NoneLeftBehind, InitTable
<1>2. ASSUME MainStops \/ IrqStopped PROVE TimerInv'
  <2>1. StopOrReset /\ UNCHANGED <<now, pending, at, passNow, fired, calling, starting,
                                   miscounted>>
    BY <1>2 DEF MainStops, IrqStopped, pass
  <2>2. TypeOK'
    BY <1>0, <2>1, StopTypes DEF TypeOK
  <2>3. PassesInTime'
    BY <2>1, PassesRest DEF TimerInv
  <2> QED BY <2>1, <2>2, <2>3, StopKeeps
<1>3. ASSUME BeginStart \/ FailStart \/ SetUp \/ GiveUpStart \/ Unanswered PROVE TimerInv'
  <2>1. UNCHANGED <<now, table, pass, history>>
    BY <1>3 DEF BeginStart, FailStart, SetUp, GiveUpStart, Unanswered
  <2>2. /\ timerOn' \in BOOLEAN /\ callback' \in BOOLEAN /\ pending' \in BOOLEAN
        /\ starting' \in {"no", "setUp", "commit"}
    BY <1>0, <1>3 DEF TypeOK, BeginStart, FailStart, SetUp, GiveUpStart, Unanswered, timer
  <2>3. TypeOK'
    BY <1>0, <2>1, <2>2 DEF TypeOK, table, pass, history
  <2> QED BY <2>1, <2>3, TimerRests
<1>4. ASSUME CommitStart \/ IrqCommits PROVE TimerInv'
  <2>1. initialized /\ Commit /\ starting' \in {"no", "setUp", "commit"}
        /\ UNCHANGED <<now, pass, miscounted>>
    BY <1>0, <1>4 DEF CommitStart, IrqCommits, TypeOK
  <2> QED BY <2>1, CommitKeeps
<1>5. ASSUME Interrupt PROVE TimerInv'
  <2>1. /\ at["isr"] = 0 /\ BeginPass("isr") /\ pending' \in BOOLEAN /\ "isr" \in Passes
        /\ UNCHANGED <<now, timerOn, callback, table, starting, history>>
    BY <1>5 DEF Interrupt, Passes
  <2> QED BY <2>1, BeginKeeps
<1>6. ASSUME Poll PROVE TimerInv'
  <2>1. /\ at["poll"] = 0 /\ BeginPass("poll") /\ pending' \in BOOLEAN /\ "poll" \in Passes
        /\ MainRuns /\ UNCHANGED <<now, timerOn, callback, table, starting, history>>
    BY <1>0, <1>6 DEF Poll, Passes, MainIdle, timer, TypeOK
  <2> QED BY <2>1, BeginKeeps
<1> QED BY <1>1, <1>2, <1>3, <1>4, <1>5, <1>6

\* The instance for a timer that another interrupt starts and stops takes the same steps,
\* and those of the interrupt.
LEMMA RaceSteps ==
    Race!Next =>
        \/ Tick
        \/ InitTable \/ MainStops
        \/ BeginStart \/ FailStart \/ SetUp \/ CommitStart \/ GiveUpStart
        \/ IrqCommits \/ IrqStopped
        \/ Interrupt \/ Unanswered \/ Poll
        \/ \E p \in Passes : Dispatch(p)
<1> USE DEF Race!timer, timer, Race!table, table, Race!pass, pass, Race!history, history,
     Race!Slots, Slots, Race!Passes, Passes, Race!Plus, Plus, Race!Since, Since,
     Race!MainRuns, MainRuns, Race!MainIdle, MainIdle
<1>1. Race!Tick => Tick
  BY DEF Race!Tick, Tick
<1>2. Race!InitTable => InitTable
  BY DEF Race!InitTable, InitTable, Race!DeadlineFrom, DeadlineFrom
<1>3. Race!MainStops => MainStops
  BY DEF Race!MainStops, MainStops, Race!StopLocked, StopLocked, Race!Stop, Stop, Race!Reset,
     Reset, Race!StopOrReset, StopOrReset, Race!NoneOwed, NoneOwed
<1>4. Race!IrqStops => IrqStopped
  BY DEF Race!IrqStops, IrqStopped, Race!StopLocked, StopLocked, Race!Stop, Stop, Race!Reset,
         Reset, Race!StopOrReset, StopOrReset, Race!NoneOwed, NoneOwed
<1>5. Race!CommitStart => CommitStart
  BY DEF Race!CommitStart, CommitStart, Race!Commit, Commit, Race!DeadlineFrom, DeadlineFrom,
     Race!NoneOwed, NoneOwed
<1>6. Race!IrqStarts => IrqCommits
  BY DEF Race!IrqStarts, IrqCommits, Race!Commit, Commit, Race!DeadlineFrom, DeadlineFrom,
         Race!NoneOwed, NoneOwed
<1>7. /\ (Race!BeginStart => BeginStart) /\ (Race!FailStart => FailStart)
      /\ (Race!SetUp => SetUp) /\ (Race!GiveUpStart => GiveUpStart)
      /\ (Race!Unanswered => Unanswered)
  BY DEF Race!BeginStart, BeginStart, Race!FailStart, FailStart, Race!SetUp, SetUp,
     Race!GiveUpStart, GiveUpStart, Race!Unanswered, Unanswered
<1>8. (Race!Interrupt => Interrupt) /\ (Race!Poll => Poll)
  BY DEF Race!Interrupt, Interrupt, Race!Poll, Poll, Race!BeginPass, BeginPass
<1>9. ASSUME NEW p \in Passes, Race!Dispatch(p) PROVE Dispatch(p)
  <2>1. Race!NotDue(p) => NotDue(p)
    BY DEF Race!NotDue, NotDue, Race!AtSlot, AtSlot, Race!InPass, InPass, Race!OutOfSlots,
       OutOfSlots, Race!Runs, Runs, Race!Move, Move, Race!Reached, Reached
  <2>2. Race!Miss(p) => Miss(p)
    BY DEF Race!Miss, Miss, Race!AtSlot, AtSlot, Race!InPass, InPass, Race!OutOfSlots,
       OutOfSlots, Race!Runs, Runs, Race!Move, Move, Race!Reached, Reached, Race!Behind,
       Behind, Race!MissedPeriods, MissedPeriods, Race!DeadlineFrom, DeadlineFrom
  <2>3. Race!Claim(p) => Claim(p)
    BY DEF Race!Claim, Claim, Race!AtSlot, AtSlot, Race!InPass, InPass, Race!OutOfSlots,
       OutOfSlots, Race!Runs, Runs, Race!Reached, Reached, Race!Behind, Behind,
       Race!DeadlineFrom, DeadlineFrom
  <2>4. Race!Callback(p) => Callback(p)
    BY DEF Race!Callback, Callback, Race!Runs, Runs, Race!Called, Called, Race!Move, Move
  <2>5. Race!CallbackStops(p) => CallbackStops(p)
    BY DEF Race!CallbackStops, CallbackStops, Race!Runs, Runs, Race!Called, Called, Race!Move,
       Move, Race!StopLocked, StopLocked, Race!Stop, Stop, Race!Reset, Reset,
       Race!StopOrReset, StopOrReset, Race!NoneOwed, NoneOwed
  <2>6. Race!EndPass(p) => EndPass(p)
    BY DEF Race!EndPass, EndPass, Race!InPass, InPass, Race!OutOfSlots, OutOfSlots, Race!Runs,
       Runs
  <2> QED BY <1>9, <2>1, <2>2, <2>3, <2>4, <2>5, <2>6 DEF Race!Dispatch, Dispatch
<1> QED BY <1>1, <1>2, <1>3, <1>4, <1>5, <1>6, <1>7, <1>8, <1>9 DEF Race!Next

\* Every step of the timer, and of the timer that another interrupt starts and stops.
LEMMA TimerStep ==
    ASSUME TimerInv, Next \/ Race!Next
    PROVE  TimerInv'
<1> DEFINE MainSteps ==
        \/ InitTable \/ MainStops
        \/ BeginStart \/ FailStart \/ SetUp \/ CommitStart \/ GiveUpStart
        \/ IrqCommits \/ IrqStopped
        \/ Interrupt \/ Unanswered \/ Poll
<1>1. Next => Tick \/ MainSteps \/ \E p \in Passes : Dispatch(p)
  BY DEF Next, IrqStarts, IrqStops, IrqCommits, IrqStopped
<1>2. Race!Next => Tick \/ MainSteps \/ \E p \in Passes : Dispatch(p)
  BY RaceSteps
<1>3. ASSUME NEW p \in Passes, Dispatch(p) PROVE TimerInv'
  BY <1>3, NotDueKeeps, MissKeeps, ClaimKeeps, CallbackKeeps, CallbackStopsKeeps,
     EndPassKeeps DEF Dispatch
<1> QED BY <1>1, <1>2, <1>3, TickKeeps, MainKeeps

-----------------------------------------------------------------------------
(* The watchdog                                                                *)

\* The instance counts as the module does.
LEMMA WdgCardinality == \A S : Wdg!Cardinality(S) = Cardinality(S)
BY DEF Wdg!Cardinality, Cardinality

WdgLocals ==
    [name : Wdg!Names \cup {""}, at : Nat, count : Nat, ok : BOOLEAN, current : BOOLEAN,
     looked : SUBSET Wdg!Others, stalled : BOOLEAN, undisturbed : BOOLEAN]

\* Only who feeds is in a call of bm_wdg_feed, which is at the gate if there is one.
WdgTypes ==
    /\ setup \in Setups
    /\ Wdg!TypeOK
    /\ loc \in [Wdg!Ctx -> WdgLocals]
    /\ \A c \in Wdg!Ctx : Wdg!InFeed(c) => c \in Wdg!Feeders

\* Who counts as fed has checked in, no longer ago than its stamp says and since the
\* hardware was last fed.
CheckInsCount ==
    /\ fed \subseteq sinceHw
    /\ \A m \in fed : called[m] <= age[m]
    /\ \A c \in Wdg!Ctx : pc[c] = "stamping" =>
          /\ loc[c].name \in Wdg!Names /\ loc[c].at \in Wdg!Ago(Wdg!Timeout)
          /\ called[loc[c].name] <= loc[c].at

\* A call that has not been told of a change has not seen one.
ChangesAreTold ==
    \A c \in Wdg!Ctx : Wdg!InFeed(c) /\ loc[c].current => loc[c].undisturbed

\* The safe-stop hook was called when the gate closed.
StopsWhenClosed == stops <= 1 /\ (~stopped => stops = 0)

\* What the gate knows of a CPU whose heartbeat has not changed, when the main loop alone
\* asks it: since when, but for the time between the clock and the look.
GateKnows ==
    /\ \A c \in Wdg!Ctx : pc[c] = "looking" => loc[c].at \in Wdg!Ago(Wdg!HbTimeout)
    /\ setup.feeders = {"main"} =>
        /\ \A c \in Wdg!Ctx : pc[c] = "looking" => loc[c].at <= Wdg!GateDelay
        /\ \A p \in seen : hb[p] = lastHb[p] => changeAge[p] <= silent[p] + Wdg!GateDelay
        /\ \A p \in seen : pc["main"] = "looking" => loc["main"].at <= changeAge[p]

WdgInv == WdgTypes /\ CheckInsCount /\ ChangesAreTold /\ StopsWhenClosed /\ GateKnows

\* The use of the watchdog.
LEMMA SetupFacts ==
    ASSUME setup \in Setups
    PROVE  /\ IsFiniteSet(Wdg!Names) /\ Wdg!Feeders \subseteq Wdg!Ctx
           /\ Wdg!Duty \in [Wdg!Ctx -> SUBSET Wdg!Names]
           /\ Wdg!MaxModules \in Nat /\ Wdg!Timeout \in Nat /\ Wdg!HbTimeout \in Nat
           /\ Wdg!GateDelay \in Nat /\ Wdg!MaxChanges \in Nat /\ Wdg!HbMod \in Nat \ {0}
BY TimingAssumption DEF Wdg!WdgAssumption, Wdg!Names, Wdg!Feeders, Wdg!Ctx, Wdg!Main, Wdg!Isr,
   Wdg!Duty, Wdg!MaxModules, Wdg!Timeout, Wdg!HbTimeout, Wdg!GateDelay, Wdg!MaxChanges,
   Wdg!HbMod, Wdg!IsFiniteSet, IsFiniteSet

\* Nobody is registered to begin with.
LEMMA WdgStarts == Wdg!Init => WdgInv
<1> SUFFICES ASSUME Wdg!Init PROVE WdgInv
  OBVIOUS
<1>1. setup \in Setups
  BY DEF Wdg!Init
<1>2. /\ Wdg!MaxModules \in Nat /\ Wdg!Timeout \in Nat /\ Wdg!HbTimeout \in Nat
      /\ Wdg!GateDelay \in Nat /\ Wdg!MaxChanges \in Nat /\ Wdg!HbMod \in Nat \ {0}
  BY <1>1, SetupFacts
<1>3. /\ registered = {} /\ fed = {} /\ sinceHw = {} /\ seen = {} /\ stops = 0
      /\ changes = 0 /\ frozen = FALSE /\ stopped = FALSE
      /\ \A c \in Wdg!Ctx : pc[c] = "idle"
  BY DEF Wdg!Init
<1>4. Cardinality(registered) = 0
  BY <1>3, FS_EmptySet
<1>5. Wdg!TypeOK
  <2>1. registered \subseteq Wdg!Names /\ Wdg!Cardinality(registered) <= Wdg!MaxModules
    BY <1>2, <1>3, <1>4, WdgCardinality
  <2>2. /\ 0 \in Wdg!Ago(Wdg!Timeout) /\ Wdg!Timeout + 1 \in Wdg!Ago(Wdg!Timeout)
        /\ 0 \in Wdg!Ago(2 * Wdg!HbTimeout)
        /\ Wdg!HbTimeout + 1 \in Wdg!Ago(2 * Wdg!HbTimeout)
        /\ 0 \in 0 .. Wdg!HbMod - 1 /\ 0 \in 0 .. Wdg!MaxChanges /\ 0 \in Nat
    BY <1>2 DEF Wdg!Ago
  <2>3. /\ age \in [Wdg!Names -> Wdg!Ago(Wdg!Timeout)]
        /\ called \in [Wdg!Names -> Wdg!Ago(Wdg!Timeout)]
    BY <2>2 DEF Wdg!Init
  <2>4. /\ hb \in [Wdg!Others -> 0 .. Wdg!HbMod - 1]
        /\ lastHb \in [Wdg!Others -> 0 .. Wdg!HbMod - 1]
        /\ changeAge \in [Wdg!Others -> Wdg!Ago(2 * Wdg!HbTimeout)]
        /\ silent \in [Wdg!Others -> Wdg!Ago(2 * Wdg!HbTimeout)]
    BY <2>2 DEF Wdg!Init
  <2>5. pc \in [Wdg!Ctx -> {"idle", "stamping", "gate", "looking", "deciding"}]
    BY DEF Wdg!Init
  <2> QED BY <1>3, <2>1, <2>2, <2>3, <2>4, <2>5 DEF Wdg!TypeOK
<1>6. Wdg!NoLocals \in WdgLocals
  BY DEF Wdg!NoLocals, WdgLocals
<1>7. loc \in [Wdg!Ctx -> WdgLocals]
  BY <1>6 DEF Wdg!Init
<1>8. WdgTypes
  BY <1>1, <1>3, <1>5, <1>7 DEF WdgTypes, Wdg!InFeed
<1>9. CheckInsCount /\ ChangesAreTold /\ StopsWhenClosed
  BY <1>3 DEF CheckInsCount, ChangesAreTold, StopsWhenClosed, Wdg!InFeed
<1>10. GateKnows
  <2>1. "main" \in Wdg!Ctx
    BY DEF Wdg!Ctx, Wdg!Main
  <2> QED BY <1>3, <2>1 DEF GateKnows
<1> QED BY <1>8, <1>9, <1>10 DEF WdgInv

\* The use of the watchdog does not change.
LEMMA SetupStays ==
    ASSUME setup' = setup
    PROVE  /\ UNCHANGED <<Wdg!Names, Wdg!Feeders, Wdg!Duty, Wdg!MaxModules, Wdg!Timeout>>
           /\ UNCHANGED <<Wdg!HbTimeout, Wdg!GateDelay, Wdg!MaxChanges, Wdg!HbMod>>
           /\ UNCHANGED <<Wdg!Others, WdgLocals>>
BY DEF Wdg!Names, Wdg!Feeders, Wdg!Duty, Wdg!MaxModules, Wdg!Timeout, Wdg!HbTimeout,
   Wdg!GateDelay, Wdg!MaxChanges, Wdg!HbMod, Wdg!Others, WdgLocals

\* The calls under way, after a step that leaves what they know or takes it from them.
LEMMA ToldRests ==
    ASSUME ChangesAreTold,
           \A c \in Wdg!Ctx : Wdg!InFeed(c)' /\ loc'[c].current =>
               \/ Wdg!InFeed(c) /\ loc[c].current /\ loc'[c].undisturbed = loc[c].undisturbed
               \/ loc'[c].undisturbed
    PROVE  ChangesAreTold'
BY DEF ChangesAreTold

\* What the gate knows, after a step that does not concern it.
LEMMA GateRests ==
    ASSUME GateKnows, UNCHANGED <<setup, hb, lastHb, seen, changeAge, silent>>,
           \A c \in Wdg!Ctx : pc'[c] = "looking" =>
               pc[c] = "looking" /\ loc'[c].at = loc[c].at
    PROVE  GateKnows'
<1>1. "main" \in Wdg!Ctx
  BY DEF Wdg!Ctx, Wdg!Main
<1> QED BY <1>1, SetupStays DEF GateKnows, Wdg!Ago

\* What a registration or a reset does to the calls under way.
LEMMA DisturbFacts ==
    ASSUME loc \in [Wdg!Ctx -> WdgLocals], loc' = Wdg!Disturb, setup' = setup, pc' = pc
    PROVE  /\ loc' \in [Wdg!Ctx -> WdgLocals]
           /\ \A c \in Wdg!Ctx : loc'[c].at = loc[c].at /\ loc'[c].name = loc[c].name
           /\ \A c \in Wdg!Ctx : Wdg!InFeed(c)' <=> Wdg!InFeed(c)
           /\ \A c \in Wdg!Ctx : Wdg!InFeed(c) => loc'[c].current = FALSE
<1> DEFINE D(c) == [loc[c] EXCEPT !.current = FALSE, !.undisturbed = FALSE]
<1>1. ASSUME NEW c \in Wdg!Ctx
      PROVE  /\ D(c) \in WdgLocals /\ loc[c] \in WdgLocals
             /\ D(c).at = loc[c].at /\ D(c).name = loc[c].name /\ D(c).current = FALSE
  BY DEF WdgLocals
<1>2. \A c \in Wdg!Ctx : loc'[c] = IF Wdg!InFeed(c) THEN D(c) ELSE loc[c]
  BY DEF Wdg!Disturb
<1>3. loc' = [c \in Wdg!Ctx |-> IF Wdg!InFeed(c) THEN D(c) ELSE loc[c]]
  BY DEF Wdg!Disturb
<1> HIDE DEF D
<1>4. loc' \in [Wdg!Ctx -> WdgLocals]
  BY <1>1, <1>3
<1>5. \A c \in Wdg!Ctx : Wdg!InFeed(c)' <=> Wdg!InFeed(c)
  BY DEF Wdg!InFeed
<1>6. \A c \in Wdg!Ctx : loc'[c].at = loc[c].at /\ loc'[c].name = loc[c].name
  BY <1>1, <1>2
<1>7. \A c \in Wdg!Ctx : Wdg!InFeed(c) => loc'[c].current = FALSE
  BY <1>1, <1>2
<1> QED BY <1>4, <1>5, <1>6, <1>7

\* A module registers, or the registry is reset, which changes who is in it.
LEMMA ChangeKeeps ==
    ASSUME WdgInv, NEW R \in SUBSET Wdg!Names, Cardinality(R) <= Wdg!MaxModules,
           NEW S \in SUBSET R, NEW F \in SUBSET S, F \subseteq fed,
           registered' = R, fed' = F, sinceHw' = S, frozen' \in BOOLEAN,
           Wdg!Change, loc' = Wdg!Disturb,
           UNCHANGED <<setup, age, pc, hb, lastHb, seen, changeAge, stopped, called, silent,
                       stops>>
    PROVE  WdgInv'
<1>1. loc \in [Wdg!Ctx -> WdgLocals] /\ Wdg!TypeOK
  BY DEF WdgInv, WdgTypes
<1>2. /\ loc' \in [Wdg!Ctx -> WdgLocals]
      /\ \A c \in Wdg!Ctx : loc'[c].at = loc[c].at /\ loc'[c].name = loc[c].name
      /\ \A c \in Wdg!Ctx : Wdg!InFeed(c)' <=> Wdg!InFeed(c)
      /\ \A c \in Wdg!Ctx : Wdg!InFeed(c) => loc'[c].current = FALSE
  BY <1>1, DisturbFacts
<1>3. changes' \in 0 .. Wdg!MaxChanges
  <2>1. changes \in 0 .. Wdg!MaxChanges /\ changes < Wdg!MaxChanges /\ changes' = changes + 1
        /\ Wdg!MaxChanges \in Nat
    BY <1>1, SetupFacts DEF Wdg!TypeOK, Wdg!Change, WdgInv, WdgTypes
  <2> QED BY <2>1
<1>4. Wdg!TypeOK'
  BY <1>1, <1>3, SetupStays, WdgCardinality DEF Wdg!TypeOK, Wdg!Ago
<1>5. WdgTypes'
  BY <1>2, <1>4, SetupStays DEF WdgInv, WdgTypes
<1>6. CheckInsCount'
  BY <1>2, SetupStays DEF WdgInv, CheckInsCount, Wdg!Ago
<1>7. ChangesAreTold'
  BY <1>2, ToldRests DEF WdgInv
<1>8. StopsWhenClosed' /\ GateKnows'
  BY <1>2, GateRests DEF WdgInv, StopsWhenClosed
<1> QED BY <1>5, <1>6, <1>7, <1>8 DEF WdgInv

\* A module registers, which it has not done: it has not checked in.
LEMMA RegisterKeeps ==
    ASSUME WdgInv, NEW c \in Wdg!Ctx, NEW m \in Wdg!Names, Wdg!Register(c, m)
    PROVE  WdgInv'
<1> DEFINE R == registered \cup {m}
<1>1. registered \subseteq Wdg!Names /\ fed \subseteq sinceHw /\ sinceHw \subseteq registered
      /\ IsFiniteSet(Wdg!Names) /\ Wdg!MaxModules \in Nat
  BY SetupFacts DEF WdgInv, WdgTypes, Wdg!TypeOK, CheckInsCount
<1>2. IsFiniteSet(registered) /\ Cardinality(registered) \in Nat
  BY <1>1, FS_Subset, FS_CardinalityType
<1>3. m \notin registered /\ Cardinality(registered) < Wdg!MaxModules
  BY WdgCardinality DEF Wdg!Register
<1>4. Cardinality(R) <= Wdg!MaxModules
  <2>1. Cardinality(R) = Cardinality(registered) + 1
    BY <1>2, <1>3, FS_AddElement
  <2> QED BY <1>1, <1>2, <1>3, <2>1
<1>5. R \in SUBSET Wdg!Names /\ sinceHw \ {m} \in SUBSET R
      /\ fed \ {m} \in SUBSET (sinceHw \ {m}) /\ fed \ {m} \subseteq fed
  BY <1>1
<1>6. /\ registered' = R /\ fed' = fed \ {m} /\ sinceHw' = sinceHw \ {m}
      /\ Wdg!Change /\ loc' = Wdg!Disturb
      /\ UNCHANGED <<setup, frozen, age, pc, hb, lastHb, seen, changeAge, stopped, called,
                     silent, stops>>
  BY DEF Wdg!Register, Wdg!gate
<1>7. frozen' \in BOOLEAN
  BY <1>6 DEF WdgInv, WdgTypes, Wdg!TypeOK
<1> HIDE DEF R
<1> QED BY <1>4, <1>5, <1>6, <1>7, ChangeKeeps

\* The registry is emptied.
LEMMA WdgResetKeeps ==
    ASSUME WdgInv, NEW c \in Wdg!Ctx, Wdg!Reset(c)
    PROVE  WdgInv'
<1>1. /\ registered' = {} /\ fed' = {} /\ sinceHw' = {} /\ frozen' \in BOOLEAN
      /\ Wdg!Change /\ loc' = Wdg!Disturb
      /\ UNCHANGED <<setup, age, pc, hb, lastHb, seen, changeAge, stopped, called, silent,
                     stops>>
  BY DEF Wdg!Reset, Wdg!gate
<1>2. Cardinality({}) <= Wdg!MaxModules
  BY FS_EmptySet, SetupFacts DEF WdgInv, WdgTypes
<1>3. {} \in SUBSET Wdg!Names /\ {} \in SUBSET {} /\ {} \subseteq fed
  OBVIOUS
<1> QED BY <1>1, <1>2, <1>3, ChangeKeeps

\* A module checks in: its call is as old as the time it has taken.
LEMMA CheckInKeeps ==
    ASSUME WdgInv, NEW c \in Wdg!Ctx, NEW m \in Wdg!Names, Wdg!CheckIn(c, m)
    PROVE  WdgInv'
<1>1. /\ pc[c] = "idle"
      /\ pc' = [pc EXCEPT ![c] = "stamping"]
      /\ loc' = [loc EXCEPT ![c] = [Wdg!NoLocals EXCEPT !.name = m]]
      /\ called' = [called EXCEPT ![m] = 0]
      /\ UNCHANGED <<setup, registered, fed, age, frozen, hb, lastHb, seen, changeAge, stopped,
                     sinceHw, silent, stops, changes>>
  BY DEF Wdg!CheckIn, Wdg!At, Wdg!Goto, Wdg!registry, Wdg!gate
<1>2. Wdg!TypeOK /\ loc \in [Wdg!Ctx -> WdgLocals] /\ setup \in Setups
  BY DEF WdgInv, WdgTypes
<1> DEFINE l == [Wdg!NoLocals EXCEPT !.name = m]
<1>3. l \in WdgLocals /\ l.name = m /\ l.at = 0
  BY DEF Wdg!NoLocals, WdgLocals
<1> HIDE DEF l
<1>4. /\ loc' \in [Wdg!Ctx -> WdgLocals] /\ loc'[c] = l
      /\ \A d \in Wdg!Ctx \ {c} : loc'[d] = loc[d]
  BY <1>1, <1>2, <1>3 DEF l
<1>5. /\ pc' \in [Wdg!Ctx -> {"idle", "stamping", "gate", "looking", "deciding"}]
      /\ pc'[c] = "stamping" /\ \A d \in Wdg!Ctx \ {c} : pc'[d] = pc[d]
  BY <1>1, <1>2 DEF Wdg!TypeOK
<1>6. 0 \in Wdg!Ago(Wdg!Timeout)
  BY <1>2, SetupFacts DEF Wdg!Ago
<1>7. /\ called' \in [Wdg!Names -> Wdg!Ago(Wdg!Timeout)] /\ called'[m] = 0
      /\ \A n \in Wdg!Names \ {m} : called'[n] = called[n]
  BY <1>1, <1>2, <1>6 DEF Wdg!TypeOK
<1>8. Wdg!TypeOK'
  BY <1>1, <1>2, <1>5, <1>7, SetupStays DEF Wdg!TypeOK, Wdg!Ago
<1>9. WdgTypes'
  BY <1>1, <1>4, <1>5, <1>8, SetupStays DEF WdgInv, WdgTypes, Wdg!InFeed
<1>10. \A n \in Wdg!Names : age[n] \in Nat /\ called[n] \in Nat
  BY <1>2, SetupFacts DEF Wdg!TypeOK, Wdg!Ago
<1>11. CheckInsCount'
  <2>1. fed \subseteq Wdg!Names
    BY <1>2 DEF Wdg!TypeOK
  <2>2. \A n \in fed' : called'[n] <= age'[n]
    BY <1>1, <1>7, <1>10, <2>1 DEF WdgInv, CheckInsCount
  <2>3. ASSUME NEW d \in Wdg!Ctx, pc'[d] = "stamping"
        PROVE  /\ loc'[d].name \in Wdg!Names /\ loc'[d].at \in Wdg!Ago(Wdg!Timeout)
               /\ called'[loc'[d].name] <= loc'[d].at
    <3>1. CASE d = c
      BY <1>3, <1>4, <1>6, <1>7, <3>1
    <3>2. CASE d # c
      <4>1. loc'[d] = loc[d] /\ loc[d].name \in Wdg!Names
            /\ loc[d].at \in Wdg!Ago(Wdg!Timeout)
            /\ called[loc[d].name] <= loc[d].at
        BY <1>4, <1>5, <2>3, <3>2 DEF WdgInv, CheckInsCount
      <4>2. loc[d].at \in Nat
        BY <1>2 DEF WdgLocals
      <4> QED BY <1>7, <4>1, <4>2
    <3> QED BY <3>1, <3>2
  <2>4. UNCHANGED <<Wdg!Names, Wdg!Timeout>> /\ fed' \subseteq sinceHw'
    BY <1>1, SetupStays DEF WdgInv, CheckInsCount
  <2> QED BY <2>2, <2>3, <2>4 DEF CheckInsCount, Wdg!Ago
<1>12. ChangesAreTold'
  BY <1>4, <1>5, ToldRests DEF WdgInv, Wdg!InFeed
<1>13. StopsWhenClosed' /\ GateKnows'
  BY <1>1, <1>4, <1>5, GateRests DEF WdgInv, StopsWhenClosed
<1> QED BY <1>9, <1>11, <1>12, <1>13 DEF WdgInv

\* A call comes back.
LEMMA ReturnFacts ==
    ASSUME loc \in [Wdg!Ctx -> WdgLocals],
           pc \in [Wdg!Ctx -> {"idle", "stamping", "gate", "looking", "deciding"}],
           NEW c \in Wdg!Ctx, Wdg!Return(c), setup' = setup
    PROVE  /\ pc' \in [Wdg!Ctx -> {"idle", "stamping", "gate", "looking", "deciding"}]
           /\ loc' \in [Wdg!Ctx -> WdgLocals]
           /\ pc'[c] = "idle"
           /\ \A d \in Wdg!Ctx \ {c} : pc'[d] = pc[d] /\ loc'[d] = loc[d]
<1>1. pc' = [pc EXCEPT ![c] = "idle"] /\ loc' = [loc EXCEPT ![c] = Wdg!NoLocals]
  BY DEF Wdg!Return, Wdg!Goto
<1>2. Wdg!NoLocals \in WdgLocals
  BY DEF Wdg!NoLocals, WdgLocals
<1> QED BY <1>1, <1>2

\* The stamp is set: the module counts as fed, if it is registered.
LEMMA StampKeeps ==
    ASSUME WdgInv, NEW c \in Wdg!Ctx, Wdg!Stamp(c)
    PROVE  WdgInv'
<1> DEFINE m == loc[c].name
<1>1. /\ pc[c] = "stamping" /\ Wdg!Return(c)
      /\ IF m \in registered
         THEN /\ fed' = fed \cup {m}
              /\ age' = [age EXCEPT ![m] = loc[c].at]
              /\ sinceHw' = sinceHw \cup {m}
         ELSE UNCHANGED <<fed, age, sinceHw>>
      /\ UNCHANGED <<setup, registered, frozen, hb, lastHb, seen, changeAge, stopped, called,
                     silent, stops, changes>>
  BY DEF Wdg!Stamp, Wdg!At, Wdg!gate
<1>2. Wdg!TypeOK /\ loc \in [Wdg!Ctx -> WdgLocals] /\ setup \in Setups
      /\ pc \in [Wdg!Ctx -> {"idle", "stamping", "gate", "looking", "deciding"}]
  BY DEF WdgInv, WdgTypes, Wdg!TypeOK
<1>3. /\ pc' \in [Wdg!Ctx -> {"idle", "stamping", "gate", "looking", "deciding"}]
      /\ loc' \in [Wdg!Ctx -> WdgLocals]
      /\ pc'[c] = "idle"
      /\ \A d \in Wdg!Ctx \ {c} : pc'[d] = pc[d] /\ loc'[d] = loc[d]
  BY <1>1, <1>2, ReturnFacts
<1>4. m \in Wdg!Names /\ called[m] <= loc[c].at /\ loc[c].at \in Wdg!Ago(Wdg!Timeout)
  BY <1>1 DEF WdgInv, CheckInsCount
<1> HIDE DEF m
<1>5. /\ fed \subseteq registered /\ sinceHw \subseteq registered /\ fed \subseteq sinceHw
      /\ registered \subseteq Wdg!Names
      /\ age \in [Wdg!Names -> Wdg!Ago(Wdg!Timeout)]
      /\ \A n \in fed : called[n] <= age[n]
  BY <1>2 DEF Wdg!TypeOK, WdgInv, CheckInsCount
<1>6. /\ fed' \subseteq registered /\ sinceHw' \subseteq registered /\ fed' \subseteq sinceHw'
      /\ age' \in [Wdg!Names -> Wdg!Ago(Wdg!Timeout)]
      /\ \A n \in fed' : called[n] <= age'[n]
  <2>1. CASE m \in registered
    BY <1>1, <1>4, <1>5, <2>1
  <2>2. CASE m \notin registered
    BY <1>1, <1>5, <2>2
  <2> QED BY <2>1, <2>2
<1>7. UNCHANGED <<Wdg!Names, Wdg!Timeout, Wdg!HbTimeout, Wdg!HbMod, Wdg!MaxChanges>>
      /\ UNCHANGED <<Wdg!MaxModules, Wdg!Others, Wdg!Feeders, WdgLocals>>
  BY <1>1, SetupStays
<1>8. Wdg!TypeOK'
  BY <1>1, <1>2, <1>3, <1>6, <1>7 DEF Wdg!TypeOK, Wdg!Ago
<1>9. WdgTypes'
  BY <1>1, <1>3, <1>7, <1>8 DEF WdgInv, WdgTypes, Wdg!InFeed
<1>10. CheckInsCount'
  BY <1>1, <1>3, <1>6, <1>7 DEF WdgInv, CheckInsCount, Wdg!Ago
<1>11. ChangesAreTold'
  BY <1>3, ToldRests DEF WdgInv, Wdg!InFeed
<1>12. StopsWhenClosed' /\ GateKnows'
  BY <1>1, <1>3, GateRests DEF WdgInv, StopsWhenClosed
<1> QED BY <1>9, <1>10, <1>11, <1>12 DEF WdgInv

WdgPcs == {"idle", "stamping", "gate", "looking", "deciding"}

\* A call goes on, and leaves the registry alone: what remains is what the gate knows.
LEMMA CallKeeps ==
    ASSUME WdgInv, NEW c \in Wdg!Ctx, NEW g \in WdgPcs \ {"stamping"}, NEW l \in WdgLocals,
           pc' = [pc EXCEPT ![c] = g], loc' = [loc EXCEPT ![c] = l],
           g # "idle" => c \in Wdg!Feeders /\ (l.current => l.undisturbed),
           UNCHANGED <<setup, registered, fed, age, hb, called, sinceHw, silent, changes>>,
           frozen' \in BOOLEAN, seen' \subseteq Wdg!Others,
           lastHb' \in [Wdg!Others -> 0 .. Wdg!HbMod - 1],
           changeAge' \in [Wdg!Others -> Wdg!Ago(2 * Wdg!HbTimeout)],
           stopped' \in BOOLEAN, stops' \in Nat, StopsWhenClosed', GateKnows'
    PROVE  WdgInv'
<1>1. Wdg!TypeOK /\ loc \in [Wdg!Ctx -> WdgLocals] /\ pc \in [Wdg!Ctx -> WdgPcs]
  BY DEF WdgInv, WdgTypes, Wdg!TypeOK, WdgPcs
<1>2. /\ pc' \in [Wdg!Ctx -> WdgPcs] /\ loc' \in [Wdg!Ctx -> WdgLocals]
      /\ pc'[c] = g /\ loc'[c] = l
      /\ \A d \in Wdg!Ctx \ {c} : pc'[d] = pc[d] /\ loc'[d] = loc[d]
  BY <1>1
<1>3. UNCHANGED <<Wdg!Names, Wdg!Timeout, Wdg!HbTimeout, Wdg!HbMod, Wdg!MaxChanges>>
      /\ UNCHANGED <<Wdg!MaxModules, Wdg!Others, Wdg!Feeders, WdgLocals>>
  BY SetupStays
<1>4. Wdg!TypeOK'
  BY <1>1, <1>2, <1>3 DEF Wdg!TypeOK, Wdg!Ago, WdgPcs
<1>5. \A d \in Wdg!Ctx : Wdg!InFeed(d)' => d \in Wdg!Feeders
  BY <1>2 DEF WdgInv, WdgTypes, Wdg!InFeed
<1>6. WdgTypes'
  BY <1>2, <1>3, <1>4, <1>5 DEF WdgInv, WdgTypes
<1>7. CheckInsCount'
  BY <1>2, <1>3 DEF WdgInv, CheckInsCount, Wdg!Ago
<1>8. ChangesAreTold'
  BY <1>2, ToldRests DEF WdgInv, Wdg!InFeed
<1> QED BY <1>6, <1>7, <1>8 DEF WdgInv

\* The types of what the gate and the registry keep.
LEMMA GateTypes ==
    ASSUME WdgInv
    PROVE  /\ setup \in Setups /\ loc \in [Wdg!Ctx -> WdgLocals] /\ pc \in [Wdg!Ctx -> WdgPcs]
           /\ frozen \in BOOLEAN /\ seen \subseteq Wdg!Others
           /\ hb \in [Wdg!Others -> 0 .. Wdg!HbMod - 1]
           /\ lastHb \in [Wdg!Others -> 0 .. Wdg!HbMod - 1]
           /\ changeAge \in [Wdg!Others -> Wdg!Ago(2 * Wdg!HbTimeout)]
           /\ silent \in [Wdg!Others -> Wdg!Ago(2 * Wdg!HbTimeout)]
           /\ stopped \in BOOLEAN /\ stops \in Nat
BY DEF WdgInv, WdgTypes, Wdg!TypeOK, WdgPcs

\* bm_wdg_feed has looked at the check-ins, or found that it may not feed.
LEMMA LooksKeep ==
    ASSUME WdgInv, NEW c \in Wdg!Ctx, Wdg!Snapshot(c) \/ Wdg!Blocked(c)
    PROVE  WdgInv'
<1> DEFINE l == [Wdg!NoLocals EXCEPT !.count = Wdg!Cardinality(registered),
                                     !.ok = \A m \in registered : Wdg!Fresh(m)]
<1>1. /\ setup \in Setups /\ loc \in [Wdg!Ctx -> WdgLocals] /\ pc \in [Wdg!Ctx -> WdgPcs]
      /\ frozen \in BOOLEAN /\ seen \subseteq Wdg!Others
      /\ lastHb \in [Wdg!Others -> 0 .. Wdg!HbMod - 1]
      /\ changeAge \in [Wdg!Others -> Wdg!Ago(2 * Wdg!HbTimeout)]
      /\ stopped \in BOOLEAN /\ stops \in Nat
  BY GateTypes
<1>2. Wdg!Cardinality(registered) \in Nat
  <2>1. registered \subseteq Wdg!Names /\ IsFiniteSet(Wdg!Names)
    BY <1>1, SetupFacts DEF WdgInv, WdgTypes, Wdg!TypeOK
  <2>2. IsFiniteSet(registered)
    BY <2>1, FS_Subset
  <2> QED BY <2>2, FS_CardinalityType, WdgCardinality
<1>3. Wdg!NoLocals \in WdgLocals /\ Wdg!NoLocals.undisturbed
      /\ l \in WdgLocals /\ l.undisturbed
  BY <1>2 DEF Wdg!NoLocals, WdgLocals
<1> HIDE DEF l
<1>4. /\ UNCHANGED <<setup, registered, fed, age, hb, called, sinceHw, silent, changes>>
      /\ UNCHANGED <<lastHb, seen, changeAge, stopped, stops>>
      /\ frozen' \in BOOLEAN
  BY <1>1 DEF Wdg!Snapshot, Wdg!Blocked, Wdg!registry, Wdg!gate, Wdg!history
<1>5. PICK g \in WdgPcs \ {"stamping", "looking"}, k \in WdgLocals :
          /\ pc' = [pc EXCEPT ![c] = g] /\ loc' = [loc EXCEPT ![c] = k]
          /\ g # "idle" => c \in Wdg!Feeders /\ k.undisturbed
  <2>1. CASE Wdg!Snapshot(c)
    <3> DEFINE g == IF Wdg!Others = {} THEN "deciding" ELSE "gate"
    <3>1. g \in WdgPcs \ {"stamping", "looking"}
      BY DEF WdgPcs
    <3>2. pc' = [pc EXCEPT ![c] = g] /\ c \in Wdg!Feeders
      BY <2>1 DEF Wdg!Snapshot, Wdg!Goto
    <3>3. loc' = [loc EXCEPT ![c] = l]
      BY <2>1 DEF Wdg!Snapshot, l
    <3> HIDE DEF g
    <3> QED BY <1>3, <3>1, <3>2, <3>3
  <2>2. CASE Wdg!Blocked(c)
    BY <1>3, <2>2 DEF Wdg!Blocked, Wdg!Return, Wdg!Goto, WdgPcs
  <2> QED BY <2>1, <2>2
<1>6. \A d \in Wdg!Ctx : pc'[d] = "looking" => pc[d] = "looking" /\ loc'[d].at = loc[d].at
  BY <1>1, <1>5
<1>7. StopsWhenClosed' /\ GateKnows'
  BY <1>4, <1>6, GateRests DEF WdgInv, StopsWhenClosed
<1> QED BY <1>1, <1>4, <1>5, <1>7, CallKeeps

\* The gate reads the clock.
LEMMA GateNowKeeps ==
    ASSUME WdgInv, NEW c \in Wdg!Ctx, Wdg!GateNow(c)
    PROVE  WdgInv'
<1>1. /\ setup \in Setups /\ loc \in [Wdg!Ctx -> WdgLocals] /\ pc \in [Wdg!Ctx -> WdgPcs]
      /\ frozen \in BOOLEAN /\ seen \subseteq Wdg!Others
      /\ lastHb \in [Wdg!Others -> 0 .. Wdg!HbMod - 1]
      /\ changeAge \in [Wdg!Others -> Wdg!Ago(2 * Wdg!HbTimeout)]
      /\ stopped \in BOOLEAN /\ stops \in Nat
  BY GateTypes
<1> DEFINE l == [loc[c] EXCEPT !.at = 0]
<1>2. /\ pc[c] = "gate" /\ pc' = [pc EXCEPT ![c] = "looking"] /\ loc' = [loc EXCEPT ![c] = l]
      /\ UNCHANGED <<setup, registered, fed, age, frozen, hb, lastHb, seen, changeAge, stopped,
                     called, sinceHw, silent, stops, changes>>
  BY DEF Wdg!GateNow, Wdg!At, Wdg!Goto, Wdg!registry, Wdg!gate, Wdg!history
<1>3. c \in Wdg!Feeders /\ (loc[c].current => loc[c].undisturbed)
  BY <1>2 DEF WdgInv, WdgTypes, ChangesAreTold, Wdg!InFeed
<1>4. l \in WdgLocals /\ l.at = 0 /\ l.current = loc[c].current
      /\ l.undisturbed = loc[c].undisturbed
  BY <1>1 DEF WdgLocals
<1> HIDE DEF l
<1>5. /\ pc'[c] = "looking" /\ loc'[c] = l
      /\ \A d \in Wdg!Ctx \ {c} : pc'[d] = pc[d] /\ loc'[d] = loc[d]
  BY <1>1, <1>2
<1>6. GateKnows'
  <2>0. \A d \in Wdg!Ctx : pc'[d] = "looking" => loc'[d].at \in Wdg!Ago(Wdg!HbTimeout)'
    <3>1. 0 \in Wdg!Ago(Wdg!HbTimeout) /\ Wdg!HbTimeout' = Wdg!HbTimeout
      BY <1>1, <1>2, SetupFacts, SetupStays DEF Wdg!Ago
    <3> QED BY <1>4, <1>5, <3>1 DEF WdgInv, GateKnows, Wdg!Ago
  <2> SUFFICES ASSUME setup.feeders = {"main"} PROVE GateKnows'
    BY <1>2, <2>0 DEF GateKnows
  <2>1. c = "main" /\ "main" \in Wdg!Ctx
    BY <1>3 DEF Wdg!Feeders, Wdg!Ctx, Wdg!Main
  <2>2. Wdg!GateDelay' = Wdg!GateDelay /\ Wdg!GateDelay \in Nat
    BY <1>1, <1>2, SetupStays, SetupFacts
  <2>3. \A d \in Wdg!Ctx : pc'[d] = "looking" => loc'[d].at <= Wdg!GateDelay'
    BY <1>4, <1>5, <2>2 DEF WdgInv, GateKnows
  <2>4. \A p \in seen : changeAge[p] \in Nat
    BY <1>1, SetupFacts DEF Wdg!Ago
  <2>5. \A p \in seen' : loc'["main"].at <= changeAge'[p]
    BY <1>2, <1>4, <1>5, <2>1, <2>4
  <2>6. \A p \in seen' : hb'[p] = lastHb'[p] => changeAge'[p] <= silent'[p] + Wdg!GateDelay'
    BY <1>2, <2>2 DEF WdgInv, GateKnows
  <2> QED BY <2>0, <2>3, <2>5, <2>6 DEF GateKnows
<1>7. StopsWhenClosed'
  BY <1>2 DEF WdgInv, StopsWhenClosed
<1>8. "looking" \in WdgPcs \ {"stamping"}
  BY DEF WdgPcs
<1> QED BY <1>1, <1>2, <1>3, <1>4, <1>6, <1>7, <1>8, CallKeeps

\* The gate looks at the heartbeat of a CPU.
LEMMA LookAtKeeps ==
    ASSUME WdgInv, NEW c \in Wdg!Ctx, NEW p \in Wdg!Others, Wdg!LookAt(c, p)
    PROVE  WdgInv'
<1> DEFINE at0 == loc[c].at
           l == [loc[c] EXCEPT !.looked = @ \cup {p},
                               !.stalled = @ \/ (~Wdg!Beating(p) /\ Wdg!Overdue(p, at0))]
<1>1. /\ setup \in Setups /\ loc \in [Wdg!Ctx -> WdgLocals] /\ pc \in [Wdg!Ctx -> WdgPcs]
      /\ frozen \in BOOLEAN /\ seen \subseteq Wdg!Others
      /\ hb \in [Wdg!Others -> 0 .. Wdg!HbMod - 1]
      /\ lastHb \in [Wdg!Others -> 0 .. Wdg!HbMod - 1]
      /\ changeAge \in [Wdg!Others -> Wdg!Ago(2 * Wdg!HbTimeout)]
      /\ silent \in [Wdg!Others -> Wdg!Ago(2 * Wdg!HbTimeout)]
      /\ stopped \in BOOLEAN /\ stops \in Nat
  BY GateTypes
<1>2. /\ pc[c] = "looking" /\ pc' = pc /\ loc' = [loc EXCEPT ![c] = l]
      /\ UNCHANGED <<setup, registered, fed, age, frozen, hb, stopped, called, sinceHw, silent,
                     stops, changes>>
  BY DEF Wdg!LookAt, Wdg!At, Wdg!registry, Wdg!history
<1>3. IF Wdg!Beating(p)
      THEN /\ seen' = seen \cup {p} /\ lastHb' = [lastHb EXCEPT ![p] = hb[p]]
           /\ changeAge' = [changeAge EXCEPT ![p] = at0]
      ELSE UNCHANGED <<seen, lastHb, changeAge>>
  BY DEF Wdg!LookAt
<1>4. /\ at0 \in Wdg!Ago(Wdg!HbTimeout) /\ at0 \in Nat /\ at0 \in Wdg!Ago(2 * Wdg!HbTimeout)
      /\ c \in Wdg!Feeders /\ (loc[c].current => loc[c].undisturbed)
  <2>1. at0 \in Wdg!Ago(Wdg!HbTimeout) /\ Wdg!HbTimeout \in Nat
    BY <1>1, <1>2, SetupFacts DEF WdgInv, GateKnows
  <2>2. at0 \in Nat /\ at0 \in Wdg!Ago(2 * Wdg!HbTimeout)
    BY <2>1 DEF Wdg!Ago
  <2>3. c \in Wdg!Feeders /\ (loc[c].current => loc[c].undisturbed)
    BY <1>2 DEF WdgInv, WdgTypes, ChangesAreTold, Wdg!InFeed
  <2> QED BY <2>1, <2>2, <2>3
<1>5. /\ l \in WdgLocals /\ l.at = at0 /\ l.name = loc[c].name /\ l.current = loc[c].current
      /\ l.undisturbed = loc[c].undisturbed
  BY <1>1 DEF WdgLocals
<1> HIDE DEF at0, l
<1>6. /\ loc'[c] = l /\ \A d \in Wdg!Ctx \ {c} : loc'[d] = loc[d]
  BY <1>1, <1>2
<1>7. /\ seen' \subseteq Wdg!Others /\ lastHb' \in [Wdg!Others -> 0 .. Wdg!HbMod - 1]
      /\ changeAge' \in [Wdg!Others -> Wdg!Ago(2 * Wdg!HbTimeout)]
  BY <1>1, <1>3, <1>4
<1>8. GateKnows'
  <2>0. \A d \in Wdg!Ctx : pc'[d] = "looking" => loc'[d].at \in Wdg!Ago(Wdg!HbTimeout)'
    BY <1>2, <1>4, <1>5, <1>6, SetupStays DEF WdgInv, GateKnows, Wdg!Ago
  <2> SUFFICES ASSUME setup.feeders = {"main"} PROVE GateKnows'
    BY <1>2, <2>0 DEF GateKnows
  <2>1. c = "main" /\ "main" \in Wdg!Ctx
    BY <1>4 DEF Wdg!Feeders, Wdg!Ctx, Wdg!Main
  <2>2. Wdg!GateDelay' = Wdg!GateDelay /\ Wdg!GateDelay \in Nat
    BY <1>1, <1>2, SetupStays, SetupFacts
  <2>3. at0 <= Wdg!GateDelay
    BY <1>2 DEF WdgInv, GateKnows, at0
  <2>4. \A d \in Wdg!Ctx : pc'[d] = "looking" => loc'[d].at <= Wdg!GateDelay'
    BY <1>2, <1>5, <1>6, <2>2, <2>3 DEF WdgInv, GateKnows
  <2>5. ASSUME NEW q \in seen'
        PROVE  /\ hb'[q] = lastHb'[q] => changeAge'[q] <= silent'[q] + Wdg!GateDelay'
               /\ loc'["main"].at <= changeAge'[q]
    <3>1. q \in Wdg!Others /\ silent'[q] = silent[q] /\ silent[q] \in Nat
      BY <1>1, <1>2, <1>7, SetupFacts DEF Wdg!Ago
    <3>2. CASE q = p /\ Wdg!Beating(p)
      <4>1. changeAge'[q] = at0
        BY <1>1, <1>3, <3>1, <3>2
      <4> QED BY <1>4, <1>5, <1>6, <2>1, <2>2, <2>3, <3>1, <4>1
    <3>3. CASE ~(q = p /\ Wdg!Beating(p))
      <4>1. changeAge'[q] = changeAge[q] /\ lastHb'[q] = lastHb[q] /\ q \in seen
        BY <1>1, <1>3, <3>1, <3>3
      <4>2. at0 <= changeAge[q]
        BY <1>2, <2>1, <4>1 DEF WdgInv, GateKnows, at0
      <4> QED BY <1>2, <1>5, <1>6, <2>1, <2>2, <4>1, <4>2 DEF WdgInv, GateKnows
    <3> QED BY <3>2, <3>3
  <2> QED BY <2>0, <2>4, <2>5 DEF GateKnows
<1>9. StopsWhenClosed'
  BY <1>2 DEF WdgInv, StopsWhenClosed
<1>10. /\ pc' = [pc EXCEPT ![c] = "looking"] /\ "looking" \in WdgPcs \ {"stamping"}
       /\ UNCHANGED <<Wdg!Others, Wdg!HbMod>>
  BY <1>1, <1>2, SetupStays DEF WdgPcs
<1> QED BY <1>1, <1>2, <1>4, <1>5, <1>7, <1>8, <1>9, <1>10, CallKeeps

\* The gate closes or lets the feed go on.
LEMMA GateVerdictKeeps ==
    ASSUME WdgInv, NEW c \in Wdg!Ctx, Wdg!GateVerdict(c)
    PROVE  WdgInv'
<1>1. /\ setup \in Setups /\ loc \in [Wdg!Ctx -> WdgLocals] /\ pc \in [Wdg!Ctx -> WdgPcs]
      /\ frozen \in BOOLEAN /\ seen \subseteq Wdg!Others
      /\ lastHb \in [Wdg!Others -> 0 .. Wdg!HbMod - 1]
      /\ changeAge \in [Wdg!Others -> Wdg!Ago(2 * Wdg!HbTimeout)]
      /\ stopped \in BOOLEAN /\ stops \in Nat
  BY GateTypes
<1>2. /\ pc[c] = "looking"
      /\ UNCHANGED <<setup, registered, fed, age, frozen, hb, lastHb, seen, changeAge, called,
                     sinceHw, silent, changes>>
  BY DEF Wdg!GateVerdict, Wdg!At, Wdg!registry
<1>3. c \in Wdg!Feeders /\ (loc[c].current => loc[c].undisturbed)
  BY <1>2 DEF WdgInv, WdgTypes, ChangesAreTold, Wdg!InFeed
<1>4. PICK g \in {"idle", "deciding"}, l \in WdgLocals :
         /\ pc' = [pc EXCEPT ![c] = g] /\ loc' = [loc EXCEPT ![c] = l]
         /\ g # "idle" => (l.current => l.undisturbed)
  <2>1. CASE Wdg!Closes(c)
    <3>1. pc' = [pc EXCEPT ![c] = "idle"] /\ loc' = [loc EXCEPT ![c] = Wdg!NoLocals]
      BY <2>1 DEF Wdg!GateVerdict, Wdg!Return, Wdg!Goto
    <3>2. Wdg!NoLocals \in WdgLocals
      BY DEF Wdg!NoLocals, WdgLocals
    <3> QED BY <3>1, <3>2
  <2>2. CASE ~Wdg!Closes(c)
    <3>1. pc' = [pc EXCEPT ![c] = "deciding"] /\ loc' = loc
      BY <2>2 DEF Wdg!GateVerdict, Wdg!Goto
    <3>2. loc' = [loc EXCEPT ![c] = loc[c]] /\ loc[c] \in WdgLocals
      BY <1>1, <3>1
    <3> QED BY <1>3, <3>1, <3>2
  <2> QED BY <2>1, <2>2
<1>5. stopped' \in BOOLEAN /\ stops' \in Nat /\ StopsWhenClosed'
  <2>1. CASE Wdg!Closes(c)
    <3>1. stopped' = TRUE /\ stops' = IF ~stopped THEN stops + 1 ELSE stops
      BY <2>1 DEF Wdg!GateVerdict, Wdg!FirstStop
    <3> QED BY <1>1, <3>1 DEF WdgInv, StopsWhenClosed
  <2>2. CASE ~Wdg!Closes(c)
    <3>1. stopped' = stopped /\ stops' = stops
      BY <2>2 DEF Wdg!GateVerdict
    <3> QED BY <1>1, <3>1 DEF WdgInv, StopsWhenClosed
  <2> QED BY <2>1, <2>2
<1>6. /\ pc'[c] # "looking" /\ \A d \in Wdg!Ctx \ {c} : pc'[d] = pc[d] /\ loc'[d] = loc[d]
  BY <1>1, <1>4
<1>7. \A d \in Wdg!Ctx : pc'[d] = "looking" => pc[d] = "looking" /\ loc'[d].at = loc[d].at
  BY <1>6
<1>8. GateKnows'
  BY <1>2, <1>7, GateRests DEF WdgInv
<1>9. UNCHANGED <<Wdg!Others, Wdg!HbMod>> /\ g \in WdgPcs \ {"stamping"}
  BY <1>2, <1>4, SetupStays DEF WdgPcs
<1> QED BY <1>1, <1>2, <1>3, <1>4, <1>5, <1>8, <1>9, CallKeeps

\* The hardware is fed: the check-ins are used up, and the other call is told.
LEMMA FeedKeeps ==
    ASSUME WdgInv, NEW c \in Wdg!Ctx, Wdg!FeedHardware(c)
    PROVE  WdgInv'
<1> DEFINE told == IF loc[c].count # 0 THEN Wdg!Bump(loc) ELSE loc
<1>1. /\ pc[c] = "deciding" /\ fed' = fed \ registered /\ sinceHw' = {}
      /\ pc' = [pc EXCEPT ![c] = "idle"] /\ loc' = [told EXCEPT ![c] = Wdg!NoLocals]
      /\ UNCHANGED <<setup, registered, age, frozen, hb, lastHb, seen, changeAge, stopped,
                     called, silent, stops, changes>>
  BY DEF Wdg!FeedHardware, Wdg!At, Wdg!Goto, Wdg!Consumed, Wdg!gate
<1>2. Wdg!TypeOK /\ loc \in [Wdg!Ctx -> WdgLocals] /\ pc \in [Wdg!Ctx -> WdgPcs]
  BY DEF WdgInv, WdgTypes, Wdg!TypeOK, WdgPcs
<1>3. fed' = {}
  BY <1>1, <1>2 DEF Wdg!TypeOK
<1> DEFINE D(d) == [loc[d] EXCEPT !.current = FALSE]
<1>4. ASSUME NEW d \in Wdg!Ctx
      PROVE  /\ D(d) \in WdgLocals /\ loc[d] \in WdgLocals
             /\ D(d).at = loc[d].at /\ D(d).name = loc[d].name /\ D(d).current = FALSE
             /\ D(d).undisturbed = loc[d].undisturbed
  BY <1>2 DEF WdgLocals
<1>5. \A d \in Wdg!Ctx : told[d] \in {D(d), loc[d]}
  BY DEF Wdg!Bump
<1>6. told = [d \in Wdg!Ctx |-> told[d]]
  BY <1>2 DEF Wdg!Bump
<1> HIDE DEF told, D
<1>7. told \in [Wdg!Ctx -> WdgLocals]
  BY <1>4, <1>5, <1>6
<1>8. Wdg!NoLocals \in WdgLocals
  BY DEF Wdg!NoLocals, WdgLocals
<1>9. /\ loc' \in [Wdg!Ctx -> WdgLocals] /\ pc' \in [Wdg!Ctx -> WdgPcs] /\ pc'[c] = "idle"
      /\ \A d \in Wdg!Ctx \ {c} : pc'[d] = pc[d] /\ loc'[d] \in {D(d), loc[d]}
  <2>1. "idle" \in WdgPcs
    BY DEF WdgPcs
  <2> QED BY <1>1, <1>2, <1>5, <1>7, <1>8, <2>1
<1>10. \A d \in Wdg!Ctx \ {c} :
           /\ loc'[d].at = loc[d].at /\ loc'[d].name = loc[d].name
           /\ loc'[d].current => loc[d].current
           /\ loc'[d].undisturbed = loc[d].undisturbed
  BY <1>4, <1>9
<1>11. UNCHANGED <<Wdg!Names, Wdg!Timeout, Wdg!HbTimeout, Wdg!HbMod, Wdg!MaxChanges>>
       /\ UNCHANGED <<Wdg!MaxModules, Wdg!Others, Wdg!Feeders, WdgLocals>>
  BY <1>1, SetupStays
<1>12. Wdg!TypeOK'
  BY <1>1, <1>2, <1>3, <1>9, <1>11 DEF Wdg!TypeOK, Wdg!Ago, WdgPcs
<1>13. WdgTypes'
  BY <1>1, <1>9, <1>11, <1>12 DEF WdgInv, WdgTypes, Wdg!InFeed
<1>14. CheckInsCount'
  BY <1>1, <1>3, <1>9, <1>10, <1>11 DEF WdgInv, CheckInsCount, Wdg!Ago
<1>15. ChangesAreTold'
  BY <1>9, <1>10, ToldRests DEF WdgInv, Wdg!InFeed
<1>16. StopsWhenClosed' /\ GateKnows'
  BY <1>1, <1>9, <1>10, GateRests DEF WdgInv, StopsWhenClosed
<1> QED BY <1>13, <1>14, <1>15, <1>16 DEF WdgInv

\* A heartbeat is one that the gate has not seen.
LEMMA BeatKeeps ==
    ASSUME WdgInv, NEW p \in Wdg!Others, Wdg!Beat(p)
    PROVE  WdgInv'
<1> DEFINE h == (hb[p] + 1) % Wdg!HbMod
<1>1. /\ h # lastHb[p] /\ hb' = [hb EXCEPT ![p] = h] /\ silent' = [silent EXCEPT ![p] = 0]
      /\ UNCHANGED <<setup, registered, fed, age, frozen, pc, loc, lastHb, seen, changeAge,
                     stopped, called, sinceHw, stops, changes>>
  BY DEF Wdg!Beat, Wdg!registry, Wdg!gate
<1>2. /\ setup \in Setups /\ hb \in [Wdg!Others -> 0 .. Wdg!HbMod - 1]
      /\ silent \in [Wdg!Others -> Wdg!Ago(2 * Wdg!HbTimeout)] /\ Wdg!TypeOK
  BY GateTypes DEF WdgInv, WdgTypes
<1>3. h \in 0 .. Wdg!HbMod - 1 /\ 0 \in Wdg!Ago(2 * Wdg!HbTimeout)
  <2>1. hb[p] + 1 \in Nat /\ Wdg!HbMod \in Nat \ {0} /\ Wdg!HbTimeout \in Nat
    BY <1>2, SetupFacts
  <2>2. h \in 0 .. Wdg!HbMod - 1
    BY <2>1, ModIs
  <2> QED BY <2>1, <2>2 DEF Wdg!Ago
<1> HIDE DEF h
<1>4. /\ hb' \in [Wdg!Others -> 0 .. Wdg!HbMod - 1] /\ hb'[p] = h
      /\ silent' \in [Wdg!Others -> Wdg!Ago(2 * Wdg!HbTimeout)]
      /\ \A q \in Wdg!Others \ {p} : hb'[q] = hb[q] /\ silent'[q] = silent[q]
  BY <1>1, <1>2, <1>3
<1>5. UNCHANGED <<Wdg!Names, Wdg!Timeout, Wdg!HbTimeout, Wdg!HbMod, Wdg!MaxChanges>>
      /\ UNCHANGED <<Wdg!MaxModules, Wdg!Others, Wdg!Feeders, Wdg!GateDelay, WdgLocals>>
  BY <1>1, SetupStays
<1>6. Wdg!TypeOK'
  BY <1>1, <1>2, <1>4, <1>5 DEF Wdg!TypeOK, Wdg!Ago
<1>7. WdgTypes'
  BY <1>1, <1>5, <1>6 DEF WdgInv, WdgTypes, Wdg!InFeed
<1>8. CheckInsCount' /\ ChangesAreTold' /\ StopsWhenClosed'
  BY <1>1, <1>5 DEF WdgInv, CheckInsCount, ChangesAreTold, StopsWhenClosed, Wdg!InFeed,
     Wdg!Ago
<1>9. ASSUME setup.feeders = {"main"}, NEW q \in seen, hb'[q] = lastHb[q]
      PROVE  changeAge[q] <= silent'[q] + Wdg!GateDelay
  <2>1. q # p /\ q \in Wdg!Others
    BY <1>1, <1>2, <1>4, <1>9 DEF Wdg!TypeOK
  <2> QED BY <1>4, <1>9, <2>1 DEF WdgInv, GateKnows
<1>10. GateKnows'
  <2>1. \A d \in Wdg!Ctx : pc'[d] = "looking" => loc'[d].at \in Wdg!Ago(Wdg!HbTimeout)'
    BY <1>1, <1>5 DEF WdgInv, GateKnows, Wdg!Ago
  <2>2. setup.feeders = {"main"} =>
           /\ \A d \in Wdg!Ctx : pc'[d] = "looking" => loc'[d].at <= Wdg!GateDelay'
           /\ \A q \in seen' : pc'["main"] = "looking" => loc'["main"].at <= changeAge'[q]
    BY <1>1, <1>5 DEF WdgInv, GateKnows
  <2> QED BY <1>1, <1>5, <1>9, <2>1, <2>2 DEF GateKnows
<1> QED BY <1>7, <1>8, <1>10 DEF WdgInv

\* The gate is reset: it has seen nobody.
LEMMA GateResetKeeps ==
    ASSUME WdgInv, NEW c \in Wdg!Ctx, Wdg!GateReset(c)
    PROVE  WdgInv'
<1>1. /\ lastHb' = [p \in Wdg!Others |-> 0] /\ seen' = {}
      /\ changeAge' = [p \in Wdg!Others |-> 0] /\ stopped' = FALSE /\ stops' = 0
      /\ changes < Wdg!MaxChanges /\ changes' = changes + 1
      /\ UNCHANGED <<setup, registered, fed, age, frozen, pc, loc, hb, called, sinceHw, silent>>
  BY DEF Wdg!GateReset, Wdg!registry, Wdg!Change
<1>2. setup \in Setups /\ Wdg!TypeOK
  BY DEF WdgInv, WdgTypes
<1>3. 0 \in 0 .. Wdg!HbMod - 1 /\ 0 \in Wdg!Ago(2 * Wdg!HbTimeout)
      /\ changes' \in 0 .. Wdg!MaxChanges
  <2>1. changes \in 0 .. Wdg!MaxChanges /\ Wdg!MaxChanges \in Nat /\ Wdg!HbMod \in Nat \ {0}
        /\ Wdg!HbTimeout \in Nat
    BY <1>2, SetupFacts DEF Wdg!TypeOK
  <2> QED BY <1>1, <2>1 DEF Wdg!Ago
<1>4. UNCHANGED <<Wdg!Names, Wdg!Timeout, Wdg!HbTimeout, Wdg!HbMod, Wdg!MaxChanges>>
      /\ UNCHANGED <<Wdg!MaxModules, Wdg!Others, Wdg!Feeders, Wdg!GateDelay, WdgLocals>>
  BY <1>1, SetupStays
<1>5. /\ lastHb' \in [Wdg!Others -> 0 .. Wdg!HbMod - 1]
      /\ changeAge' \in [Wdg!Others -> Wdg!Ago(2 * Wdg!HbTimeout)]
  BY <1>1, <1>3
<1>6. Wdg!TypeOK'
  BY <1>1, <1>2, <1>3, <1>4, <1>5 DEF Wdg!TypeOK, Wdg!Ago
<1>7. WdgTypes'
  BY <1>1, <1>4, <1>6 DEF WdgInv, WdgTypes, Wdg!InFeed
<1>8. CheckInsCount' /\ ChangesAreTold' /\ StopsWhenClosed'
  BY <1>1, <1>4 DEF WdgInv, CheckInsCount, ChangesAreTold, StopsWhenClosed, Wdg!InFeed,
     Wdg!Ago
<1>9. GateKnows'
  BY <1>1, <1>4 DEF WdgInv, GateKnows, Wdg!Ago
<1> QED BY <1>7, <1>8, <1>9 DEF WdgInv

\* Ages, told apart up to a limit, keep their order.
LEMMA AgeingIs ==
    ASSUME NEW n \in Nat, NEW x \in Wdg!Ago(n)
    PROVE  /\ Wdg!Ageing(x, n) \in Wdg!Ago(n) /\ x \in Nat /\ Wdg!Ageing(x, n) \in Nat
           /\ Wdg!Ageing(x, n) = IF x <= n THEN x + 1 ELSE n + 1
           /\ x <= n + 1
BY DEF Wdg!Ageing, Wdg!Ago

\* Time goes on.
LEMMA WdgTickKeeps ==
    ASSUME WdgInv, Wdg!Tick
    PROVE  WdgInv'
<1>1. /\ \A c \in Wdg!Ctx : pc[c] = "looking" => loc[c].at < Wdg!GateDelay
      /\ age' = [m \in Wdg!Names |-> Wdg!Ageing(age[m], Wdg!Timeout)]
      /\ called' = [m \in Wdg!Names |-> Wdg!Ageing(called[m], Wdg!Timeout)]
      /\ changeAge' = [p \in Wdg!Others |-> Wdg!Ageing(changeAge[p], 2 * Wdg!HbTimeout)]
      /\ silent' = [p \in Wdg!Others |-> Wdg!Ageing(silent[p], 2 * Wdg!HbTimeout)]
      /\ UNCHANGED <<setup, registered, fed, frozen, pc, hb, lastHb, seen, stopped, sinceHw,
                     stops, changes>>
  BY DEF Wdg!Tick
<1>2. /\ setup \in Setups /\ Wdg!TypeOK /\ loc \in [Wdg!Ctx -> WdgLocals]
      /\ age \in [Wdg!Names -> Wdg!Ago(Wdg!Timeout)]
      /\ called \in [Wdg!Names -> Wdg!Ago(Wdg!Timeout)]
      /\ changeAge \in [Wdg!Others -> Wdg!Ago(2 * Wdg!HbTimeout)]
      /\ silent \in [Wdg!Others -> Wdg!Ago(2 * Wdg!HbTimeout)]
      /\ fed \subseteq Wdg!Names /\ seen \subseteq Wdg!Others
  BY DEF WdgInv, WdgTypes, Wdg!TypeOK
<1>3. /\ Wdg!Timeout \in Nat /\ Wdg!HbTimeout \in Nat /\ 2 * Wdg!HbTimeout \in Nat
      /\ Wdg!GateDelay \in Nat
  BY <1>2, SetupFacts
<1>4. UNCHANGED <<Wdg!Names, Wdg!Timeout, Wdg!HbTimeout, Wdg!HbMod, Wdg!MaxChanges>>
      /\ UNCHANGED <<Wdg!MaxModules, Wdg!Others, Wdg!Feeders, Wdg!GateDelay, WdgLocals>>
  BY <1>1, SetupStays
<1> DEFINE Older(c) == CASE pc[c] = "stamping" -> [loc[c] EXCEPT !.at = Wdg!Ageing(@, Wdg!Timeout)]
                        [] pc[c] = "looking" -> [loc[c] EXCEPT !.at = Wdg!Ageing(@, Wdg!HbTimeout)]
                        [] OTHER -> loc[c]
<1>5. loc' = [c \in Wdg!Ctx |-> Older(c)]
  BY DEF Wdg!Tick
<1>6. ASSUME NEW c \in Wdg!Ctx
      PROVE  /\ Older(c) \in WdgLocals /\ Older(c).name = loc[c].name
             /\ Older(c).current = loc[c].current /\ Older(c).undisturbed = loc[c].undisturbed
             /\ pc[c] = "stamping" => Older(c).at = Wdg!Ageing(loc[c].at, Wdg!Timeout)
             /\ pc[c] = "looking" => Older(c).at = Wdg!Ageing(loc[c].at, Wdg!HbTimeout)
  <2>1. loc[c] \in WdgLocals /\ loc[c].at \in Nat
    BY <1>2 DEF WdgLocals
  <2>2. \A n \in Nat : Wdg!Ageing(loc[c].at, n) \in Nat
    BY <2>1 DEF Wdg!Ageing
  <2>3. CASE pc[c] = "stamping"
    BY <1>3, <2>1, <2>2, <2>3 DEF WdgLocals
  <2>4. CASE pc[c] = "looking"
    BY <1>3, <2>1, <2>2, <2>4 DEF WdgLocals
  <2>5. CASE pc[c] # "stamping" /\ pc[c] # "looking"
    BY <2>1, <2>5
  <2> QED BY <2>3, <2>4, <2>5
<1> HIDE DEF Older
<1>7. loc' \in [Wdg!Ctx -> WdgLocals] /\ \A c \in Wdg!Ctx : loc'[c] = Older(c)
  BY <1>5, <1>6
<1>8. /\ age' \in [Wdg!Names -> Wdg!Ago(Wdg!Timeout)]
      /\ called' \in [Wdg!Names -> Wdg!Ago(Wdg!Timeout)]
      /\ changeAge' \in [Wdg!Others -> Wdg!Ago(2 * Wdg!HbTimeout)]
      /\ silent' \in [Wdg!Others -> Wdg!Ago(2 * Wdg!HbTimeout)]
  BY <1>1, <1>2, <1>3, AgeingIs
<1>9. Wdg!TypeOK'
  BY <1>1, <1>2, <1>4, <1>8 DEF Wdg!TypeOK, Wdg!Ago
<1>10. WdgTypes'
  BY <1>1, <1>4, <1>7, <1>9 DEF WdgInv, WdgTypes, Wdg!InFeed
<1>11. CheckInsCount'
  <2>1. ASSUME NEW m \in fed PROVE called'[m] <= age'[m]
    <3>1. called[m] <= age[m] /\ m \in Wdg!Names
      BY <1>2 DEF WdgInv, CheckInsCount
    <3>2. called[m] \in Wdg!Ago(Wdg!Timeout) /\ age[m] \in Wdg!Ago(Wdg!Timeout)
      BY <1>2, <3>1
    <3>3. called'[m] = Wdg!Ageing(called[m], Wdg!Timeout)
          /\ age'[m] = Wdg!Ageing(age[m], Wdg!Timeout)
      BY <1>1, <3>1
    <3> QED BY <1>3, <3>1, <3>2, <3>3, AgeingIs
  <2>2. ASSUME NEW c \in Wdg!Ctx, pc[c] = "stamping"
        PROVE  /\ loc'[c].name \in Wdg!Names /\ loc'[c].at \in Wdg!Ago(Wdg!Timeout)
               /\ called'[loc'[c].name] <= loc'[c].at
    <3> DEFINE m == loc[c].name
    <3>1. /\ m \in Wdg!Names /\ loc[c].at \in Wdg!Ago(Wdg!Timeout)
          /\ called[m] <= loc[c].at
      BY <2>2 DEF WdgInv, CheckInsCount
    <3>2. loc'[c].name = m /\ loc'[c].at = Wdg!Ageing(loc[c].at, Wdg!Timeout)
      BY <1>6, <1>7, <2>2
    <3>3. called[m] \in Wdg!Ago(Wdg!Timeout) /\ called'[m] = Wdg!Ageing(called[m], Wdg!Timeout)
      BY <1>1, <1>2, <3>1
    <3> HIDE DEF m
    <3> QED BY <1>3, <3>1, <3>2, <3>3, AgeingIs
  <2> QED BY <1>1, <1>4, <2>1, <2>2 DEF WdgInv, CheckInsCount, Wdg!Ago
<1>12. ChangesAreTold' /\ StopsWhenClosed'
  BY <1>1, <1>6, <1>7 DEF WdgInv, ChangesAreTold, StopsWhenClosed, Wdg!InFeed
<1>13. ASSUME NEW c \in Wdg!Ctx, pc[c] = "looking"
       PROVE  /\ loc[c].at \in Wdg!Ago(Wdg!HbTimeout)
              /\ loc'[c].at = Wdg!Ageing(loc[c].at, Wdg!HbTimeout)
              /\ loc'[c].at \in Wdg!Ago(Wdg!HbTimeout) /\ loc'[c].at <= Wdg!GateDelay
  <2>1. loc[c].at \in Wdg!Ago(Wdg!HbTimeout) /\ loc[c].at < Wdg!GateDelay
    BY <1>1, <1>13 DEF WdgInv, GateKnows
  <2>2. loc'[c].at = Wdg!Ageing(loc[c].at, Wdg!HbTimeout)
    BY <1>6, <1>7, <1>13
  <2> QED BY <1>3, <2>1, <2>2, AgeingIs
<1>14. ASSUME setup.feeders = {"main"}, NEW p \in seen
       PROVE  /\ hb[p] = lastHb[p] => changeAge'[p] <= silent'[p] + Wdg!GateDelay
              /\ pc["main"] = "looking" => loc'["main"].at <= changeAge'[p]
  <2>1. changeAge[p] \in Wdg!Ago(2 * Wdg!HbTimeout) /\ silent[p] \in Wdg!Ago(2 * Wdg!HbTimeout)
        /\ changeAge'[p] = Wdg!Ageing(changeAge[p], 2 * Wdg!HbTimeout)
        /\ silent'[p] = Wdg!Ageing(silent[p], 2 * Wdg!HbTimeout)
    BY <1>1, <1>2
  <2> DEFINE L == 2 * Wdg!HbTimeout
  <2>2. /\ changeAge[p] \in Nat /\ changeAge[p] <= L + 1
        /\ silent[p] \in Nat /\ silent[p] <= L + 1
        /\ changeAge'[p] = IF changeAge[p] <= L THEN changeAge[p] + 1 ELSE L + 1
        /\ silent'[p] = IF silent[p] <= L THEN silent[p] + 1 ELSE L + 1
    BY <1>3, <2>1, AgeingIs
  <2>3. hb[p] = lastHb[p] => changeAge'[p] <= silent'[p] + Wdg!GateDelay
    <3>1. hb[p] = lastHb[p] => changeAge[p] <= silent[p] + Wdg!GateDelay
      BY <1>14 DEF WdgInv, GateKnows
    <3> QED BY <1>3, <2>2, <3>1
  <2>4. pc["main"] = "looking" => loc'["main"].at <= changeAge'[p]
    <3> SUFFICES ASSUME pc["main"] = "looking" PROVE loc'["main"].at <= changeAge'[p]
      OBVIOUS
    <3>1. "main" \in Wdg!Ctx
      BY DEF Wdg!Ctx, Wdg!Main
    <3>2. loc["main"].at <= changeAge[p]
      BY <1>14 DEF WdgInv, GateKnows
    <3>3. /\ loc["main"].at \in Wdg!Ago(Wdg!HbTimeout)
          /\ loc'["main"].at = Wdg!Ageing(loc["main"].at, Wdg!HbTimeout)
      BY <1>13, <3>1
    <3>4. /\ loc["main"].at \in Nat
          /\ loc'["main"].at = IF loc["main"].at <= Wdg!HbTimeout THEN loc["main"].at + 1
                               ELSE Wdg!HbTimeout + 1
      BY <1>3, <3>3, AgeingIs
    <3> QED BY <1>3, <2>2, <3>2, <3>4
  <2> QED BY <2>3, <2>4
<1>15. GateKnows'
  <2>1. \A c \in Wdg!Ctx : pc'[c] = "looking" => loc'[c].at \in Wdg!Ago(Wdg!HbTimeout)'
    BY <1>1, <1>4, <1>13 DEF Wdg!Ago
  <2> QED BY <1>1, <1>4, <1>13, <1>14, <2>1 DEF GateKnows
<1> QED BY <1>10, <1>11, <1>12, <1>15 DEF WdgInv

\* Every step of the watchdog.
LEMMA WdgStep ==
    ASSUME WdgInv, Wdg!Next
    PROVE  WdgInv'
<1>1. ASSUME NEW c \in Wdg!Ctx, Wdg!Call(c) PROVE WdgInv'
  BY <1>1, RegisterKeeps, CheckInKeeps, WdgResetKeeps, LooksKeep, GateResetKeeps DEF Wdg!Call
<1>2. ASSUME NEW c \in Wdg!Ctx, Wdg!Proceed(c) PROVE WdgInv'
  BY <1>2, StampKeeps, GateNowKeeps, LookAtKeeps, GateVerdictKeeps, FeedKeeps, LooksKeep
  DEF Wdg!Proceed
<1> QED BY <1>1, <1>2, BeatKeeps, WdgTickKeeps DEF Wdg!Next, Wdg!Beats

\* What lets the hardware be fed.
LEMMA GrantIsEarned ==
    ASSUME WdgInv, NEW c \in Wdg!Ctx, Wdg!FeedHardware(c)
    PROVE  /\ \A m \in registered : called[m] <= Wdg!Timeout
           /\ registered \subseteq sinceHw
           /\ loc[c].undisturbed
<1>1. /\ Wdg!TypeOK /\ setup \in Setups /\ loc[c] \in WdgLocals
      /\ pc[c] = "deciding" /\ Wdg!Granted(c)
  BY DEF WdgInv, WdgTypes, Wdg!FeedHardware, Wdg!At
<1>2. Cardinality(registered) = loc[c].count /\ loc[c].current
  BY <1>1, WdgCardinality DEF Wdg!Granted, Wdg!Unchanged
<1>3. loc[c].undisturbed
  BY <1>1, <1>2 DEF WdgInv, ChangesAreTold, Wdg!InFeed
<1>4. IsFiniteSet(registered)
  BY <1>1, SetupFacts, FS_Subset DEF Wdg!TypeOK
<1>5. CASE loc[c].count = 0
  BY <1>2, <1>3, <1>4, <1>5, FS_EmptySet
<1>6. CASE loc[c].count # 0
  <2>1. \A m \in registered : m \in fed /\ age[m] <= Wdg!Timeout
    BY <1>1, <1>6 DEF Wdg!Granted, Wdg!Recheck, Wdg!Fresh
  <2>2. ASSUME NEW m \in registered PROVE called[m] <= Wdg!Timeout
    <3>1. m \in Wdg!Names /\ called[m] <= age[m]
      BY <1>1, <2>1 DEF WdgInv, CheckInsCount, Wdg!TypeOK
    <3>2. called[m] \in Nat /\ age[m] \in Nat /\ Wdg!Timeout \in Nat
      BY <1>1, <3>1, SetupFacts DEF Wdg!TypeOK, Wdg!Ago
    <3> QED BY <2>1, <3>1, <3>2
  <2> QED BY <1>3, <2>1, <2>2 DEF WdgInv, CheckInsCount
<1> QED BY <1>5, <1>6

\* What the gate finds stalled.
LEMMA StalledIsSilent ==
    ASSUME WdgInv, setup.feeders = {"main"}, NEW c \in Wdg!Ctx, NEW p \in Wdg!Others,
           Wdg!LookAt(c, p), loc'[c].stalled # loc[c].stalled
    PROVE  silent[p] + Wdg!GateDelay >= Wdg!HbTimeout
<1> DEFINE look == loc[c].at
<1>1. /\ Wdg!TypeOK /\ setup \in Setups /\ loc \in [Wdg!Ctx -> WdgLocals]
      /\ pc[c] = "looking" /\ \A d \in Wdg!Ctx : Wdg!InFeed(d) => d \in Wdg!Feeders
  BY DEF WdgInv, WdgTypes, Wdg!LookAt, Wdg!At
<1>2. c = "main"
  BY <1>1 DEF Wdg!InFeed, Wdg!Feeders
<1>3. ~Wdg!Beating(p) /\ Wdg!Overdue(p, look)
  BY <1>1 DEF Wdg!LookAt, WdgLocals
<1>4. p \in seen /\ hb[p] = lastHb[p]
  BY <1>3 DEF Wdg!Beating
<1>5. changeAge[p] <= silent[p] + Wdg!GateDelay /\ look <= changeAge[p]
  BY <1>1, <1>2, <1>4 DEF WdgInv, GateKnows
<1>6. /\ changeAge[p] \in Nat /\ silent[p] \in Nat /\ look \in Nat
      /\ Wdg!GateDelay \in Nat /\ Wdg!HbTimeout \in Nat
  <2>0. Wdg!GateDelay \in Nat /\ Wdg!HbTimeout \in Nat
    BY <1>1, SetupFacts
  <2>1. look \in Nat
    <3>1. look \in Wdg!Ago(Wdg!HbTimeout)
      BY <1>1 DEF WdgInv, GateKnows
    <3> HIDE DEF look
    <3> QED BY <2>0, <3>1 DEF Wdg!Ago
  <2>2. changeAge[p] \in Wdg!Ago(2 * Wdg!HbTimeout) /\ silent[p] \in Wdg!Ago(2 * Wdg!HbTimeout)
    BY <1>1 DEF Wdg!TypeOK
  <2> QED BY <2>0, <2>1, <2>2 DEF Wdg!Ago
<1>7. changeAge[p] - look >= Wdg!HbTimeout
  <2>1. changeAge[p] < look \/ changeAge[p] - look >= Wdg!HbTimeout
    BY <1>3 DEF Wdg!Overdue
  <2> HIDE DEF look
  <2> QED BY <1>5, <1>6, <2>1
<1> HIDE DEF look
<1> QED BY <1>5, <1>6, <1>7

\* What closes the gate.
LEMMA ClosesOnSilence ==
    ASSUME WdgInv, Wdg!Next, setup.feeders = {"main"}
    PROVE  Wdg!JustLook
<1>1. ASSUME NEW c \in Wdg!Ctx, pc[c] = "looking", pc'[c] = "idle"
      PROVE  loc[c].stalled
  <2>1. Wdg!TypeOK
    BY DEF WdgInv, WdgTypes
  <2>2. ASSUME NEW d \in Wdg!Ctx, Wdg!Call(d) PROVE FALSE
    BY <1>1, <2>1, <2>2 DEF Wdg!TypeOK, Wdg!Call, Wdg!Register, Wdg!CheckIn, Wdg!Reset,
       Wdg!Snapshot, Wdg!GateReset, Wdg!At, Wdg!Goto
  <2>3. ASSUME NEW d \in Wdg!Ctx, Wdg!Proceed(d) PROVE Wdg!GateVerdict(c)
    <3>1. d = c /\ ~(\E p \in Wdg!Others : Wdg!LookAt(d, p))
      BY <1>1, <2>1, <2>3 DEF Wdg!TypeOK, Wdg!Proceed, Wdg!Stamp, Wdg!GateNow, Wdg!LookAt,
         Wdg!GateVerdict, Wdg!FeedHardware, Wdg!Blocked, Wdg!At, Wdg!Goto, Wdg!Return
    <3> QED BY <1>1, <2>3, <3>1 DEF Wdg!Proceed, Wdg!Stamp, Wdg!GateNow, Wdg!FeedHardware,
               Wdg!Blocked, Wdg!At
  <2>4. ~Wdg!Tick /\ ~Wdg!Beats
    BY <1>1 DEF Wdg!Tick, Wdg!Beats, Wdg!Beat
  <2>5. Wdg!GateVerdict(c)
    BY <2>2, <2>3, <2>4 DEF Wdg!Next
  <2> QED BY <1>1, <2>1, <2>5 DEF Wdg!GateVerdict, Wdg!Closes, Wdg!Goto, Wdg!TypeOK
<1> QED BY <1>1, StalledIsSilent DEF Wdg!JustLook

-----------------------------------------------------------------------------
(* Rings                                                                       *)

\* The quotient and the remainder.
LEMMA DivFacts ==
    ASSUME NEW m \in Nat \ {0}, NEW x \in Nat
    PROVE  x = m * (x \div m) + (x % m) /\ x \div m \in Nat /\ x % m \in 0 .. m - 1
OBVIOUS

\* A multiple of m that is not zero is at least m away from zero.
LEMMA MulAway ==
    ASSUME NEW m \in Nat \ {0}, NEW n \in Int, n # 0
    PROVE  m * n >= m \/ m * n <= -m
OBVIOUS

\* Positions less than k apart share a slot only when they are the same.
LEMMA SameSlot ==
    ASSUME NEW k \in Nat \ {0}, NEW x \in Nat, NEW y \in Nat,
           x % k = y % k, x <= y, y < x + k
    PROVE  x = y
<1>1. x = k * (x \div k) + (x % k) /\ y = k * (y \div k) + (y % k)
      /\ x \div k \in Int /\ y \div k \in Int
  BY DivFacts
<1>2. y - x = k * ((y \div k) - (x \div k))
  BY <1>1
<1>3. (y \div k) - (x \div k) = 0
  BY <1>1, <1>2, MulAway
<1> QED BY <1>2, <1>3

\* A whole number of rounds later a position has the same slot.
LEMMA LapSlot ==
    ASSUME NEW k \in Nat \ {0}, NEW n \in Nat, n % k = 0, NEW x \in Nat
    PROVE  (x + n) % k = x % k
<1>1. \A y \in Nat : /\ y = k * (y \div k) + (y % k)
                     /\ y \div k \in Int /\ y % k \in 0 .. k - 1
  BY DivFacts
<1>2. x + n \in Nat
  OBVIOUS
<1>3. x + n = k * ((x \div k) + (n \div k)) + (x % k)
  BY <1>1
<1>4. x + n = k * ((x + n) \div k) + ((x + n) % k)
  BY <1>1, <1>2
<1>5. /\ (x \div k) + (n \div k) \in Int /\ (x + n) \div k \in Int
      /\ x % k \in 0 .. k - 1 /\ (x + n) % k \in 0 .. k - 1
  BY <1>1, <1>2
<1> DEFINE d == (x \div k) + (n \div k) - ((x + n) \div k)
<1>6. d \in Int /\ ((x + n) % k) - (x % k) = k * d
  BY <1>3, <1>4, <1>5
<1>7. d = 0
  BY <1>5, <1>6, MulAway
<1> QED BY <1>5, <1>6, <1>7

\* How many places there are from t to h, and the i-th place from t.
Span(m, h, t) == (h + m - t) % m
Place(m, t, i) == (t + i) % m

\* The arithmetic of a ring: the length of what it holds, and the place after one.
LEMMA SpanIs ==
    ASSUME NEW m \in Nat \ {0}, NEW h \in 0 .. m - 1, NEW t \in 0 .. m - 1
    PROVE  /\ Span(m, h, t) = IF h >= t THEN h - t ELSE h - t + m
           /\ Span(m, h, t) \in 0 .. m - 1
<1> DEFINE x == h + m - t
<1>1. x \in 0 .. 2 * m - 1 /\ (x < m <=> h < t)
  OBVIOUS
<1> HIDE DEF x
<1>2. x % m = IF x < m THEN x ELSE x - m
  BY <1>1, ModSmall
<1>3. x % m = IF h >= t THEN h - t ELSE h - t + m
  BY <1>1, <1>2 DEF x
<1>4. Span(m, h, t) = x % m
  BY DEF Span, x
<1> HIDE DEF Span
<1>5. Span(m, h, t) = IF h >= t THEN h - t ELSE h - t + m
  BY <1>3, <1>4
<1> QED BY <1>5

\* The place after one.
LEMMA NextIs ==
    ASSUME NEW m \in Nat \ {0}, NEW h \in 0 .. m - 1
    PROVE  (h + 1) % m = IF h + 1 = m THEN 0 ELSE h + 1
<1> DEFINE x == h + 1
<1>1. x \in 0 .. 2 * m - 1 /\ x <= m
  OBVIOUS
<1> HIDE DEF x
<1>2. x % m = IF x < m THEN x ELSE x - m
  BY <1>1, ModSmall
<1>3. x % m = IF x = m THEN 0 ELSE x
  BY <1>1, <1>2
<1> QED BY <1>3 DEF x

\* The places of a ring: the tail is the first, the head the one behind the last, and
\* no two of them are the same.
LEMMA RingPlaces ==
    ASSUME NEW m \in Nat \ {0}, NEW h \in 0 .. m - 1, NEW t \in 0 .. m - 1
    PROVE  /\ \A i \in Nat : Place(m, t, i) \in 0 .. m - 1
           /\ Place(m, t, 0) = t
           /\ Place(m, t, Span(m, h, t)) = h
           /\ \A i, j \in 0 .. m - 1 : i # j => Place(m, t, i) # Place(m, t, j)
<1>1. \A i \in Nat : Place(m, t, i) \in 0 .. m - 1
  BY DivFacts DEF Place
<1>2. Place(m, t, 0) = t
  <2>1. t + 0 = t /\ t \in 0 .. 2 * m - 1 /\ t < m
    OBVIOUS
  <2> QED BY <2>1, ModSmall DEF Place
<1>3. Place(m, t, Span(m, h, t)) = h
  <2> DEFINE d == Span(m, h, t)
             x == t + d
  <2>0. d = IF h >= t THEN h - t ELSE h - t + m
    BY SpanIs
  <2> HIDE DEF d
  <2>1. x \in 0 .. 2 * m - 1 /\ x = IF h >= t THEN h ELSE h + m
    BY <2>0
  <2> HIDE DEF x
  <2>2. x % m = IF x < m THEN x ELSE x - m
    BY <2>1, ModSmall
  <2>3. x % m = h
    BY <2>1, <2>2
  <2> QED BY <2>3 DEF Place, x, d
<1>4. ASSUME NEW i \in 0 .. m - 1, NEW j \in 0 .. m - 1, i < j
      PROVE  Place(m, t, i) # Place(m, t, j)
  <2>1. t + i \in Nat /\ t + j \in Nat /\ t + i # t + j
        /\ t + i <= t + j /\ t + j < t + i + m
    BY <1>4
  <2> QED BY <2>1, SameSlot DEF Place
<1>5. ASSUME NEW i \in 0 .. m - 1, NEW j \in 0 .. m - 1, i # j
      PROVE  Place(m, t, i) # Place(m, t, j)
  <2>1. i < j \/ j < i
    BY <1>5
  <2> QED BY <1>4, <2>1
<1> QED BY <1>1, <1>2, <1>3, <1>5

\* The head moves on by one, if there is room.
LEMMA RingGrows ==
    ASSUME NEW m \in Nat \ {0}, NEW h \in 0 .. m - 1, NEW t \in 0 .. m - 1
    PROVE  /\ (h + 1) % m # t => Span(m, (h + 1) % m, t) = Span(m, h, t) + 1
           /\ (h + 1) % m = t <=> Span(m, h, t) = m - 1
<1> DEFINE g == (h + 1) % m
<1>g. g = IF h + 1 = m THEN 0 ELSE h + 1
  BY NextIs
<1> HIDE DEF g
<1>1. g \in 0 .. m - 1 /\ Span(m, h, t) = IF h >= t THEN h - t ELSE h - t + m
  BY <1>g, SpanIs
<1>2. Span(m, g, t) = IF g >= t THEN g - t ELSE g - t + m
  BY <1>1, SpanIs
<1>3. g # t => Span(m, g, t) = Span(m, h, t) + 1
  BY <1>g, <1>1, <1>2
<1>4. g = t <=> Span(m, h, t) = m - 1
  BY <1>g, <1>1
<1> QED BY <1>3, <1>4 DEF g

\* The tail moves on by one, if there is anything.
LEMMA RingShrinks ==
    ASSUME NEW m \in Nat \ {0}, NEW h \in 0 .. m - 1, NEW t \in 0 .. m - 1
    PROVE  /\ h # t => Span(m, h, (t + 1) % m) = Span(m, h, t) - 1
           /\ \A i \in Nat : Place(m, (t + 1) % m, i) = Place(m, t, i + 1)
<1> DEFINE u == (t + 1) % m
<1>u. u = IF t + 1 = m THEN 0 ELSE t + 1
  BY NextIs
<1> HIDE DEF u
<1>1. u = (IF t + 1 = m THEN 0 ELSE t + 1) /\ u \in 0 .. m - 1
  BY <1>u
<1>2. Span(m, h, t) = IF h >= t THEN h - t ELSE h - t + m
  BY SpanIs
<1>3. Span(m, h, u) = IF h >= u THEN h - u ELSE h - u + m
  BY <1>1, SpanIs
<1>4. h # t => Span(m, h, u) = Span(m, h, t) - 1
  BY <1>1, <1>2, <1>3
<1>5. ASSUME NEW i \in Nat PROVE Place(m, u, i) = Place(m, t, i + 1)
  <2>1. CASE t + 1 = m
    <3>1. u + i = i /\ t + (i + 1) = i + m /\ m \in Nat /\ m \in 0 .. 2 * m - 1
      BY <1>1, <2>1
    <3>2. m % m = 0
      BY <3>1, ModSmall
    <3>3. (i + m) % m = i % m
      BY <3>1, <3>2, LapSlot
    <3> QED BY <3>1, <3>3 DEF Place
  <2>2. CASE t + 1 # m
    <3>1. u + i = t + (i + 1)
      BY <1>1, <2>2
    <3> QED BY <3>1 DEF Place
  <2> QED BY <2>1, <2>2
<1> QED BY <1>4, <1>5 DEF u

-----------------------------------------------------------------------------
(* What lies in a ring, as a sequence                                          *)

\* One more at the end.
LEMMA OneMore ==
    ASSUME NEW S, NEW n \in Nat, NEW f \in [1 .. n -> S], NEW g \in [1 .. n + 1 -> S],
           \A i \in 1 .. n : g[i] = f[i]
    PROVE  /\ f \in Seq(S) /\ Len(f) = n
           /\ g = Append(f, g[n + 1])
<1>1. f \in Seq(S) /\ Len(f) = n /\ g[n + 1] \in S
  OBVIOUS
<1> DEFINE c == Append(f, g[n + 1])
<1>2. /\ c \in Seq(S) /\ Len(c) = n + 1
      /\ \A i \in 1 .. n : c[i] = f[i]
      /\ c[n + 1] = g[n + 1]
  BY <1>1, AppendProperties
<1> HIDE DEF c
<1>3. c \in [1 .. n + 1 -> S]
  BY <1>2, LenProperties
<1>4. ASSUME NEW i \in 1 .. n + 1 PROVE c[i] = g[i]
  <2>1. i = n + 1 \/ i \in 1 .. n
    OBVIOUS
  <2> QED BY <1>2, <2>1
<1>5. c = g
  BY <1>3, <1>4
<1> QED BY <1>1, <1>5 DEF c

\* One less at the front.
LEMMA OneLess ==
    ASSUME NEW S, NEW n \in Nat, NEW f \in [1 .. n + 1 -> S], NEW g \in [1 .. n -> S],
           \A i \in 1 .. n : g[i] = f[i + 1]
    PROVE  /\ f \in Seq(S) /\ Len(f) = n + 1 /\ f # <<>>
           /\ g = Tail(f) /\ Head(f) = f[1]
<1>1. f \in Seq(S) /\ Len(f) = n + 1 /\ f # <<>>
  OBVIOUS
<1> DEFINE c == Tail(f)
<1>2. /\ c \in Seq(S) /\ Len(c) = n
      /\ \A i \in 1 .. n : c[i] = f[i + 1]
      /\ Head(f) = f[1]
  BY <1>1, HeadTailProperties
<1> HIDE DEF c
<1>3. c \in [1 .. n -> S]
  BY <1>2, LenProperties
<1>4. c = g
  BY <1>2, <1>3
<1> QED BY <1>1, <1>2, <1>4 DEF c

\* What waits in a ring of m places s, written at w and read at r, as a sequence.
Waits(m, s, w, r) == [i \in 1 .. (w + m - r) % m |-> s[(r + i - 1) % m]]

\* One of what waits is where it was written.
LEMMA WaitsAt ==
    ASSUME NEW m \in Nat \ {0}, NEW s,
           NEW w \in 0 .. m - 1, NEW r \in 0 .. m - 1, NEW i \in 1 .. Span(m, w, r)
    PROVE  /\ Waits(m, s, w, r)[i] = s[Place(m, r, i - 1)]
           /\ Place(m, r, i - 1) \in 0 .. m - 1
<1> DEFINE n == Span(m, w, r)
<1>1. n \in 0 .. m - 1
  BY SpanIs
<1>2. Waits(m, s, w, r) = [j \in 1 .. n |-> s[(r + j - 1) % m]]
  BY DEF Waits, Span
<1> HIDE DEF n
<1>3. i \in 1 .. n
  BY DEF n
<1>4. i - 1 \in Nat /\ r + i - 1 = r + (i - 1)
  BY <1>1, <1>3
<1>5. Place(m, r, i - 1) \in 0 .. m - 1
  BY <1>4, RingPlaces
<1>6. (r + i - 1) % m = Place(m, r, i - 1)
  BY <1>4 DEF Place
<1>7. Waits(m, s, w, r)[i] = s[(r + i - 1) % m]
  BY <1>2, <1>3
<1> QED BY <1>5, <1>6, <1>7

\* How much waits, and of what type it is.
LEMMA WaitsAre ==
    ASSUME NEW m \in Nat \ {0}, NEW T, NEW s \in [0 .. m - 1 -> T],
           NEW w \in 0 .. m - 1, NEW r \in 0 .. m - 1
    PROVE  /\ Span(m, w, r) \in 0 .. m - 1 /\ (w # r <=> Span(m, w, r) # 0)
           /\ Waits(m, s, w, r) \in [1 .. Span(m, w, r) -> T]
<1> DEFINE n == Span(m, w, r)
<1>1. n = (IF w >= r THEN w - r ELSE w - r + m) /\ n \in 0 .. m - 1
  BY SpanIs
<1>2. Waits(m, s, w, r) = [i \in 1 .. n |-> s[(r + i - 1) % m]]
  BY DEF Waits, Span
<1>3. \A i \in 1 .. n : Waits(m, s, w, r)[i] \in T
  <2> TAKE i \in 1 .. n
  <2>1. Waits(m, s, w, r)[i] = s[Place(m, r, i - 1)] /\ Place(m, r, i - 1) \in 0 .. m - 1
    BY WaitsAt
  <2> QED BY <2>1
<1> HIDE DEF n
<1>4. Waits(m, s, w, r) \in [1 .. n -> T]
  BY <1>2, <1>3
<1>5. w # r <=> n # 0
  BY <1>1
<1> QED BY <1>1, <1>4, <1>5 DEF n

\* Nothing waits where the two meet; one more is written; the oldest is read.
LEMMA NothingWaits ==
    ASSUME NEW m \in Nat \ {0}, NEW T, NEW s \in [0 .. m - 1 -> T], NEW r \in 0 .. m - 1
    PROVE  Waits(m, s, r, r) = <<>>
<1>1. Span(m, r, r) = 0 /\ Waits(m, s, r, r) \in [1 .. Span(m, r, r) -> T]
  BY WaitsAre
<1>2. Waits(m, s, r, r) \in [1 .. 0 -> T]
  BY <1>1
<1>3. Waits(m, s, r, r) \in Seq(T) /\ Len(Waits(m, s, r, r)) = 0
  BY <1>2
<1> QED BY <1>3, EmptySeq

\* The ring z is the ring s, of values in T, but for what was written at w, and
\* the place to write at is now w1: not that to read at, r, so there was room.
Written(m, T, s, w, r, z, w1) ==
    /\ m \in Nat \ {0} /\ s \in [0 .. m - 1 -> T] /\ z \in [0 .. m - 1 -> T]
    /\ w \in 0 .. m - 1 /\ r \in 0 .. m - 1 /\ w1 \in 0 .. m - 1
    /\ w1 = (w + 1) % m /\ w1 # r
    /\ \A i \in 0 .. m - 1 : i # w => z[i] = s[i]

\* What is written comes after what waits.
LEMMA OneIsWritten ==
    ASSUME NEW m, NEW T, NEW s, NEW w, NEW r, NEW z, NEW w1, Written(m, T, s, w, r, z, w1)
    PROVE  Waits(m, z, w1, r) = Append(Waits(m, s, w, r), z[w])
<1>0. Written(m, T, s, w, r, z, w1)
  OBVIOUS
<1> SUFFICES ASSUME m \in Nat \ {0}, s \in [0 .. m - 1 -> T],
                    w \in 0 .. m - 1, r \in 0 .. m - 1,
                    w1 = (w + 1) % m, w1 # r
             PROVE  Waits(m, z, w1, r) = Append(Waits(m, s, w, r), z[w])
  BY <1>0 DEF Written
<1> DEFINE f == Waits(m, s, w, r)
           g == Waits(m, z, w1, r)
           n == Span(m, w, r)
<1>1. z \in [0 .. m - 1 -> T] /\ \A i \in 0 .. m - 1 : i # w => z[i] = s[i]
  BY <1>0 DEF Written
<1>2. w1 \in 0 .. m - 1
  BY <1>0 DEF Written
<1>3. /\ n \in 0 .. m - 1 /\ f \in [1 .. n -> T]
      /\ \A i \in 1 .. n : f[i] = s[Place(m, r, i - 1)]
  <2>1. n \in 0 .. m - 1 /\ f \in [1 .. n -> T]
    BY WaitsAre
  <2>2. \A i \in 1 .. n : f[i] = s[Place(m, r, i - 1)]
    BY WaitsAt
  <2> QED BY <2>1, <2>2
<1>4. Span(m, w1, r) = n + 1
  BY RingGrows
<1>5. /\ Span(m, w1, r) \in 0 .. m - 1 /\ g \in [1 .. Span(m, w1, r) -> T]
      /\ \A i \in 1 .. Span(m, w1, r) : g[i] = z[Place(m, r, i - 1)]
  <2>1. Span(m, w1, r) \in 0 .. m - 1 /\ g \in [1 .. Span(m, w1, r) -> T]
    BY <1>1, <1>2, WaitsAre
  <2>2. \A i \in 1 .. Span(m, w1, r) : g[i] = z[Place(m, r, i - 1)]
    BY <1>1, <1>2, WaitsAt
  <2> QED BY <2>1, <2>2
<1>6. g \in [1 .. n + 1 -> T] /\ \A i \in 1 .. n + 1 : g[i] = z[Place(m, r, i - 1)]
  BY <1>4, <1>5
<1>7. /\ Place(m, r, n) = w
      /\ \A i, j \in 0 .. m - 1 : i # j => Place(m, r, i) # Place(m, r, j)
      /\ \A i \in Nat : Place(m, r, i) \in 0 .. m - 1
  <2>1. Place(m, r, n) = w
    BY RingPlaces
  <2>2. \A i, j \in 0 .. m - 1 : i # j => Place(m, r, i) # Place(m, r, j)
    BY RingPlaces
  <2>3. \A i \in Nat : Place(m, r, i) \in 0 .. m - 1
    BY RingPlaces
  <2> QED BY <2>1, <2>2, <2>3
<1> HIDE DEF n, f, g
<1>8. ASSUME NEW i \in 1 .. n PROVE g[i] = f[i]
  <2>1. i - 1 \in 0 .. m - 1 /\ n \in 0 .. m - 1 /\ i - 1 # n /\ i \in 1 .. n + 1 /\ i - 1 \in Nat
    BY <1>3
  <2>2. Place(m, r, i - 1) # w /\ Place(m, r, i - 1) \in 0 .. m - 1
    BY <1>7, <2>1
  <2> QED BY <1>1, <1>3, <1>6, <2>1, <2>2
<1>9. g[n + 1] = z[w]
  <2>1. n + 1 \in 1 .. n + 1 /\ (n + 1) - 1 = n
    BY <1>3
  <2> QED BY <1>1, <1>6, <1>7, <2>1
<1>10. n \in Nat
  BY <1>3
<1>11. g = Append(f, g[n + 1])
  BY <1>3, <1>6, <1>8, <1>10, OneMore
<1> QED BY <1>9, <1>11 DEF f, g

\* A ring of m places for values in T, written at w and read at r.
IsRing(m, T, s, w, r) ==
    /\ m \in Nat \ {0} /\ s \in [0 .. m - 1 -> T]
    /\ w \in 0 .. m - 1 /\ r \in 0 .. m - 1

\* What is read is the head, and the tail is left.
LEMMA OldestIsRead ==
    ASSUME NEW m, NEW T, NEW s, NEW w, NEW r, IsRing(m, T, s, w, r), w # r
    PROVE  /\ Waits(m, s, w, r) # <<>> /\ Head(Waits(m, s, w, r)) = s[r]
           /\ Waits(m, s, w, (r + 1) % m) = Tail(Waits(m, s, w, r))
           /\ Waits(m, s, w, r)[1] = s[r] /\ 1 \in DOMAIN Waits(m, s, w, r)
           /\ Waits(m, s, w, r) \in Seq(T)
<1>0. IsRing(m, T, s, w, r)
  OBVIOUS
<1> SUFFICES ASSUME m \in Nat \ {0}, s \in [0 .. m - 1 -> T],
                    w \in 0 .. m - 1, r \in 0 .. m - 1
             PROVE  /\ Waits(m, s, w, r) # <<>> /\ Head(Waits(m, s, w, r)) = s[r]
                    /\ Waits(m, s, w, (r + 1) % m) = Tail(Waits(m, s, w, r))
                    /\ Waits(m, s, w, r)[1] = s[r] /\ 1 \in DOMAIN Waits(m, s, w, r)
                    /\ Waits(m, s, w, r) \in Seq(T)
  BY <1>0 DEF IsRing
<1> DEFINE r1 == (r + 1) % m
           f == Waits(m, s, w, r)
           g == Waits(m, s, w, r1)
           n == Span(m, w, r1)
<1>1. r1 \in 0 .. m - 1
  <2>1. r + 1 \in Nat /\ m \in Nat \ {0}
    OBVIOUS
  <2> QED BY <2>1, ModIs
<1>2. /\ Span(m, w, r) \in 0 .. m - 1 /\ Span(m, w, r) # 0 /\ f \in [1 .. Span(m, w, r) -> T]
      /\ \A i \in 1 .. Span(m, w, r) : f[i] = s[Place(m, r, i - 1)]
  <2>1. /\ Span(m, w, r) \in 0 .. m - 1 /\ Span(m, w, r) # 0
        /\ f \in [1 .. Span(m, w, r) -> T]
    BY WaitsAre
  <2>2. ASSUME NEW i \in 1 .. Span(m, w, r) PROVE f[i] = s[Place(m, r, i - 1)]
    BY WaitsAt
  <2> QED BY <2>1, <2>2
<1>3. n = Span(m, w, r) - 1 /\ \A i \in Nat : Place(m, r1, i) = Place(m, r, i + 1)
  BY RingShrinks
<1> HIDE DEF r1
<1>4. /\ n \in 0 .. m - 1 /\ g \in [1 .. n -> T]
      /\ \A i \in 1 .. n : g[i] = s[Place(m, r1, i - 1)]
  <2>1. n \in 0 .. m - 1 /\ g \in [1 .. n -> T]
    BY <1>1, WaitsAre
  <2>2. \A i \in 1 .. n : g[i] = s[Place(m, r1, i - 1)]
    BY <1>1, WaitsAt
  <2> QED BY <2>1, <2>2
<1>5. Place(m, r, 0) = r
  BY RingPlaces
<1> HIDE DEF n, f, g
<1>6. n \in Nat /\ Span(m, w, r) = n + 1
  BY <1>2, <1>3, <1>4
<1>7. f \in [1 .. n + 1 -> T] /\ \A i \in 1 .. n + 1 : f[i] = s[Place(m, r, i - 1)]
  BY <1>2, <1>6
<1>8. ASSUME NEW i \in 1 .. n PROVE g[i] = f[i + 1]
  <2>1. i - 1 \in Nat /\ (i - 1) + 1 = i /\ i + 1 \in 1 .. n + 1 /\ (i + 1) - 1 = i
    BY <1>6
  <2>2. g[i] = s[Place(m, r1, i - 1)] /\ f[i + 1] = s[Place(m, r, (i + 1) - 1)]
    BY <1>4, <1>7, <2>1
  <2>3. Place(m, r1, i - 1) = Place(m, r, (i - 1) + 1)
    BY <1>3, <2>1
  <2> QED BY <2>1, <2>2, <2>3
<1>9. f[1] = s[r] /\ 1 \in DOMAIN f
  <2>1. 1 \in 1 .. n + 1 /\ 1 - 1 = 0
    BY <1>6
  <2> QED BY <1>5, <1>7, <2>1
<1>10. f # <<>> /\ g = Tail(f) /\ Head(f) = f[1]
  BY <1>4, <1>6, <1>7, <1>8, OneLess
<1>11. f \in Seq(T)
  BY <1>6, <1>7
<1> QED BY <1>9, <1>10, <1>11 DEF f, g, r1

-----------------------------------------------------------------------------
(* The event queue                                                             *)

\* The ranges of the fields; a list has room for as many as a type may have.
QueueTypes ==
    /\ build \in Builds
    /\ types \subseteq Events!Types /\ eventsFrozen \in BOOLEAN
    /\ list \in [Events!Types -> Seq(Events!Subs)]
    /\ \A t \in Events!Types : Len(list[t]) <= Events!FanOut
    /\ id \in [Events!Subs -> 0 .. Events!IdMod - 1] /\ nextId \in 0 .. Events!IdMod - 1
    /\ items \in [Events!Prios -> [Events!Index -> Events!Types \cup {none}]]
    /\ rd \in [Events!Prios -> Events!Index] /\ wr \in [Events!Prios -> Events!Index]
    /\ dropped \in 0 .. Events!CounterMax /\ rejected \in 0 .. Events!CounterMax
    /\ sinceFair \in 0 .. Events!BurstMax /\ fairCursor \in Events!Prios
    /\ eventsPc \in {"idle", "loop", "walk", "called"} /\ left \in Nat
    /\ item \in Events!Types \cup {none} /\ sub \in Events!Subs \cup {Events!Nil}
    /\ calledNow \subseteq Events!Subs
    /\ bypassed \in [Events!Prios -> Nat]

\* An entry has one place on one list, and is free when it has none.
OnePlace ==
    \A t, u \in Events!Types : \A i \in DOMAIN list[t], j \in DOMAIN list[u] :
        list[t][i] = list[u][j] => t = u /\ i = j
FreeIsOut ==
    \A e \in Events!Subs : id[e] = 0 <=> \A t \in Events!Types : e \notin Events!Entries(t)

\* Who walks a list holds the depth, so the list does not change; the entries before
\* the one that is next have been called.
WalkAt(k) ==
    /\ sub = IF k <= Len(list[item]) THEN list[item][k] ELSE Events!Nil
    /\ calledNow = {list[item][i] : i \in 1 .. (IF eventsPc = "walk" THEN k - 1 ELSE k)}
    /\ eventsPc = "called" => k <= Len(list[item])
Walks ==
    /\ depth = IF eventsPc = "idle" THEN 0 ELSE 1
    /\ eventsPc \in {"walk", "called"} =>
          item \in Events!Types /\ \E k \in 1 .. Len(list[item]) + 1 : WalkAt(k)

\* An urgent event was overtaken once at most, by the turn that ended the burst.  The lowest
\* one was overtaken by a burst and a turn of every priority the cursor has gone by, and by
\* the burst that is on.
Round(c) == IF c = 0 THEN 0 ELSE c - 1
Overtaken ==
    /\ \A p \in Events!Prios : ~Events!Pending(p) => bypassed[p] = 0
    /\ bypassed[0] <= 1 /\ (bypassed[0] > 0 => sinceFair = 0)
    /\ Events!NPrio = 1 => bypassed[0] = 0
    /\ Events!NPrio > 1 =>
          bypassed[Events!NPrio - 1] <= (Events!BurstMax + 1) * Round(fairCursor) + sinceFair

EventsInv ==
    /\ QueueTypes /\ OnePlace /\ FreeIsOut
    /\ Events!WaitingRegistered /\ Walks /\ Overtaken

\* The settings of a build.
LEMMA BuildFacts ==
    ASSUME build \in Builds
    PROVE  /\ Events!NPrio \in Nat \ {0} /\ Events!Depth \in Nat /\ Events!Depth >= 2
           /\ Events!BurstMax \in Nat \ {0} /\ Events!IdMod \in Nat /\ Events!IdMod >= 2
           /\ Events!MaxSubs \in Nat /\ Events!FanOut \in Nat
           /\ Events!CounterMax \in Nat /\ Events!BypassMax \in Nat
           /\ Events!Budgets \subseteq Nat /\ none \notin Events!Types
BY TimingAssumption DEF Events!BuildAssumption, Events!NPrio, Events!Depth, Events!BurstMax,
   Events!IdMod, Events!MaxSubs, Events!FanOut, Events!CounterMax, Events!BypassMax,
   Events!Budgets, Events!Types

\* The build does not change.
LEMMA BuildStays ==
    ASSUME build' = build
    PROVE  /\ UNCHANGED <<Events!Types, Events!NPrio, Events!Depth, Events!BurstMax>>
           /\ UNCHANGED <<Events!IdMod, Events!MaxSubs, Events!FanOut, Events!CounterMax>>
           /\ UNCHANGED <<Events!BypassMax, Events!Budgets, Events!FirstCursor>>
           /\ UNCHANGED <<Events!Prios, Events!Index, Events!Subs>>
BY DEF Events!Types, Events!NPrio, Events!Depth, Events!BurstMax, Events!IdMod, Events!MaxSubs,
   Events!FanOut, Events!CounterMax, Events!BypassMax, Events!Budgets, Events!FirstCursor,
   Events!Prios, Events!Index, Events!Subs

\* The priorities and the places of a ring.
LEMMA PrioFacts ==
    ASSUME build \in Builds
    PROVE  /\ 0 \in Events!Prios /\ Events!NPrio - 1 \in Events!Prios
           /\ Events!FirstCursor \in Events!Prios /\ 0 \in Events!Index
           /\ Events!Depth \in Nat \ {0} /\ Events!Index = 0 .. Events!Depth - 1
           /\ \A q \in Events!Prios : q \in Nat /\ q <= Events!NPrio - 1
           /\ \A i \in Events!Index : Events!Next1(i) \in Events!Index
<1>1. Events!NPrio \in Nat \ {0} /\ Events!Depth \in Nat /\ Events!Depth >= 2
  BY BuildFacts
<1>2. \A i \in Events!Index : Events!Next1(i) \in Events!Index
  <2>1. \A n \in Nat : n % Events!Depth \in 0 .. Events!Depth - 1
    BY <1>1, ModIs
  <2> QED BY <1>1, <2>1 DEF Events!Next1, Events!Index
<1> QED BY <1>1, <1>2 DEF Events!Prios, Events!Index, Events!FirstCursor

\* A ring as the sequence of what waits in it, after a step too.
LEMMA WaitingIs ==
    ASSUME build \in Builds, QueueTypes, NEW p \in Events!Prios
    PROVE  /\ Events!Depth \in Nat \ {0} /\ Events!Index = 0 .. Events!Depth - 1
           /\ rd[p] \in 0 .. Events!Depth - 1 /\ wr[p] \in 0 .. Events!Depth - 1
           /\ items[p] \in [0 .. Events!Depth - 1 -> Events!Types \cup {none}]
           /\ Events!Waiting(p) = Waits(Events!Depth, items[p], wr[p], rd[p])
           /\ build' = build =>
                 Events!Waiting(p)' = Waits(Events!Depth, items'[p], wr'[p], rd'[p])
<1>1. /\ Events!Depth \in Nat \ {0} /\ Events!Index = 0 .. Events!Depth - 1
      /\ rd[p] \in Events!Index /\ wr[p] \in Events!Index
      /\ items[p] \in [Events!Index -> Events!Types \cup {none}]
  BY PrioFacts DEF QueueTypes
<1>2. build' = build => Events!Depth' = Events!Depth
  BY BuildStays
<1> QED BY <1>1, <1>2 DEF Events!Waiting, Waits

\* After a boot nothing is registered and nothing waits.
LEMMA EventsStart == Events!Init => EventsInv
<1> SUFFICES ASSUME Events!Init PROVE EventsInv
  OBVIOUS
<1>1. build \in Builds
  BY DEF Events!Init
<1>2. /\ Events!NPrio \in Nat \ {0} /\ Events!BurstMax \in Nat \ {0}
      /\ Events!IdMod \in Nat /\ Events!IdMod >= 2
      /\ Events!FanOut \in Nat /\ Events!CounterMax \in Nat
  BY <1>1, BuildFacts
<1>3. /\ 0 \in Events!Prios /\ Events!FirstCursor \in Events!Prios /\ 0 \in Events!Index
      /\ Events!NPrio - 1 \in Events!Prios
  BY <1>1, PrioFacts
<1>4. \A t \in Events!Types : list[t] = <<>>
  BY DEF Events!Init
<1>5. QueueTypes
  <2>1. list \in [Events!Types -> Seq(Events!Subs)]
    BY DEF Events!Init
  <2>2. \A t \in Events!Types : Len(list[t]) <= Events!FanOut
    BY <1>2, <1>4
  <2>3. /\ 0 \in 0 .. Events!IdMod - 1 /\ 1 \in 0 .. Events!IdMod - 1
        /\ 0 \in 0 .. Events!CounterMax /\ 0 \in 0 .. Events!BurstMax
    BY <1>2
  <2>4. /\ id \in [Events!Subs -> 0 .. Events!IdMod - 1] /\ nextId \in 0 .. Events!IdMod - 1
        /\ dropped \in 0 .. Events!CounterMax /\ rejected \in 0 .. Events!CounterMax
        /\ sinceFair \in 0 .. Events!BurstMax /\ bypassed \in [Events!Prios -> Nat]
    BY <2>3 DEF Events!Init
  <2>5. /\ items \in [Events!Prios -> [Events!Index -> Events!Types \cup {none}]]
        /\ rd \in [Events!Prios -> Events!Index] /\ wr \in [Events!Prios -> Events!Index]
    BY <1>3 DEF Events!Init, Events!NoItem
  <2>6. /\ types \subseteq Events!Types /\ eventsFrozen \in BOOLEAN
        /\ fairCursor \in Events!Prios
        /\ eventsPc \in {"idle", "loop", "walk", "called"} /\ left \in Nat
        /\ item \in Events!Types \cup {none} /\ sub \in Events!Subs \cup {Events!Nil}
        /\ calledNow \subseteq Events!Subs
    BY <1>3 DEF Events!Init, Events!NoItem
  <2> QED BY <1>1, <2>1, <2>2, <2>4, <2>5, <2>6 DEF QueueTypes
<1>6. OnePlace
  BY <1>4 DEF OnePlace
<1>7. FreeIsOut
  BY <1>4 DEF FreeIsOut, Events!Entries, Events!Init
<1>8. \A p \in Events!Prios : ~Events!Pending(p) /\ bypassed[p] = 0
  BY DEF Events!Init, Events!Pending
<1>9. Events!WaitingRegistered
  <2>1. \A p \in Events!Prios : Events!Waiting(p) = <<>>
    <3> SUFFICES ASSUME NEW p \in Events!Prios PROVE Events!Waiting(p) = <<>>
      OBVIOUS
    <3>1. /\ Events!Depth \in Nat \ {0} /\ rd[p] \in 0 .. Events!Depth - 1 /\ wr[p] = rd[p]
          /\ items[p] \in [0 .. Events!Depth - 1 -> Events!Types \cup {none}]
          /\ Events!Waiting(p) = Waits(Events!Depth, items[p], wr[p], rd[p])
      BY <1>1, <1>5, <1>8, WaitingIs DEF Events!Pending
    <3> QED BY <3>1, NothingWaits
  <2> QED BY <2>1 DEF Events!WaitingRegistered
<1>10. Walks
  BY DEF Walks, Events!Init
<1>11. Overtaken
  <2>1. sinceFair = 0 /\ fairCursor \in Nat
    BY <1>2, <1>3 DEF Events!Init, Events!FirstCursor, Events!Prios
  <2>2. Events!NPrio > 1 => fairCursor = 1
    BY DEF Events!Init, Events!FirstCursor
  <2>3. Events!NPrio > 1 => (Events!BurstMax + 1) * Round(fairCursor) + sinceFair = 0
    BY <1>2, <2>1, <2>2 DEF Round
  <2> QED BY <1>2, <1>3, <1>8, <2>1, <2>3 DEF Overtaken
<1> QED BY <1>5, <1>6, <1>7, <1>9, <1>10, <1>11 DEF EventsInv

\* Steps that leave a part of the invariant alone.
LEMMA ListsRest ==
    ASSUME OnePlace, FreeIsOut, UNCHANGED <<build, list, id>>
    PROVE  OnePlace' /\ FreeIsOut'
<1>1. Events!Types' = Events!Types /\ Events!Subs' = Events!Subs
  BY BuildStays
<1> QED BY <1>1 DEF OnePlace, FreeIsOut, Events!Entries

\* A step that leaves the rings alone leaves what waits in them.
LEMMA RingsRest ==
    ASSUME UNCHANGED <<build, items, rd, wr>>
    PROVE  /\ \A p \in Events!Prios : Events!Waiting(p)' = Events!Waiting(p)
           /\ Events!WaitingRegistered /\ types \subseteq types' => Events!WaitingRegistered'
<1>1. Events!Depth' = Events!Depth /\ Events!Prios' = Events!Prios
  BY BuildStays
<1>2. \A p \in Events!Prios : Events!Waiting(p)' = Events!Waiting(p)
  BY <1>1 DEF Events!Waiting
<1> QED BY <1>1, <1>2 DEF Events!WaitingRegistered

\* A step that leaves the lists and the walk alone.
LEMMA WalkRests ==
    ASSUME Walks, UNCHANGED <<build, list, depth, eventsPc, item, sub, calledNow>>
    PROVE  Walks'
<1>1. Events!Types' = Events!Types
  BY BuildStays
<1>2. \A k \in 1 .. Len(list[item]) + 1 : WalkAt(k)' <=> WalkAt(k)
  BY DEF WalkAt, Events!Nil
<1> QED BY <1>1, <1>2 DEF Walks

\* A step after which what was pending is, and the turns are as they were.
LEMMA TurnsRest ==
    ASSUME Overtaken, UNCHANGED <<build, bypassed, sinceFair, fairCursor>>,
           \A p \in Events!Prios : Events!Pending(p) => Events!Pending(p)'
    PROVE  Overtaken'
<1>1. /\ Events!Prios' = Events!Prios /\ Events!NPrio' = Events!NPrio
      /\ Events!BurstMax' = Events!BurstMax
  BY BuildStays
<1> QED BY <1>1 DEF Overtaken, Round

\* What a step does to the ring of a priority.
QueueStep(p) ==
    \/ Events!Waiting(p)' = Events!Waiting(p)
    \/ \E t \in Events!Types : Events!Waiting(p)' = Append(Events!Waiting(p), t)
    \/ /\ Events!Waiting(p) # <<>> /\ Events!Waiting(p)' = Tail(Events!Waiting(p))
       /\ item' = Head(Events!Waiting(p))
    \/ Events!Waiting(p)' = <<>> /\ types' = {}
QueueSteps == \A p \in Events!Prios : QueueStep(p)

\* Diagnostic counters stay below their bound.
LEMMA CounterIs ==
    ASSUME build \in Builds, NEW n \in 0 .. Events!CounterMax
    PROVE  Events!Counter(n) \in 0 .. Events!CounterMax
BY BuildFacts DEF Events!Counter

\* A call that is refused, one that closes the table, and one that names a type.
LEMMA SmallStepsKeep ==
    ASSUME EventsInv,
           \/ Events!Reject \/ Events!Freeze
           \/ \E t \in Events!Types :
                 Events!RegisterType(t) \/ \E p \in Events!Prios : Events!PublishOverflow(t, p)
    PROVE  EventsInv' /\ QueueSteps
<1>1. /\ UNCHANGED <<build, list, id, nextId, items, rd, wr, depth, sinceFair, fairCursor>>
      /\ UNCHANGED <<eventsPc, left, item, sub, calledNow, bypassed>>
      /\ types \subseteq types' /\ types' \subseteq types \cup Events!Types
      /\ eventsFrozen' \in {eventsFrozen, TRUE}
      /\ rejected' \in {rejected, Events!Counter(rejected)}
      /\ dropped' \in {dropped, Events!Counter(dropped)}
  BY DEF Events!Reject, Events!Freeze, Events!RegisterType, Events!PublishOverflow,
         Events!table, Events!ring, Events!fair, Events!call
<1>2. QueueTypes'
  <2>1. QueueTypes /\ build \in Builds
    BY DEF EventsInv, QueueTypes
  <2>2. rejected' \in 0 .. Events!CounterMax /\ dropped' \in 0 .. Events!CounterMax
    BY <1>1, <2>1, CounterIs DEF QueueTypes
  <2>3. types' \subseteq Events!Types /\ eventsFrozen' \in BOOLEAN
    BY <1>1, <2>1 DEF QueueTypes
  <2> QED BY <1>1, <2>1, <2>2, <2>3, BuildStays DEF QueueTypes, Events!Nil
<1>3. OnePlace' /\ FreeIsOut'
  BY <1>1, ListsRest DEF EventsInv
<1>4. Events!WaitingRegistered' /\ \A p \in Events!Prios : Events!Waiting(p)' = Events!Waiting(p)
  BY <1>1, RingsRest DEF EventsInv
<1>5. Walks'
  BY <1>1, WalkRests DEF EventsInv
<1>6. Overtaken'
  BY <1>1, TurnsRest DEF EventsInv, Events!Pending
<1> QED BY <1>2, <1>3, <1>4, <1>5, <1>6 DEF EventsInv, QueueSteps, QueueStep

\* The table changes while nobody walks a list.
LEMMA IdleWalks ==
    ASSUME Walks, depth = 0, QueueTypes, UNCHANGED <<depth, eventsPc>>
    PROVE  Walks' /\ eventsPc = "idle"
<1>1. eventsPc = "idle"
  BY DEF Walks
<1> QED BY <1>1 DEF Walks

\* A subscription takes a free entry and puts it at the head.
LEMMA SubscribeKeeps ==
    ASSUME EventsInv, NEW t \in Events!Types, Events!Subscribe(t)
    PROVE  EventsInv' /\ QueueSteps
<1>1. PICK e \in Events!Subs :
        /\ id[e] = 0 /\ nextId # 0
        /\ id' = [id EXCEPT ![e] = nextId]
        /\ nextId' = (nextId + 1) % Events!IdMod
        /\ list' = [list EXCEPT ![t] = <<e>> \o list[t]]
  BY DEF Events!Subscribe, Events!IdsLeft
<1>2. /\ UNCHANGED <<build, types, eventsFrozen, items, rd, wr, dropped, rejected, depth>>
      /\ UNCHANGED <<sinceFair, fairCursor, eventsPc, left, item, sub, calledNow, bypassed>>
      /\ depth = 0 /\ Len(list[t]) < Events!FanOut
  BY DEF Events!Subscribe, Events!ChangeAllowed, Events!ring, Events!fair, Events!call
<1>3. /\ QueueTypes /\ OnePlace /\ FreeIsOut /\ build \in Builds
      /\ list \in [Events!Types -> Seq(Events!Subs)]
      /\ id \in [Events!Subs -> 0 .. Events!IdMod - 1] /\ nextId \in 0 .. Events!IdMod - 1
  BY DEF EventsInv, QueueTypes
<1> DEFINE old == list[t]
           new == <<e>> \o list[t]
<1>4. old \in Seq(Events!Subs) /\ Len(old) \in Nat /\ DOMAIN old = 1 .. Len(old)
  BY <1>3
<1>5. /\ new \in Seq(Events!Subs) /\ Len(new) = Len(old) + 1 /\ new[1] = e
      /\ \A i \in 1 .. Len(old) : new[i + 1] = old[i]
      /\ DOMAIN new = 1 .. Len(old) + 1
  BY <1>4
<1>6. \A i \in DOMAIN new : (i = 1 /\ new[i] = e) \/ (i - 1 \in DOMAIN old /\ new[i] = old[i - 1])
  <2> SUFFICES ASSUME NEW i \in 1 .. Len(old) + 1, i # 1
               PROVE  i - 1 \in 1 .. Len(old) /\ new[i] = old[i - 1]
    BY <1>4, <1>5
  <2>1. i - 1 \in 1 .. Len(old) /\ (i - 1) + 1 = i
    BY <1>4
  <2> QED BY <1>5, <2>1
<1>7. \A u \in Events!Types : list'[u] = IF u = t THEN new ELSE list[u]
  BY <1>1, <1>3
<1> HIDE DEF new
<1>8. \A u \in Events!Types : \A i \in DOMAIN list[u] : list[u][i] # e
  BY <1>1, <1>3 DEF FreeIsOut, Events!Entries
<1>9. OnePlace'
  <2>1. ASSUME NEW u \in Events!Types, NEW v \in Events!Types,
               NEW i \in DOMAIN list'[u], NEW j \in DOMAIN list'[v], list'[u][i] = list'[v][j]
        PROVE  u = v /\ i = j
    <3>0. \A x, y \in Events!Types : \A k \in DOMAIN list[x], l \in DOMAIN list[y] :
              list[x][k] = list[y][l] => x = y /\ k = l
      BY <1>3 DEF OnePlace
    <3>1. CASE u = t /\ v = t
      <4>1. i \in DOMAIN new /\ j \in DOMAIN new /\ new[i] = new[j]
        BY <1>7, <2>1, <3>1
      <4>2. i \in Int /\ j \in Int
        BY <1>4, <1>5, <4>1
      <4>3. i = 1 \/ (i - 1 \in DOMAIN old /\ new[i] = old[i - 1])
        BY <1>6, <4>1
      <4>4. j = 1 \/ (j - 1 \in DOMAIN old /\ new[j] = old[j - 1])
        BY <1>6, <4>1
      <4>5. i = 1 <=> j = 1
        BY <1>5, <1>8, <4>1, <4>3, <4>4
      <4>6. i # 1 => i - 1 = j - 1
        BY <3>0, <4>1, <4>3, <4>4, <4>5
      <4>7. i = j
        BY <4>2, <4>5, <4>6
      <4> QED BY <3>1, <4>7
    <3>2. CASE u = t /\ v # t
      <4>1. j \in DOMAIN list[v] /\ i \in DOMAIN new /\ new[i] = list[v][j]
        BY <1>7, <2>1, <3>2
      <4> QED BY <1>6, <1>8, <3>0, <3>2, <4>1
    <3>3. CASE u # t /\ v = t
      <4>1. i \in DOMAIN list[u] /\ j \in DOMAIN new /\ new[j] = list[u][i]
        BY <1>7, <2>1, <3>3
      <4> QED BY <1>6, <1>8, <3>0, <3>3, <4>1
    <3>4. CASE u # t /\ v # t
      BY <1>7, <2>1, <3>0, <3>4
    <3> QED BY <3>1, <3>2, <3>3, <3>4
  <2> QED BY <1>2, <2>1, BuildStays DEF OnePlace
<1>10. FreeIsOut'
  <2>1. ASSUME NEW d \in Events!Subs, d # e, NEW u \in Events!Types
        PROVE  d \in Events!Entries(u)' <=> d \in Events!Entries(u)
    <3>1. CASE u = t
      <4>1. list'[u] = new /\ list[u] = old
        BY <1>7, <3>1
      <4>2. (\E i \in DOMAIN new : new[i] = d) <=> (\E i \in DOMAIN old : old[i] = d)
        <5>1. \A i \in DOMAIN old : i + 1 \in DOMAIN new /\ new[i + 1] = old[i]
          BY <1>4, <1>5
        <5> HIDE DEF old
        <5> QED BY <1>6, <2>1, <5>1
      <4> QED BY <4>1, <4>2 DEF Events!Entries
    <3>2. CASE u # t
      BY <1>7, <3>2 DEF Events!Entries
    <3> QED BY <3>1, <3>2
  <2>2. e \in Events!Entries(t)'
    <3>1. 1 \in DOMAIN new /\ new[1] = e
      BY <1>4, <1>5
    <3> QED BY <1>7, <3>1 DEF Events!Entries
  <2>3. ASSUME NEW d \in Events!Subs
        PROVE  id'[d] = 0 <=> \A u \in Events!Types : d \notin Events!Entries(u)'
    <3>1. CASE d = e
      BY <1>1, <1>3, <2>2, <3>1
    <3>2. CASE d # e
      BY <1>1, <1>3, <2>1, <3>2 DEF FreeIsOut
    <3> QED BY <3>1, <3>2
  <2> QED BY <1>2, <2>3, BuildStays DEF FreeIsOut
<1>11. QueueTypes'
  <2>1. list' \in [Events!Types -> Seq(Events!Subs)]
    BY <1>1, <1>3, <1>5 DEF new
  <2>2. \A u \in Events!Types : Len(list'[u]) <= Events!FanOut
    <3>1. Events!FanOut \in Nat
      BY <1>3, BuildFacts
    <3>2. Len(new) <= Events!FanOut
      BY <1>2, <1>4, <1>5, <3>1
    <3>3. \A u \in Events!Types : Len(list[u]) <= Events!FanOut
      BY <1>3 DEF QueueTypes
    <3> HIDE DEF old
    <3> QED BY <1>7, <3>2, <3>3
  <2>3. nextId' \in 0 .. Events!IdMod - 1
    <3>1. Events!IdMod \in Nat \ {0}
      BY <1>3, BuildFacts
    <3>2. nextId + 1 \in Nat
      BY <1>3, <3>1
    <3> QED BY <1>1, <3>1, <3>2, ModIs
  <2>4. id' \in [Events!Subs -> 0 .. Events!IdMod - 1]
    BY <1>1, <1>3
  <2> QED BY <1>2, <1>3, <2>1, <2>2, <2>3, <2>4, BuildStays DEF QueueTypes, Events!Nil
<1>12. Events!WaitingRegistered' /\ \A p \in Events!Prios : Events!Waiting(p)' = Events!Waiting(p)
  BY <1>2, RingsRest DEF EventsInv
<1>13. Walks'
  BY <1>2, <1>3, IdleWalks DEF EventsInv
<1>14. Overtaken'
  BY <1>2, TurnsRest DEF EventsInv, Events!Pending
<1> QED BY <1>9, <1>10, <1>11, <1>12, <1>13, <1>14 DEF EventsInv, QueueSteps, QueueStep

\* A sequence without the entry of one place.
Without(s, i) == SubSeq(s, 1, i - 1) \o SubSeq(s, i + 1, Len(s))
Back(j, i) == IF j < i THEN j ELSE j + 1
\* A list without its entry at i has the others, in order.
LEMMA WithoutIs ==
    ASSUME NEW S, NEW s \in Seq(S), NEW i \in 1 .. Len(s)
    PROVE  /\ Without(s, i) \in Seq(S) /\ Len(Without(s, i)) = Len(s) - 1
           /\ Without(s, i) = [j \in 1 .. Len(s) - 1 |-> s[Back(j, i)]]
           /\ \A j \in 1 .. Len(s) - 1 : Back(j, i) \in 1 .. Len(s) /\ Back(j, i) # i
           /\ \A k \in 1 .. Len(s) : k # i => \E j \in 1 .. Len(s) - 1 : Back(j, i) = k
           /\ \A j, k \in 1 .. Len(s) - 1 : Back(j, i) = Back(k, i) => j = k
<1> DEFINE n == Len(s)
           f == SubSeq(s, 1, i - 1)
           g == SubSeq(s, i + 1, n)
<1>1. n \in Nat /\ i \in 1 .. n
  OBVIOUS
<1>2. /\ f \in Seq(S) /\ Len(f) = i - 1
      /\ \A j \in 1 .. i - 1 : f[j] = s[j]
  <2>1. 1 \in 1 .. Len(s) + 1 /\ i - 1 \in 1 - 1 .. Len(s)
    BY <1>1
  <2>2. /\ f \in Seq(S) /\ Len(f) = (i - 1) - 1 + 1
        /\ \A j \in 1 .. (i - 1) - 1 + 1 : f[j] = s[1 + j - 1]
    BY <2>1, SubSeqProperties
  <2> HIDE DEF f, n
  <2>3. \A j \in 1 .. i - 1 : 1 + j - 1 = j
    BY <1>1
  <2> QED BY <1>1, <2>2, <2>3
<1>3. /\ g \in Seq(S) /\ Len(g) = n - i
      /\ \A j \in 1 .. n - i : g[j] = s[i + j]
  <2>1. i + 1 \in 1 .. Len(s) + 1 /\ n \in (i + 1) - 1 .. Len(s)
    BY <1>1
  <2>2. /\ g \in Seq(S) /\ Len(g) = n - (i + 1) + 1
        /\ \A j \in 1 .. n - (i + 1) + 1 : g[j] = s[(i + 1) + j - 1]
    BY <2>1, SubSeqProperties
  <2> HIDE DEF g, n
  <2>3. \A j \in 1 .. n - i : (i + 1) + j - 1 = i + j
    BY <1>1
  <2> QED BY <1>1, <2>2, <2>3
<1> HIDE DEF f, g
<1>4. /\ f \o g \in Seq(S) /\ Len(f \o g) = Len(f) + Len(g)
      /\ \A j \in 1 .. Len(f) + Len(g) :
            (f \o g)[j] = IF j <= Len(f) THEN f[j] ELSE g[j - Len(f)]
  BY <1>2, <1>3, ConcatProperties
<1>5. Len(f) + Len(g) = n - 1
  BY <1>1, <1>2, <1>3
<1>6. ASSUME NEW j \in 1 .. n - 1
      PROVE  Back(j, i) \in 1 .. n /\ Back(j, i) # i /\ (f \o g)[j] = s[Back(j, i)]
  <2>1. CASE j < i
    <3>1. j \in 1 .. i - 1 /\ j \in 1 .. n /\ j <= Len(f) /\ j # i
      BY <1>1, <1>2, <2>1
    <3> QED BY <1>2, <1>4, <1>5, <2>1, <3>1 DEF Back
  <2>2. CASE ~(j < i)
    <3>1. j - (i - 1) \in 1 .. n - i /\ i + (j - (i - 1)) = j + 1
          /\ j + 1 \in 1 .. n /\ ~(j <= Len(f)) /\ j + 1 # i
      BY <1>1, <1>2, <2>2
    <3> QED BY <1>2, <1>3, <1>4, <1>5, <2>2, <3>1 DEF Back
  <2> QED BY <2>1, <2>2
<1>7. ASSUME NEW k \in 1 .. n, k # i PROVE \E j \in 1 .. n - 1 : Back(j, i) = k
  <2> DEFINE j == IF k < i THEN k ELSE k - 1
  <2>1. j \in 1 .. n - 1 /\ Back(j, i) = k
    BY <1>1, <1>7 DEF Back
  <2> QED BY <2>1
<1>8. \A j, k \in 1 .. n - 1 : Back(j, i) = Back(k, i) => j = k
  BY <1>1 DEF Back
<1>9. Without(s, i) = f \o g
  BY DEF Without, f, g, n
<1>10. Without(s, i) = [j \in 1 .. n - 1 |-> s[Back(j, i)]]
  <2> DEFINE r == f \o g
  <2>1. r \in Seq(S) /\ Len(r) = n - 1
    BY <1>4, <1>5
  <2>2. \A j \in 1 .. n - 1 : r[j] = s[Back(j, i)]
    BY <1>6
  <2> HIDE DEF r, n
  <2>0. r \in [1 .. n - 1 -> S]
    BY <2>1, LenProperties
  <2>3. r = [j \in 1 .. n - 1 |-> s[Back(j, i)]]
    BY <2>0, <2>2
  <2> QED BY <1>9, <2>3 DEF r
<1> QED BY <1>4, <1>5, <1>6, <1>7, <1>8, <1>9, <1>10

\* A subscription that ends gives its entry back.
LEMMA UnsubscribeKeeps ==
    ASSUME EventsInv, NEW t \in Events!Types, NEW e \in Events!Subs, Events!Unsubscribe(t, e)
    PROVE  EventsInv' /\ QueueSteps
<1>1. PICK i \in DOMAIN list[t] :
        /\ list[t][i] = e
        /\ list' = [list EXCEPT ![t] = Without(list[t], i)]
  BY DEF Events!Unsubscribe, Without
<1>2. /\ UNCHANGED <<build, types, nextId, eventsFrozen, items, rd, wr, dropped, rejected>>
      /\ UNCHANGED <<depth, sinceFair, fairCursor, eventsPc, left, item, sub, calledNow>>
      /\ UNCHANGED bypassed /\ depth = 0 /\ id' = [id EXCEPT ![e] = 0]
  BY DEF Events!Unsubscribe, Events!ChangeAllowed, Events!ring, Events!fair, Events!call
<1>3. /\ QueueTypes /\ OnePlace /\ FreeIsOut /\ build \in Builds
      /\ list \in [Events!Types -> Seq(Events!Subs)]
      /\ id \in [Events!Subs -> 0 .. Events!IdMod - 1]
  BY DEF EventsInv, QueueTypes
<1> DEFINE old == list[t]
           n == Len(old) - 1
           new == Without(old, i)
<1>4. old \in Seq(Events!Subs) /\ Len(old) \in Nat /\ DOMAIN old = 1 .. Len(old)
      /\ i \in 1 .. Len(old)
  BY <1>3
<1>5. /\ new \in Seq(Events!Subs) /\ Len(new) = n
      /\ \A j \in 1 .. n : Back(j, i) \in DOMAIN old /\ Back(j, i) # i /\ new[j] = old[Back(j, i)]
      /\ \A k \in DOMAIN old : k # i => \E j \in 1 .. n : Back(j, i) = k
      /\ \A j, k \in 1 .. n : Back(j, i) = Back(k, i) => j = k
  <2>1. new \in Seq(Events!Subs) /\ Len(new) = n
    BY <1>4, WithoutIs
  <2>2. \A j \in 1 .. n : Back(j, i) \in 1 .. Len(old) /\ Back(j, i) # i
    BY <1>4, WithoutIs
  <2>0. new = [j \in 1 .. n |-> old[Back(j, i)]]
    BY <1>4, WithoutIs
  <2>3. \A k \in 1 .. Len(old) : k # i => \E j \in 1 .. n : Back(j, i) = k
    BY <1>4, WithoutIs
  <2>4. \A j, k \in 1 .. n : Back(j, i) = Back(k, i) => j = k
    BY <1>4, WithoutIs
  <2> HIDE DEF new, n, old
  <2> QED BY <1>4, <2>0, <2>1, <2>2, <2>3, <2>4
<1>6. DOMAIN new = 1 .. n
  BY <1>5
<1>7. \A u \in Events!Types : list'[u] = IF u = t THEN new ELSE list[u]
  BY <1>1, <1>3
<1>8. /\ \A x, y \in Events!Types : \A k \in DOMAIN list[x], l \in DOMAIN list[y] :
            list[x][k] = list[y][l] => x = y /\ k = l
      /\ list[t][i] = e
  BY <1>1, <1>3 DEF OnePlace
<1> HIDE DEF new, n
<1>9. OnePlace'
  <2>1. ASSUME NEW u \in Events!Types, NEW v \in Events!Types,
               NEW j \in DOMAIN list'[u], NEW k \in DOMAIN list'[v], list'[u][j] = list'[v][k]
        PROVE  u = v /\ j = k
    <3>1. CASE u = t /\ v = t
      <4>1. j \in 1 .. n /\ k \in 1 .. n /\ new[j] = new[k]
        BY <1>6, <1>7, <2>1, <3>1
      <4>2. Back(j, i) = Back(k, i)
        BY <1>5, <1>8, <4>1
      <4> QED BY <1>5, <3>1, <4>1, <4>2
    <3>2. CASE u = t /\ v # t
      <4>1. j \in 1 .. n /\ k \in DOMAIN list[v] /\ new[j] = list[v][k]
        BY <1>6, <1>7, <2>1, <3>2
      <4> QED BY <1>5, <1>8, <3>2, <4>1
    <3>3. CASE u # t /\ v = t
      <4>1. k \in 1 .. n /\ j \in DOMAIN list[u] /\ new[k] = list[u][j]
        BY <1>6, <1>7, <2>1, <3>3
      <4> QED BY <1>5, <1>8, <3>3, <4>1
    <3>4. CASE u # t /\ v # t
      BY <1>7, <1>8, <2>1, <3>4
    <3> QED BY <3>1, <3>2, <3>3, <3>4
  <2> QED BY <1>2, <2>1, BuildStays DEF OnePlace
<1>10. FreeIsOut'
  <2>1. ASSUME NEW d \in Events!Subs, d # e, NEW u \in Events!Types
        PROVE  d \in Events!Entries(u)' <=> d \in Events!Entries(u)
    <3>1. CASE u = t
      <4>1. list'[u] = new /\ list[u] = old
        BY <1>7, <3>1
      <4>2. (\E j \in DOMAIN new : new[j] = d) <=> (\E k \in DOMAIN old : old[k] = d)
        BY <1>5, <1>6, <1>8, <2>1
      <4> QED BY <4>1, <4>2 DEF Events!Entries
    <3>2. CASE u # t
      BY <1>7, <3>2 DEF Events!Entries
    <3> QED BY <3>1, <3>2
  <2>2. ASSUME NEW u \in Events!Types PROVE e \notin Events!Entries(u)'
    <3>1. ASSUME NEW j \in DOMAIN list'[u] PROVE list'[u][j] # e
      <4>1. CASE u = t
        <5>1. j \in 1 .. n /\ list'[u] = new
          BY <1>6, <1>7, <3>1, <4>1
        <5> QED BY <1>5, <1>8, <5>1
      <4>2. CASE u # t
        BY <1>7, <1>8, <3>1, <4>2
      <4> QED BY <4>1, <4>2
    <3> QED BY <3>1 DEF Events!Entries
  <2>3. ASSUME NEW d \in Events!Subs
        PROVE  id'[d] = 0 <=> \A u \in Events!Types : d \notin Events!Entries(u)'
    <3>1. CASE d = e
      BY <1>2, <1>3, <2>2, <3>1
    <3>2. CASE d # e
      BY <1>2, <1>3, <2>1, <3>2 DEF FreeIsOut
    <3> QED BY <3>1, <3>2
  <2> QED BY <1>2, <2>3, BuildStays DEF FreeIsOut
<1>11. QueueTypes'
  <2>1. list' \in [Events!Types -> Seq(Events!Subs)]
    BY <1>1, <1>3, <1>5 DEF new
  <2>2. \A u \in Events!Types : Len(list'[u]) <= Events!FanOut
    <3>1. Events!FanOut \in Nat /\ Len(old) <= Events!FanOut
      BY <1>3, BuildFacts DEF QueueTypes
    <3>2. Len(new) <= Events!FanOut
      BY <1>4, <1>5, <3>1 DEF n
    <3>3. \A u \in Events!Types : Len(list[u]) <= Events!FanOut
      BY <1>3 DEF QueueTypes
    <3> HIDE DEF old
    <3> QED BY <1>7, <3>2, <3>3
  <2>3. id' \in [Events!Subs -> 0 .. Events!IdMod - 1]
    <3>1. 0 \in 0 .. Events!IdMod - 1
      BY <1>3, BuildFacts
    <3> QED BY <1>2, <1>3, <3>1
  <2> QED BY <1>2, <1>3, <2>1, <2>2, <2>3, BuildStays DEF QueueTypes, Events!Nil
<1>12. Events!WaitingRegistered' /\ \A p \in Events!Prios : Events!Waiting(p)' = Events!Waiting(p)
  BY <1>2, RingsRest DEF EventsInv
<1>13. Walks'
  BY <1>2, <1>3, IdleWalks DEF EventsInv
<1>14. Overtaken'
  BY <1>2, TurnsRest DEF EventsInv, Events!Pending
<1> QED BY <1>9, <1>10, <1>11, <1>12, <1>13, <1>14 DEF EventsInv, QueueSteps, QueueStep

\* A reset, and the calls and returns of bm_event_process, leave nothing half done.
LEMMA EventResetKeeps ==
    ASSUME EventsInv, Events!Reset
    PROVE  EventsInv' /\ QueueSteps
<1>0. QueueTypes /\ build \in Builds /\ build' = build
  BY DEF EventsInv, QueueTypes, Events!Reset
<1>1. /\ types' = {} /\ list' = [t \in Events!Types |-> <<>>]
      /\ id' = [e \in Events!Subs |-> 0] /\ nextId' = 1 /\ eventsFrozen' = FALSE
      /\ items' = [p \in Events!Prios |-> [i \in Events!Index |-> none]]
      /\ rd' = [p \in Events!Prios |-> 0] /\ wr' = [p \in Events!Prios |-> 0]
      /\ dropped' = 0 /\ rejected' = 0 /\ depth = 0
      /\ sinceFair' = 0 /\ fairCursor' = Events!FirstCursor
      /\ bypassed' = [p \in Events!Prios |-> 0]
      /\ UNCHANGED <<depth, eventsPc, left, item, sub, calledNow>>
  BY DEF Events!Reset, Events!ClearRings, Events!NoItem, Events!call
<1>2. /\ Events!NPrio \in Nat \ {0} /\ Events!BurstMax \in Nat \ {0}
      /\ Events!IdMod \in Nat /\ Events!IdMod >= 2
      /\ Events!FanOut \in Nat /\ Events!CounterMax \in Nat
  BY <1>0, BuildFacts
<1>3. /\ 0 \in Events!Prios /\ Events!FirstCursor \in Events!Prios /\ 0 \in Events!Index
      /\ Events!NPrio - 1 \in Events!Prios /\ Events!Index = 0 .. Events!Depth - 1
      /\ Events!Depth \in Nat \ {0}
  BY <1>0, PrioFacts
<1>4. \A t \in Events!Types : list'[t] = <<>>
  BY <1>1
<1>5. QueueTypes'
  <2>1. list' \in [Events!Types -> Seq(Events!Subs)]
    BY <1>1
  <2>2. \A t \in Events!Types : Len(list'[t]) <= Events!FanOut
    BY <1>2, <1>4
  <2>3. /\ 0 \in 0 .. Events!IdMod - 1 /\ 1 \in 0 .. Events!IdMod - 1
        /\ 0 \in 0 .. Events!CounterMax /\ 0 \in 0 .. Events!BurstMax
    BY <1>2
  <2>4. /\ id' \in [Events!Subs -> 0 .. Events!IdMod - 1] /\ nextId' \in 0 .. Events!IdMod - 1
        /\ dropped' \in 0 .. Events!CounterMax /\ rejected' \in 0 .. Events!CounterMax
        /\ sinceFair' \in 0 .. Events!BurstMax /\ bypassed' \in [Events!Prios -> Nat]
    BY <1>1, <2>3
  <2>5. /\ items' \in [Events!Prios -> [Events!Index -> Events!Types \cup {none}]]
        /\ rd' \in [Events!Prios -> Events!Index] /\ wr' \in [Events!Prios -> Events!Index]
    BY <1>1, <1>3
  <2>6. types' \subseteq Events!Types /\ eventsFrozen' \in BOOLEAN /\ fairCursor' \in Events!Prios
    BY <1>1, <1>3
  <2> QED BY <1>0, <1>1, <2>1, <2>2, <2>4, <2>5, <2>6, BuildStays DEF QueueTypes, Events!Nil
<1>6. OnePlace'
  BY <1>0, <1>4, BuildStays DEF OnePlace
<1>7. FreeIsOut'
  BY <1>0, <1>1, <1>4, BuildStays DEF FreeIsOut, Events!Entries
<1>8. \A p \in Events!Prios : Events!Waiting(p)' = <<>>
  <2> SUFFICES ASSUME NEW p \in Events!Prios PROVE Events!Waiting(p)' = <<>>
    OBVIOUS
  <2>1. Events!Waiting(p)' = Waits(Events!Depth, items'[p], wr'[p], rd'[p])
    BY <1>0, WaitingIs
  <2>2. /\ wr'[p] = 0 /\ rd'[p] = 0 /\ 0 \in 0 .. Events!Depth - 1
        /\ items'[p] \in [0 .. Events!Depth - 1 -> {none}]
    BY <1>1, <1>3
  <2> QED BY <1>3, <2>1, <2>2, NothingWaits
<1>9. Events!WaitingRegistered'
  BY <1>0, <1>8, BuildStays DEF Events!WaitingRegistered
<1>10. Walks'
  BY <1>0, <1>1, IdleWalks DEF EventsInv
<1>11. Overtaken'
  <2>1. sinceFair' = 0 /\ fairCursor' \in Nat /\ \A p \in Events!Prios : bypassed'[p] = 0
    BY <1>1, <1>2, <1>3 DEF Events!Prios
  <2>2. Events!NPrio > 1 => fairCursor' = 1
    BY <1>1 DEF Events!FirstCursor
  <2>3. Events!NPrio > 1 => (Events!BurstMax + 1) * Round(fairCursor') + sinceFair' = 0
    BY <1>2, <2>1, <2>2 DEF Round
  <2>4. /\ Events!Prios' = Events!Prios /\ Events!NPrio' = Events!NPrio
        /\ Events!BurstMax' = Events!BurstMax
    BY <1>0, BuildStays
  <2>5. (Events!NPrio > 1 => (Events!BurstMax + 1) * Round(fairCursor) + sinceFair = 0)'
    BY <2>3, <2>4 DEF Round
  <2> QED BY <1>2, <1>3, <2>1, <2>4, <2>5 DEF Overtaken
<1> QED BY <1>1, <1>5, <1>6, <1>7, <1>8, <1>9, <1>10, <1>11
        DEF EventsInv, QueueSteps, QueueStep

\* bm_event_process is called.
LEMMA ProcessCallKeeps ==
    ASSUME EventsInv, NEW n \in Events!Budgets, Events!ProcessCall(n)
    PROVE  EventsInv' /\ QueueSteps
<1>0. QueueTypes /\ build \in Builds /\ build' = build
  BY DEF EventsInv, QueueTypes, Events!ProcessCall
<1>1. /\ UNCHANGED <<build, types, list, id, nextId, eventsFrozen, items, rd, wr, dropped>>
      /\ UNCHANGED <<rejected, sinceFair, fairCursor, item, sub, calledNow, bypassed>>
      /\ depth' = 1 /\ eventsPc' = "loop" /\ left' = n
  BY DEF Events!ProcessCall, Events!table, Events!ring, Events!fair
<1>2. n \in Nat
  BY <1>0, BuildFacts
<1>3. QueueTypes'
  BY <1>0, <1>1, <1>2, BuildStays DEF QueueTypes, Events!Nil
<1>4. OnePlace' /\ FreeIsOut'
  BY <1>1, ListsRest DEF EventsInv
<1>5. Events!WaitingRegistered' /\ \A p \in Events!Prios : Events!Waiting(p)' = Events!Waiting(p)
  BY <1>1, RingsRest DEF EventsInv
<1>6. Walks'
  BY <1>1 DEF Walks
<1>7. Overtaken'
  BY <1>1, TurnsRest DEF EventsInv, Events!Pending
<1> QED BY <1>3, <1>4, <1>5, <1>6, <1>7 DEF EventsInv, QueueSteps, QueueStep

\* The end of an event's walk and the end of a call.
LEMMA ReturnsKeep ==
    ASSUME EventsInv, Events!Dispatched \/ Events!ProcessReturn
    PROVE  EventsInv' /\ QueueSteps
<1>0. QueueTypes /\ build \in Builds /\ build' = build
  BY DEF EventsInv, QueueTypes, Events!Dispatched, Events!ProcessReturn
<1>1. /\ UNCHANGED <<build, types, list, id, nextId, eventsFrozen, items, rd, wr, dropped>>
      /\ UNCHANGED <<rejected, fairCursor, sub, bypassed>>
      /\ sinceFair' \in {sinceFair, 0} /\ left' \in {left, 0} /\ item' \in {item, none}
      /\ calledNow' \in {calledNow, {}} /\ eventsPc \in {"walk", "loop"}
      /\ eventsPc' \in {"loop", "idle"} /\ depth' = IF eventsPc' = "idle" THEN depth - 1 ELSE depth
  BY DEF Events!Dispatched, Events!ProcessReturn, Events!table, Events!ring, Events!fair,
         Events!NoItem
<1>3. QueueTypes'
  <2>1. sinceFair' \in 0 .. Events!BurstMax
    <3>1. Events!BurstMax \in Nat
      BY <1>0, BuildFacts
    <3> QED BY <1>0, <1>1, <3>1 DEF QueueTypes
  <2>2. left' \in Nat /\ item' \in Events!Types \cup {none} /\ calledNow' \subseteq Events!Subs
    BY <1>0, <1>1 DEF QueueTypes
  <2> QED BY <1>0, <1>1, <2>1, <2>2, BuildStays DEF QueueTypes, Events!Nil
<1>4. OnePlace' /\ FreeIsOut'
  BY <1>1, ListsRest DEF EventsInv
<1>5. Events!WaitingRegistered' /\ \A p \in Events!Prios : Events!Waiting(p)' = Events!Waiting(p)
  BY <1>1, RingsRest DEF EventsInv
<1>6. Walks'
  <2>1. depth = 1
    BY <1>1 DEF EventsInv, Walks
  <2> QED BY <1>1, <2>1 DEF Walks
<1>7. Overtaken'
  <2>1. CASE sinceFair' = sinceFair
    BY <1>1, <2>1, TurnsRest DEF EventsInv, Events!Pending
  <2>2. CASE sinceFair' # sinceFair
    <3>1. \A p \in Events!Prios : ~Events!Pending(p)
      BY <2>2 DEF Events!Dispatched, Events!ProcessReturn, Events!fair
    <3>2. \A p \in Events!Prios : bypassed'[p] = 0
      BY <1>1, <3>1 DEF EventsInv, Overtaken
    <3>3. /\ 0 \in Events!Prios /\ Events!NPrio - 1 \in Events!Prios
          /\ Events!BurstMax \in Nat /\ fairCursor \in Nat /\ sinceFair' = 0
      <4>1. Events!BurstMax \in Nat /\ sinceFair' = 0
        BY <1>0, <1>1, <2>2, BuildFacts
      <4>2. /\ 0 \in Events!Prios /\ Events!NPrio - 1 \in Events!Prios
            /\ \A q \in Events!Prios : q \in Nat
        BY <1>0, PrioFacts
      <4>3. fairCursor \in Events!Prios
        BY <1>0 DEF QueueTypes
      <4> QED BY <4>1, <4>2, <4>3
    <3>4. Round(fairCursor) \in Nat
      BY <3>3 DEF Round
    <3>5. (Events!BurstMax + 1) * Round(fairCursor) \in Nat
      BY <3>3, <3>4
    <3>6. Events!Prios' = Events!Prios /\ Events!NPrio' = Events!NPrio
          /\ Events!BurstMax' = Events!BurstMax /\ Round(fairCursor)' = Round(fairCursor)
      BY <1>0, <1>1, BuildStays DEF Round
    <3> QED BY <3>2, <3>3, <3>5, <3>6 DEF Overtaken
  <2> QED BY <2>1, <2>2
<1> QED BY <1>3, <1>4, <1>5, <1>6, <1>7 DEF EventsInv, QueueSteps, QueueStep

\* The entry after one is the next of its list.
LEMMA AfterIs ==
    ASSUME QueueTypes, OnePlace, NEW u \in Events!Types, NEW k \in 1 .. Len(list[u])
    PROVE  Events!After(list[u][k]) = IF k < Len(list[u]) THEN list[u][k + 1] ELSE Events!Nil
<1> DEFINE e == list[u][k]
<1>1. list \in [Events!Types -> Seq(Events!Subs)]
  BY DEF QueueTypes
<1>2. \A t \in Events!Types : DOMAIN list[t] = 1 .. Len(list[t]) /\ Len(list[t]) \in Nat
  BY <1>1
<1>3. \A t \in Events!Types : \A i \in DOMAIN list[t] : list[t][i] = e => t = u /\ i = k
  BY <1>2 DEF OnePlace
<1> HIDE DEF e
<1>e. e = list[u][k] /\ k \in DOMAIN list[u]
  BY <1>2 DEF e
<1>4. (\E t \in Events!Types : \E i \in DOMAIN list[t] : list[t][i] = e /\ i < Len(list[t]))
        <=> k < Len(list[u])
  BY <1>3, <1>e
<1> DEFINE t0 == CHOOSE t \in Events!Types : e \in Events!Entries(t)
           i0 == CHOOSE i \in DOMAIN list[t0] : list[t0][i] = e
<1>5. Events!After(e) =
        IF \E t \in Events!Types : \E i \in DOMAIN list[t] : list[t][i] = e /\ i < Len(list[t])
        THEN list[t0][i0 + 1] ELSE Events!Nil
  BY DEF Events!After
<1>6. t0 = u
  <2>1. \A t \in Events!Types : e \in Events!Entries(t) <=> t = u
    BY <1>3, <1>e DEF Events!Entries
  <2> QED BY <2>1
<1> HIDE DEF t0
<1>8. i0 = k
  <2>1. \E i \in DOMAIN list[t0] : list[t0][i] = e
    BY <1>6, <1>e
  <2>2. i0 \in DOMAIN list[t0] /\ list[t0][i0] = e
    BY <2>1
  <2> QED BY <1>3, <1>6, <2>2
<1> HIDE DEF i0
<1>7. Events!After(e) = IF k < Len(list[u]) THEN list[u][k + 1] ELSE Events!Nil
  BY <1>4, <1>5, <1>6, <1>8
<1> QED BY <1>7 DEF e

\* A subscriber is called, and the walk goes on to the next.
LEMMA WalkKeeps ==
    ASSUME EventsInv, Events!Callback \/ Events!Advance
    PROVE  EventsInv' /\ QueueSteps
<1>0. QueueTypes /\ OnePlace /\ Walks /\ build \in Builds /\ build' = build
  BY DEF EventsInv, QueueTypes, Events!Callback, Events!Advance
<1>1. /\ UNCHANGED <<build, types, list, id, nextId, eventsFrozen, items, rd, wr, dropped>>
      /\ UNCHANGED <<rejected, depth, sinceFair, fairCursor, left, item, bypassed>>
      /\ eventsPc \in {"walk", "called"} /\ eventsPc' \in {"walk", "called"}
  BY DEF Events!Callback, Events!Advance, Events!table, Events!ring, Events!fair
<1>2. PICK k \in 1 .. Len(list[item]) + 1 : WalkAt(k)
  BY <1>0, <1>1 DEF Walks
<1>3. /\ item \in Events!Types /\ list[item] \in Seq(Events!Subs) /\ Len(list[item]) \in Nat
      /\ k \in Nat /\ \A i \in 1 .. Len(list[item]) : list[item][i] \in Events!Subs
  <2>1. item \in Events!Types /\ list[item] \in Seq(Events!Subs)
    BY <1>0, <1>1 DEF Walks, QueueTypes
  <2>2. Len(list[item]) \in Nat /\ \A i \in 1 .. Len(list[item]) : list[item][i] \in Events!Subs
    BY <2>1
  <2> QED BY <2>1, <2>2
<1>4. ASSUME Events!Callback
      PROVE  Walks' /\ calledNow' \subseteq Events!Subs /\ sub' \in Events!Subs \cup {Events!Nil}
  <2>1. /\ eventsPc = "walk" /\ eventsPc' = "called" /\ sub # Events!Nil /\ sub' = sub
        /\ calledNow' = calledNow \cup {sub}
    BY <1>4 DEF Events!Callback
  <2>2. k <= Len(list[item]) /\ sub = list[item][k]
    BY <1>2, <2>1 DEF WalkAt
  <2>3. calledNow = {list[item][i] : i \in 1 .. k - 1}
    BY <1>2, <2>1 DEF WalkAt
  <2>4. calledNow' = {list[item][i] : i \in 1 .. k}
    <3>1. \A i : i \in 1 .. k <=> (i \in 1 .. k - 1 \/ i = k)
      BY <1>3, <1>2
    <3> QED BY <2>1, <2>2, <2>3, <3>1
  <2>5. WalkAt(k)'
    BY <1>1, <2>1, <2>2, <2>4 DEF WalkAt
  <2>6. Walks'
    BY <1>0, <1>1, <1>2, <1>3, <2>1, <2>5, BuildStays DEF Walks
  <2>7. calledNow' \subseteq Events!Subs /\ sub' \in Events!Subs \cup {Events!Nil}
    <3>1. sub \in Events!Subs
      BY <1>3, <2>2, <1>2
    <3> QED BY <1>0, <2>1, <3>1 DEF QueueTypes
  <2> QED BY <2>6, <2>7
<1>5. ASSUME Events!Advance
      PROVE  Walks' /\ calledNow' \subseteq Events!Subs /\ sub' \in Events!Subs \cup {Events!Nil}
  <2>1. /\ eventsPc = "called" /\ eventsPc' = "walk" /\ sub' = Events!After(sub)
        /\ calledNow' = calledNow
    BY <1>5 DEF Events!Advance
  <2>2. k \in 1 .. Len(list[item]) /\ sub = list[item][k]
    BY <1>2, <2>1 DEF WalkAt
  <2>3. calledNow = {list[item][i] : i \in 1 .. k}
    BY <1>2, <2>1 DEF WalkAt
  <2>4. sub' = IF k < Len(list[item]) THEN list[item][k + 1] ELSE Events!Nil
    BY <1>0, <1>3, <2>1, <2>2, AfterIs
  <2>5. WalkAt(k + 1)'
    <3>1. (k + 1) - 1 = k /\ (k + 1 <= Len(list[item]) <=> k < Len(list[item]))
      BY <1>3
    <3> QED BY <1>1, <2>1, <2>3, <2>4, <3>1 DEF WalkAt
  <2>6. Walks'
    <3>1. k + 1 \in 1 .. Len(list[item]) + 1
      BY <1>3, <2>2
    <3> QED BY <1>0, <1>1, <1>3, <2>1, <2>5, <3>1, BuildStays DEF Walks
  <2>7. calledNow' \subseteq Events!Subs
    BY <1>0, <2>1 DEF QueueTypes
  <2>8. sub' \in Events!Subs \cup {Events!Nil}
    <3>1. k < Len(list[item]) => k + 1 \in 1 .. Len(list[item])
      BY <1>3, <2>2
    <3> QED BY <1>3, <2>4, <3>1
  <2> QED BY <2>6, <2>7, <2>8
<1>6. Walks' /\ calledNow' \subseteq Events!Subs /\ sub' \in Events!Subs \cup {Events!Nil}
  BY <1>4, <1>5
<1>7. QueueTypes'
  BY <1>0, <1>1, <1>6, BuildStays DEF QueueTypes, Events!Nil
<1>8. OnePlace' /\ FreeIsOut'
  BY <1>1, ListsRest DEF EventsInv
<1>9. Events!WaitingRegistered' /\ \A p \in Events!Prios : Events!Waiting(p)' = Events!Waiting(p)
  BY <1>1, RingsRest DEF EventsInv
<1>10. Overtaken'
  BY <1>1, TurnsRest DEF EventsInv, Events!Pending
<1> QED BY <1>6, <1>7, <1>8, <1>9, <1>10 DEF EventsInv, QueueSteps, QueueStep

\* An event is put in the ring of its priority.
LEMMA PublishKeeps ==
    ASSUME EventsInv, NEW t \in Events!Types, NEW p \in Events!Prios, Events!Publish(t, p)
    PROVE  EventsInv' /\ QueueSteps
<1>0. QueueTypes /\ build \in Builds /\ build' = build
  BY DEF EventsInv, QueueTypes, Events!Publish
<1>1. /\ UNCHANGED <<build, types, list, id, nextId, eventsFrozen, rd, dropped, rejected>>
      /\ UNCHANGED <<depth, sinceFair, fairCursor, eventsPc, left, item, sub, calledNow>>
      /\ UNCHANGED bypassed
      /\ t \in types /\ Events!Next1(wr[p]) # rd[p]
      /\ items' = [items EXCEPT ![p][wr[p]] = t]
      /\ wr' = [wr EXCEPT ![p] = Events!Next1(wr[p])]
  BY DEF Events!Publish, Events!Full, Events!table, Events!fair, Events!call
<1>2. /\ Events!Depth \in Nat \ {0} /\ Events!Index = 0 .. Events!Depth - 1
      /\ rd[p] \in 0 .. Events!Depth - 1 /\ wr[p] \in 0 .. Events!Depth - 1
      /\ items[p] \in [0 .. Events!Depth - 1 -> Events!Types \cup {none}]
  BY <1>0, WaitingIs
<1>3. Events!Next1(wr[p]) \in Events!Index
  BY <1>0, <1>2, PrioFacts
<1>4. /\ items' \in [Events!Prios -> [Events!Index -> Events!Types \cup {none}]]
      /\ wr' \in [Events!Prios -> Events!Index]
      /\ items'[p] = [items[p] EXCEPT ![wr[p]] = t] /\ wr'[p] = Events!Next1(wr[p])
      /\ \A q \in Events!Prios : q # p => items'[q] = items[q] /\ wr'[q] = wr[q]
  BY <1>0, <1>1, <1>3 DEF QueueTypes
<1>5. QueueTypes'
  BY <1>0, <1>1, <1>4, BuildStays DEF QueueTypes, Events!Nil
<1>6. \A q \in Events!Prios : q # p => Events!Waiting(q)' = Events!Waiting(q)
  <2> SUFFICES ASSUME NEW q \in Events!Prios, q # p
               PROVE  Events!Waiting(q)' = Events!Waiting(q)
    OBVIOUS
  <2>1. /\ Events!Waiting(q) = Waits(Events!Depth, items[q], wr[q], rd[q])
        /\ Events!Waiting(q)' = Waits(Events!Depth, items'[q], wr'[q], rd'[q])
    BY <1>0, WaitingIs
  <2> QED BY <1>1, <1>4, <2>1
<1>7. Events!Waiting(p)' = Append(Events!Waiting(p), t)
  <2>1. /\ Events!Waiting(p) = Waits(Events!Depth, items[p], wr[p], rd[p])
        /\ Events!Waiting(p)' = Waits(Events!Depth, items'[p], wr'[p], rd'[p])
    BY <1>0, WaitingIs
  <2>2. (wr[p] + 1) % Events!Depth # rd[p] /\ wr'[p] = (wr[p] + 1) % Events!Depth
    BY <1>1, <1>4 DEF Events!Next1
  <2>3. t \in Events!Types \cup {none}
    OBVIOUS
  <2> DEFINE m == Events!Depth
             T == Events!Types \cup {none}
             s == items[p]
             w == wr[p]
             r == rd[p]
             z == items'[p]
             w1 == wr'[p]
  <2>4. /\ m \in Nat \ {0} /\ s \in [0 .. m - 1 -> T] /\ w \in 0 .. m - 1 /\ r \in 0 .. m - 1
        /\ t \in T /\ w1 \in 0 .. m - 1 /\ w1 = (w + 1) % m /\ w1 # r
        /\ z \in [0 .. m - 1 -> T] /\ z[w] = t
        /\ \A i \in 0 .. m - 1 : i # w => z[i] = s[i]
    BY <1>2, <1>3, <1>4, <2>2, <2>3
  <2> HIDE DEF m, T, s, w, r, z, w1
  <2>5. Waits(m, z, w1, r) = Append(Waits(m, s, w, r), z[w])
    <3>1. Written(m, T, s, w, r, z, w1)
      BY <2>4 DEF Written
    <3> QED BY <3>1, OneIsWritten
  <2> QED BY <1>1, <2>1, <2>4, <2>5 DEF m, s, w, r, z, w1
<1>8. Events!WaitingRegistered'
  <2>1. Events!Waiting(p) \in Seq(Events!Types \cup {none})
    <3> DEFINE m == Events!Depth
               T == Events!Types \cup {none}
               s == items[p]
               w == wr[p]
               r == rd[p]
    <3>1. m \in Nat \ {0} /\ s \in [0 .. m - 1 -> T] /\ w \in 0 .. m - 1 /\ r \in 0 .. m - 1
      BY <1>2
    <3>2. Events!Waiting(p) = Waits(m, s, w, r)
      BY <1>0, WaitingIs
    <3> HIDE DEF m, T, s, w, r
    <3>3. Waits(m, s, w, r) \in [1 .. Span(m, w, r) -> T]
      BY <3>1, WaitsAre
    <3>5. Span(m, w, r) \in 0 .. m - 1
      BY <3>1, SpanIs
    <3>4. Waits(m, s, w, r) \in Seq(T)
      BY <3>1, <3>3, <3>5
    <3> QED BY <3>2, <3>4 DEF T
  <2>2. \A i \in DOMAIN Events!Waiting(p) : Events!Waiting(p)[i] \in types
    BY DEF EventsInv, Events!WaitingRegistered
  <2> DEFINE f == Events!Waiting(p)
             g == Append(f, t)
  <2>3. \A i \in DOMAIN g : g[i] \in types
    <3>1. /\ DOMAIN g = 1 .. Len(f) + 1 /\ DOMAIN f = 1 .. Len(f) /\ Len(f) \in Nat
          /\ g[Len(f) + 1] = t /\ \A i \in 1 .. Len(f) : g[i] = f[i]
      <4>1. f \in Seq(Events!Types \cup {none})
        BY <2>1
      <4> HIDE DEF f
      <4> QED BY <4>1, AppendProperties
    <3> HIDE DEF f, g
    <3>2. \A i \in 1 .. Len(f) + 1 : i = Len(f) + 1 \/ i \in 1 .. Len(f)
      BY <3>1
    <3>3. \A i \in DOMAIN f : f[i] \in types
      BY <2>2 DEF f
    <3> QED BY <1>1, <3>1, <3>2, <3>3
  <2>4. Events!Waiting(p)' = g
    BY <1>7
  <2> HIDE DEF f, g
  <2>5. ASSUME NEW q \in Events!Prios
        PROVE  \A i \in DOMAIN Events!Waiting(q)' : Events!Waiting(q)'[i] \in types
    <3>1. CASE q = p
      BY <2>3, <2>4, <3>1
    <3>2. CASE q # p
      BY <1>6, <3>2 DEF EventsInv, Events!WaitingRegistered
    <3> QED BY <3>1, <3>2
  <2> QED BY <1>0, <1>1, <2>5, BuildStays DEF Events!WaitingRegistered
<1>9. OnePlace' /\ FreeIsOut'
  BY <1>1, ListsRest DEF EventsInv
<1>10. Walks'
  BY <1>1, WalkRests DEF EventsInv
<1>11. Overtaken'
  <2>1. \A q \in Events!Prios : Events!Pending(q) => Events!Pending(q)'
    BY <1>1, <1>4 DEF Events!Pending
  <2> QED BY <1>1, <2>1, TurnsRest DEF EventsInv
<1>12. QueueSteps
  BY <1>6, <1>7 DEF QueueSteps, QueueStep
<1> QED BY <1>5, <1>8, <1>9, <1>10, <1>11, <1>12 DEF EventsInv

\* Of any numbers one is the smallest.
LEMMA SmallestIs ==
    ASSUME NEW S \in SUBSET Nat, S # {}
    PROVE  \E l \in S : \A k \in S : l <= k
<1> DEFINE R == OpToRel(<, Nat)
<1>1. IsWellFoundedOn(R, Nat)
  BY NatLessThanWellFounded
<1>2. \A k, l \in Nat : k < l => <<k, l>> \in R
  BY DEF OpToRel
<1> HIDE DEF R
<1>3. PICK l \in S : \A k \in S : ~(<<k, l>> \in R)
  BY <1>1, WFMin
<1>4. \A k \in S : k \in Nat /\ ~(k < l)
  BY <1>2, <1>3
<1> QED BY <1>4

\* The ring an event is taken from when nothing lower is due.
LEMMA HighestIs ==
    ASSUME build \in Builds, \E q \in Events!Prios : Events!Pending(q)
    PROVE  /\ Events!Highest \in Events!Prios /\ Events!Pending(Events!Highest)
           /\ \A q \in Events!Prios : Events!Pending(q) => Events!Highest <= q
<1> DEFINE S == {q \in Events!Prios : Events!Pending(q)}
<1>1. S \in SUBSET Nat /\ S # {}
  BY PrioFacts
<1>2. PICK l \in S : \A k \in S : l <= k
  BY <1>1, SmallestIs
<1>3. /\ l \in Events!Prios /\ Events!Pending(l)
      /\ \A q \in Events!Prios : Events!Pending(q) => l <= q
  BY <1>2
<1> QED BY <1>3 DEF Events!Highest

\* How far a priority is behind the cursor of the turns.
LEMMA DistanceIs ==
    ASSUME build \in Builds, fairCursor \in Events!Prios, NEW q \in Events!Prios
    PROVE  /\ Events!Distance(q) = IF q >= fairCursor THEN q - fairCursor
                                   ELSE q - fairCursor + Events!NPrio
           /\ Events!Distance(q) \in Nat
<1>1. Events!NPrio \in Nat \ {0} /\ Events!Prios = 0 .. Events!NPrio - 1
  BY BuildFacts DEF Events!Prios
<1>2. Events!Distance(q) = Span(Events!NPrio, q, fairCursor)
  BY DEF Events!Distance, Span
<1> DEFINE m == Events!NPrio
<1>3. m \in Nat \ {0} /\ q \in 0 .. m - 1 /\ fairCursor \in 0 .. m - 1
  BY <1>1
<1> HIDE DEF m
<1>4. /\ Span(m, q, fairCursor) = IF q >= fairCursor THEN q - fairCursor
                                  ELSE q - fairCursor + m
      /\ Span(m, q, fairCursor) \in 0 .. m - 1
  BY <1>3, SpanIs
<1>5. Span(m, q, fairCursor) \in Nat
  BY <1>3, <1>4
<1> QED BY <1>2, <1>4, <1>5 DEF m

\* The ring of the turn that ends a burst.
LEMMA FairChoiceIs ==
    ASSUME build \in Builds, fairCursor \in Events!Prios, Events!LowerPending
    PROVE  /\ Events!FairChoice \in Events!Prios /\ Events!FairChoice > Events!Highest
           /\ Events!Pending(Events!FairChoice)
           /\ \A q \in Events!Prios : q > Events!Highest /\ Events!Pending(q)
                 => Events!Distance(Events!FairChoice) <= Events!Distance(q)
<1> DEFINE C == {q \in Events!Prios : q > Events!Highest /\ Events!Pending(q)}
           S == {Events!Distance(q) : q \in C}
<1>1. C # {}
  BY DEF Events!LowerPending
<1>2. S \in SUBSET Nat /\ S # {}
  <2>1. \A q \in C : Events!Distance(q) \in Nat
    BY DistanceIs
  <2> QED BY <1>1, <2>1
<1>3. PICK l \in S : \A k \in S : l <= k
  <2> HIDE DEF S
  <2> QED BY <1>2, SmallestIs
<1>4. PICK f \in C : l = Events!Distance(f)
  BY <1>3
<1>5. \A q \in C : Events!Distance(f) <= Events!Distance(q)
  BY <1>3, <1>4
<1>6. /\ f \in Events!Prios /\ f > Events!Highest /\ Events!Pending(f)
      /\ \A q \in Events!Prios : q > Events!Highest /\ Events!Pending(q)
            => Events!Distance(f) <= Events!Distance(q)
  BY <1>5
<1> QED BY <1>6 DEF Events!FairChoice

\* The ring an event is taken from.
LEMMA SelectedIs ==
    ASSUME build \in Builds, fairCursor \in Events!Prios,
           \E q \in Events!Prios : Events!Pending(q)
    PROVE  /\ Events!Selected \in Events!Prios /\ Events!Pending(Events!Selected)
           /\ Events!BurstOver => /\ Events!Selected = Events!FairChoice
                                  /\ Events!Selected > Events!Highest
           /\ ~Events!BurstOver => Events!Selected = Events!Highest
<1>1. CASE Events!BurstOver
  <2>1. Events!LowerPending /\ Events!Selected = Events!FairChoice
    BY <1>1 DEF Events!BurstOver, Events!Selected
  <2> QED BY <1>1, <2>1, FairChoiceIs
<1>2. CASE ~Events!BurstOver
  BY <1>2, HighestIs DEF Events!Selected
<1> QED BY <1>1, <1>2

\* A sum of bursts only grows.
LEMMA BurstsGrow ==
    ASSUME NEW n \in Nat, NEW x \in Nat, NEW y \in Nat, x <= y
    PROVE  n * x <= n * y /\ n * (x + 1) = n * x + n /\ n * x \in Nat /\ n * y \in Nat
<1>1. n * (y - x) \in Nat /\ n * y = n * x + n * (y - x)
  <2>1. y - x \in Nat /\ y = x + (y - x)
    OBVIOUS
  <2> QED BY <2>1
<1> QED BY <1>1

\* A turn goes to the next lower priority behind the cursor, so the lowest one is overtaken
\* by each of the others once.
LEMMA TurnIs ==
    ASSUME build \in Builds, fairCursor \in Events!Prios, Events!BurstOver,
           Events!Pending(Events!NPrio - 1), Events!Selected # Events!NPrio - 1
    PROVE  /\ Events!Selected \in Nat /\ fairCursor <= Events!Selected
           /\ 1 <= Events!Selected
           /\ Events!CursorAfter(Events!Selected) = Events!Selected + 1
<1> DEFINE l == Events!NPrio - 1
           f == Events!Selected
           c == fairCursor
<1>1. /\ Events!NPrio \in Nat \ {0} /\ Events!Prios = 0 .. l /\ l \in Events!Prios
  BY BuildFacts, PrioFacts DEF Events!Prios
<1>2. /\ f = Events!FairChoice /\ f \in Events!Prios /\ f > Events!Highest
      /\ Events!Highest \in Events!Prios
  BY <1>1, SelectedIs, HighestIs
<1>3. l > Events!Highest
  <2>1. Events!Highest <= l
    BY <1>1, HighestIs
  <2> QED BY <1>1, <1>2, <2>1
<1>4. Events!Distance(f) <= Events!Distance(l)
  BY <1>1, <1>2, <1>3, FairChoiceIs DEF Events!BurstOver
<1>5. /\ Events!Distance(f) = IF f >= c THEN f - c ELSE f - c + Events!NPrio
      /\ Events!Distance(l) = IF l >= c THEN l - c ELSE l - c + Events!NPrio
  BY <1>1, <1>2, DistanceIs
<1>6. f \in 0 .. l /\ c \in 0 .. l /\ Events!Highest \in 0 .. l /\ f # l /\ l \in Nat
  BY <1>1, <1>2
<1>7. Events!CursorAfter(f) = (f + 1) % Events!NPrio
  BY DEF Events!CursorAfter
<1> HIDE DEF f, c
<1>8. c <= f
  BY <1>1, <1>4, <1>5, <1>6
<1>9. 1 <= f
  BY <1>2, <1>6
<1> DEFINE N == Events!NPrio
<1>10. N \in Nat \ {0} /\ f + 1 \in 0 .. N - 1
  BY <1>1, <1>6
<1>11. (f + 1) % N = f + 1
  <2> HIDE DEF N, l
  <2>1. f + 1 \in 0 .. 2 * N - 1 /\ f + 1 < N
    BY <1>10
  <2> QED BY <1>10, <2>1, ModSmall
<1> QED BY <1>6, <1>7, <1>8, <1>9, <1>11 DEF f, c

\* An event is taken: the others of the highest and the lowest priority are overtaken once
\* more, which the burst and the turns account for.
LEMMA TurnsKeep ==
    ASSUME EventsInv, Events!Pop
    PROVE  /\ Overtaken' /\ sinceFair' \in 0 .. Events!BurstMax /\ fairCursor' \in Events!Prios
           /\ bypassed' \in [Events!Prios -> Nat]
<1> DEFINE f == Events!Selected
           l == Events!NPrio - 1
           n == Events!BurstMax + 1
<1>0. /\ build \in Builds /\ build' = build /\ sinceFair \in 0 .. Events!BurstMax
      /\ fairCursor \in Events!Prios /\ bypassed \in [Events!Prios -> Nat]
      /\ rd \in [Events!Prios -> Events!Index] /\ wr' = wr
  BY DEF EventsInv, QueueTypes, Events!Pop, Events!table
<1>1. /\ Events!NPrio \in Nat \ {0} /\ Events!BurstMax \in Nat \ {0} /\ Events!BypassMax \in Nat
      /\ Events!Prios = 0 .. l /\ 0 \in Events!Prios /\ l \in Events!Prios
      /\ \A q \in Events!Prios : q \in Nat /\ q <= l
  BY <1>0, BuildFacts, PrioFacts DEF Events!Prios
<1>2. /\ \E q \in Events!Prios : Events!Pending(q)
      /\ sinceFair' = IF Events!LowerPending /\ ~Events!BurstOver THEN sinceFair + 1 ELSE 0
      /\ fairCursor' = IF Events!BurstOver THEN Events!CursorAfter(f) ELSE fairCursor
      /\ rd' = [rd EXCEPT ![f] = Events!Next1(@)]
      /\ bypassed' = [q \in Events!Prios |->
                         IF q = f \/ ~Events!Pending(q) THEN 0
                         ELSE IF bypassed[q] = Events!BypassMax THEN Events!BypassMax
                         ELSE bypassed[q] + 1]
  BY DEF Events!Pop, Events!TakeFrom
<1>3. /\ f \in Events!Prios /\ Events!Pending(f)
      /\ Events!BurstOver => f > Events!Highest
      /\ ~Events!BurstOver => f = Events!Highest
  BY <1>0, <1>2, SelectedIs
<1>4. /\ Events!Highest \in Events!Prios
      /\ \A q \in Events!Prios : Events!Pending(q) => Events!Highest <= q
  BY <1>0, <1>2, HighestIs
<1>5. /\ Events!BurstOver => Events!LowerPending /\ sinceFair >= Events!BurstMax
      /\ Events!LowerPending /\ ~Events!BurstOver => sinceFair < Events!BurstMax
  BY <1>0, <1>1 DEF Events!BurstOver
<1>6. sinceFair' \in 0 .. Events!BurstMax
  BY <1>0, <1>1, <1>2, <1>5
<1>7. fairCursor' \in Events!Prios
  <2>1. Events!CursorAfter(f) \in Events!Prios
    <3> HIDE DEF f
    <3>1. f + 1 \in Nat /\ Events!NPrio \in Nat \ {0}
      BY <1>1, <1>3
    <3>2. (f + 1) % Events!NPrio \in 0 .. Events!NPrio - 1
      BY <3>1, ModIs
    <3> QED BY <3>2 DEF Events!CursorAfter, Events!Prios
  <2> QED BY <1>0, <1>2, <2>1
<1>8. \A q \in Events!Prios :
        /\ bypassed'[q] \in Nat /\ bypassed'[q] <= bypassed[q] + 1
        /\ q = f \/ ~Events!Pending(q) => bypassed'[q] = 0
  <2> SUFFICES ASSUME NEW q \in Events!Prios
               PROVE  /\ bypassed'[q] \in Nat /\ bypassed'[q] <= bypassed[q] + 1
                      /\ q = f \/ ~Events!Pending(q) => bypassed'[q] = 0
    OBVIOUS
  <2>1. bypassed'[q] = IF q = f \/ ~Events!Pending(q) THEN 0
                       ELSE IF bypassed[q] = Events!BypassMax THEN Events!BypassMax
                       ELSE bypassed[q] + 1
    BY <1>2
  <2>2. bypassed[q] \in Nat
    BY <1>0
  <2> QED BY <1>1, <2>1, <2>2
<1>9. bypassed' \in [Events!Prios -> Nat]
  BY <1>2, <1>8
<1>10. ASSUME NEW q \in Events!Prios, ~Events!Pending(q)' PROVE bypassed'[q] = 0
  <2>1. q = f \/ ~Events!Pending(q)
    BY <1>0, <1>2, <1>10 DEF Events!Pending
  <2> QED BY <1>8, <2>1
<1>11. bypassed'[0] <= 1 /\ (bypassed'[0] > 0 => sinceFair' = 0)
  <2>1. CASE Events!BurstOver
    <3>1. bypassed[0] <= 1 /\ (bypassed[0] > 0 => sinceFair = 0) /\ bypassed[0] \in Nat
      BY <1>0, <1>1 DEF EventsInv, Overtaken
    <3>2. bypassed[0] = 0
      BY <1>0, <1>1, <1>5, <2>1, <3>1
    <3>3. bypassed'[0] \in Nat /\ bypassed'[0] <= bypassed[0] + 1
      BY <1>1, <1>8
    <3> QED BY <1>2, <2>1, <3>2, <3>3
  <2>2. CASE ~Events!BurstOver
    <3>1. 0 = f \/ ~Events!Pending(0)
      BY <1>1, <1>3, <1>4, <2>2
    <3>2. bypassed'[0] = 0
      BY <1>1, <1>8, <3>1
    <3> QED BY <3>2
  <2> QED BY <2>1, <2>2
<1>12. Events!NPrio = 1 => bypassed'[0] = 0
  <2>1. Events!NPrio = 1 => f = 0
    BY <1>1, <1>3
  <2> QED BY <1>1, <1>8, <2>1
<1>13. Events!NPrio > 1 => bypassed'[l] <= n * Round(fairCursor') + sinceFair'
  <2> SUFFICES ASSUME Events!NPrio > 1
               PROVE  bypassed'[l] <= n * Round(fairCursor') + sinceFair'
    OBVIOUS
  <2>1. /\ bypassed[l] <= n * Round(fairCursor) + sinceFair
        /\ bypassed[l] \in Nat /\ n \in Nat
        /\ bypassed'[l] \in Nat /\ bypassed'[l] <= bypassed[l] + 1
    BY <1>0, <1>1, <1>8 DEF EventsInv, Overtaken
  <2>2. /\ Round(fairCursor) \in Nat /\ Round(fairCursor') \in Nat
        /\ sinceFair \in Nat /\ sinceFair' \in Nat
    <3>1. fairCursor \in Nat /\ fairCursor' \in Nat
      BY <1>0, <1>1, <1>7
    <3>2. sinceFair \in Nat /\ sinceFair' \in Nat
      BY <1>0, <1>1, <1>6
    <3>3. \A c \in Nat : Round(c) \in Nat
      BY DEF Round
    <3> QED BY <3>1, <3>2, <3>3
  <2>3. n * Round(fairCursor) \in Nat /\ n * Round(fairCursor') \in Nat
    <3> HIDE DEF n
    <3> QED BY <2>1, <2>2, BurstsGrow
  <2>4. CASE f = l \/ ~Events!Pending(l)
    <3>1. bypassed'[l] = 0
      BY <1>1, <1>8, <2>4
    <3> HIDE DEF n
    <3> QED BY <2>2, <2>3, <3>1
  <2>5. CASE f # l /\ Events!Pending(l) /\ ~Events!BurstOver
    <3>1. f = Events!Highest /\ f \in Nat /\ f < l
      BY <1>1, <1>3, <1>4, <2>5
    <3>2. Events!LowerPending
      BY <1>1, <2>5, <3>1 DEF Events!LowerPending
    <3>3. sinceFair' = sinceFair + 1 /\ fairCursor' = fairCursor
      BY <1>2, <2>5, <3>2
    <3> HIDE DEF n, l
    <3> QED BY <2>1, <2>2, <2>3, <3>3
  <2>6. CASE f # l /\ Events!Pending(l) /\ Events!BurstOver
    <3>1. /\ f \in Nat /\ fairCursor <= f /\ 1 <= f /\ Events!CursorAfter(f) = f + 1
      BY <1>0, <2>6, TurnIs
    <3>2. sinceFair' = 0 /\ fairCursor' = f + 1 /\ Round(fairCursor') = f
      BY <1>2, <2>6, <3>1 DEF Round
    <3>3. sinceFair <= n - 1 /\ fairCursor \in Nat
      BY <1>0, <1>1
    <3>4. Round(fairCursor) + 1 <= f
      BY <3>1, <3>3 DEF Round
    <3> DEFINE x == Round(fairCursor)
    <3> HIDE DEF n, l, f, x
    <3>5. x \in Nat /\ x + 1 \in Nat /\ x + 1 <= f
      BY <2>2, <3>4 DEF x
    <3>6. n * (x + 1) <= n * f
      BY <2>1, <3>1, <3>5, BurstsGrow
    <3>7. n * (x + 1) = n * x + n
      BY <2>1, <3>5
    <3>8. n * x \in Nat /\ n * f \in Nat
      BY <2>1, <3>1, <3>5, BurstsGrow
    <3>9. bypassed[l] <= n * x + sinceFair
      BY <2>1 DEF x
    <3> QED BY <2>1, <2>2, <3>2, <3>3, <3>6, <3>7, <3>8, <3>9
  <2> QED BY <2>4, <2>5, <2>6
<1>14. /\ Events!Prios' = Events!Prios /\ Events!NPrio' = Events!NPrio
       /\ Events!BurstMax' = Events!BurstMax
  BY <1>0, BuildStays
<1>15. Overtaken'
  <2>1. Round(fairCursor)' = Round(fairCursor')
    BY DEF Round
  <2> QED BY <1>10, <1>11, <1>12, <1>13, <1>14, <2>1 DEF Overtaken
<1> QED BY <1>6, <1>7, <1>9, <1>15

\* What a ring holds, when it is not empty.
LEMMA OldestIs ==
    ASSUME QueueTypes, Events!WaitingRegistered, NEW p \in Events!Prios, Events!Pending(p)
    PROVE  /\ Events!Waiting(p) # <<>> /\ Events!Waiting(p) \in Seq(Events!Types \cup {none})
           /\ items[p][rd[p]] = Head(Events!Waiting(p)) /\ items[p][rd[p]] \in types
           /\ Waits(Events!Depth, items[p], wr[p], Events!Next1(rd[p])) = Tail(Events!Waiting(p))
<1> DEFINE m == Events!Depth
           T == Events!Types \cup {none}
           s == items[p]
           w == wr[p]
           r == rd[p]
<1>1. build \in Builds
  BY DEF QueueTypes
<1>2. m \in Nat \ {0} /\ s \in [0 .. m - 1 -> T] /\ w \in 0 .. m - 1 /\ r \in 0 .. m - 1
  BY <1>1, WaitingIs
<1>3. Events!Waiting(p) = Waits(m, s, w, r)
  BY <1>1, WaitingIs
<1>4. w # r
  BY DEF Events!Pending
<1>5. IsRing(m, T, s, w, r)
  BY <1>2 DEF IsRing
<1>6. Events!Next1(rd[p]) = (r + 1) % m
  BY DEF Events!Next1
<1> HIDE DEF m, T, s, w, r
<1>7. /\ Waits(m, s, w, r) # <<>> /\ Head(Waits(m, s, w, r)) = s[r]
      /\ Waits(m, s, w, (r + 1) % m) = Tail(Waits(m, s, w, r))
      /\ Waits(m, s, w, r)[1] = s[r] /\ 1 \in DOMAIN Waits(m, s, w, r)
      /\ Waits(m, s, w, r) \in Seq(T)
  BY <1>4, <1>5, OldestIsRead
<1>8. s[r] \in types
  BY <1>3, <1>7 DEF Events!WaitingRegistered
<1> QED BY <1>3, <1>6, <1>7, <1>8 DEF m, T, s, w, r

\* The oldest event of a priority is taken, and the walk starts at the head of the list.
LEMMA PopKeeps ==
    ASSUME EventsInv, Events!Pop
    PROVE  EventsInv' /\ QueueSteps
<1>p. PICK p : p = Events!Selected
  OBVIOUS
<1>0. /\ QueueTypes /\ build \in Builds /\ build' = build /\ fairCursor \in Events!Prios
      /\ Events!WaitingRegistered
  BY DEF EventsInv, QueueTypes, Events!Pop, Events!table
<1>1. /\ UNCHANGED <<build, types, list, id, nextId, eventsFrozen, items, wr, dropped>>
      /\ UNCHANGED <<rejected, depth>>
      /\ eventsPc = "loop" /\ left > 0 /\ eventsPc' = "walk" /\ calledNow' = {}
      /\ item' = items[p][rd[p]] /\ rd' = [rd EXCEPT ![p] = Events!Next1(@)]
      /\ sub' = IF list[item'] = <<>> THEN Events!Nil ELSE Head(list[item'])
      /\ left' = left - 1 /\ \E q \in Events!Prios : Events!Pending(q)
  BY <1>p DEF Events!Pop, Events!TakeFrom, Events!table, Events!Spend
<1>2. p \in Events!Prios /\ Events!Pending(p)
  BY <1>p, <1>0, <1>1, SelectedIs
<1>3. /\ Events!Waiting(p) # <<>> /\ Events!Waiting(p) \in Seq(Events!Types \cup {none})
      /\ item' = Head(Events!Waiting(p)) /\ item' \in types
      /\ Waits(Events!Depth, items[p], wr[p], Events!Next1(rd[p])) = Tail(Events!Waiting(p))
  BY <1>0, <1>1, <1>2, OldestIs
<1>4. /\ rd' \in [Events!Prios -> Events!Index] /\ rd'[p] = Events!Next1(rd[p])
      /\ \A q \in Events!Prios : q # p => rd'[q] = rd[q]
  <2>1. rd \in [Events!Prios -> Events!Index]
    BY <1>0 DEF QueueTypes
  <2>2. Events!Next1(rd[p]) \in Events!Index
    BY <1>0, <1>2, <2>1, PrioFacts
  <2> QED BY <1>1, <1>2, <2>1, <2>2
<1>5. /\ Overtaken' /\ sinceFair' \in 0 .. Events!BurstMax /\ fairCursor' \in Events!Prios
      /\ bypassed' \in [Events!Prios -> Nat]
  BY TurnsKeep
<1>6. item' \in Events!Types /\ list[item'] \in Seq(Events!Subs) /\ left' \in Nat
  <2>1. types \subseteq Events!Types /\ left \in Nat /\ left > 0
    BY <1>0, <1>1 DEF QueueTypes
  <2>2. item' \in Events!Types
    BY <1>3, <2>1
  <2> QED BY <1>0, <1>1, <2>1, <2>2 DEF QueueTypes
<1>7. WalkAt(1)' /\ 1 \in 1 .. Len(list[item']) + 1 /\ sub' \in Events!Subs \cup {Events!Nil}
  <2> DEFINE f == list[item']
  <2>1. f \in Seq(Events!Subs)
    BY <1>6
  <2>2. /\ Len(f) \in Nat /\ (f = <<>> <=> ~(1 <= Len(f)))
        /\ f # <<>> => Head(f) = f[1] /\ Head(f) \in Events!Subs
    <3> HIDE DEF f
    <3> QED BY <2>1
  <2>3. /\ sub' = (IF 1 <= Len(f) THEN f[1] ELSE Events!Nil)
        /\ sub' \in Events!Subs \cup {Events!Nil}
    BY <1>1, <2>2
  <2>4. {f[i] : i \in 1 .. 1 - 1} = {}
    OBVIOUS
  <2>5. 1 \in 1 .. Len(f) + 1
    BY <2>2
  <2> QED BY <1>1, <2>3, <2>4, <2>5 DEF WalkAt, Events!Nil
<1>8. Walks'
  <2>1. depth' = 1
    BY <1>1 DEF EventsInv, Walks
  <2>2. \E k \in 1 .. Len(list[item'])+ 1 : WalkAt(k)'
    BY <1>7
  <2> QED BY <1>0, <1>1, <1>6, <2>1, <2>2, BuildStays DEF Walks
<1>9. QueueTypes'
  BY <1>0, <1>1, <1>4, <1>5, <1>6, <1>7, BuildStays DEF QueueTypes, Events!Nil
<1>10. OnePlace' /\ FreeIsOut'
  BY <1>1, ListsRest DEF EventsInv
<1>11. Events!Waiting(p)' = Tail(Events!Waiting(p))
  <2>1. Events!Waiting(p)' = Waits(Events!Depth, items'[p], wr'[p], rd'[p])
    BY <1>0, <1>2, WaitingIs
  <2> QED BY <1>1, <1>3, <1>4, <2>1
<1>12. \A q \in Events!Prios : q # p => Events!Waiting(q)' = Events!Waiting(q)
  <2> SUFFICES ASSUME NEW q \in Events!Prios, q # p
               PROVE  Events!Waiting(q)' = Events!Waiting(q)
    OBVIOUS
  <2>1. /\ Events!Waiting(q) = Waits(Events!Depth, items[q], wr[q], rd[q])
        /\ Events!Waiting(q)' = Waits(Events!Depth, items'[q], wr'[q], rd'[q])
    BY <1>0, WaitingIs
  <2> QED BY <1>1, <1>4, <2>1
<1>13. Events!WaitingRegistered'
  <2>1. \A q \in Events!Prios : \A i \in DOMAIN Events!Waiting(q) : Events!Waiting(q)[i] \in types
    BY <1>0 DEF Events!WaitingRegistered
  <2> DEFINE f == Events!Waiting(p)
  <2>2. \A i \in DOMAIN Tail(f) : Tail(f)[i] \in types
    <3>1. f # <<>> /\ f \in Seq(Events!Types \cup {none})
      BY <1>3
    <3>2. \A i \in DOMAIN f : f[i] \in types
      BY <1>2, <2>1
    <3> HIDE DEF f
    <3>3. \A i \in DOMAIN Tail(f) : i + 1 \in DOMAIN f /\ Tail(f)[i] = f[i + 1]
      BY <3>1
    <3> QED BY <3>2, <3>3
  <2>3. ASSUME NEW q \in Events!Prios
        PROVE  \A i \in DOMAIN Events!Waiting(q)' : Events!Waiting(q)'[i] \in types
    <3>1. CASE q = p
      BY <1>11, <2>2, <3>1
    <3>2. CASE q # p
      BY <1>12, <2>1, <3>2
    <3> QED BY <3>1, <3>2
  <2> QED BY <1>0, <1>1, <2>3, BuildStays DEF Events!WaitingRegistered
<1>14. QueueSteps
  BY <1>3, <1>11, <1>12 DEF QueueSteps, QueueStep
<1> QED BY <1>5, <1>8, <1>9, <1>10, <1>13, <1>14 DEF EventsInv

\* Every step of the event queue keeps the invariant, and its rings are queues.
LEMMA EventsStep ==
    ASSUME EventsInv, Events!Next
    PROVE  EventsInv' /\ QueueSteps
<1>1. CASE Events!Reject \/ Events!Freeze
  BY <1>1, SmallStepsKeep
<1>2. ASSUME NEW t \in Events!Types,
             \/ Events!RegisterType(t) \/ \E p \in Events!Prios : Events!PublishOverflow(t, p)
      PROVE  EventsInv' /\ QueueSteps
  BY <1>2, SmallStepsKeep
<1>3. ASSUME NEW t \in Events!Types,
             Events!Subscribe(t) \/ \E e \in Events!Subs : Events!Unsubscribe(t, e)
      PROVE  EventsInv' /\ QueueSteps
  BY <1>3, SubscribeKeeps, UnsubscribeKeeps
<1>4. ASSUME NEW t \in Events!Types, NEW p \in Events!Prios, Events!Publish(t, p)
      PROVE  EventsInv' /\ QueueSteps
  BY <1>4, PublishKeeps
<1>5. ASSUME NEW n \in Events!Budgets, Events!ProcessCall(n)
      PROVE  EventsInv' /\ QueueSteps
  BY <1>5, ProcessCallKeeps
<1>6. CASE Events!Process
  BY <1>6, PopKeeps, WalkKeeps, ReturnsKeep DEF Events!Process
<1>7. CASE Events!Reset
  BY <1>7, EventResetKeeps
<1> QED BY <1>1, <1>2, <1>3, <1>4, <1>5, <1>6, <1>7 DEF Events!Next, Events!LateChange

\* The instance counts as the module does.
LEMMA EventsCardinality == \A S : Events!Cardinality(S) = Cardinality(S)
BY DEF Events!Cardinality, Cardinality

\* The entries of a list that differ are as many as the list is long.
LEMMA EntriesAre ==
    ASSUME QueueTypes, OnePlace, NEW t \in Events!Types
    PROVE  /\ Events!Entries(t) \subseteq Events!Subs
           /\ Events!Cardinality(Events!Entries(t)) = Len(list[t])
<1> DEFINE f == list[t]
           n == Len(f)
           S == Events!Entries(t)
<1>1. f \in Seq(Events!Subs) /\ n \in Nat
  BY DEF QueueTypes
<1>2. DOMAIN f = 1 .. n /\ f \in [1 .. n -> Events!Subs]
  BY <1>1
<1>3. S = {f[i] : i \in 1 .. n}
  BY <1>2 DEF Events!Entries
<1>4. \A i, j \in 1 .. n : f[i] = f[j] => i = j
  BY <1>2 DEF OnePlace
<1>5. S \subseteq Events!Subs
  BY <1>2, <1>3
<1> HIDE DEF f, n, S
<1>6. f \in [1 .. n -> S]
  <2>1. \A i \in 1 .. n : f[i] \in S
    BY <1>3
  <2> QED BY <1>2, <2>1
<1>7. f \in Bijection(1 .. n, S)
  <2>1. f \in Surjection(1 .. n, S)
    BY <1>3, <1>6 DEF Surjection
  <2>2. f \in Injection(1 .. n, S)
    BY <1>4, <1>6 DEF Injection, IsInjective
  <2> QED BY <2>1, <2>2 DEF Bijection
<1>8. IsFiniteSet(1 .. n) /\ Cardinality(1 .. n) = n
  <2>1. 1 \in Int /\ n \in Int
    BY <1>1
  <2>2. IsFiniteSet(1 .. n) /\ Cardinality(1 .. n) = IF 1 > n THEN 0 ELSE n - 1 + 1
    BY <2>1, FS_Interval
  <2> QED BY <1>1, <2>2
<1>9. Cardinality(S) = n
  <2>1. ExistsBijection(1 .. n, S)
    BY <1>7 DEF ExistsBijection
  <2>2. Cardinality(S) = Cardinality(1 .. n)
    BY <1>8, <2>1, FS_Bijection
  <2> QED BY <1>8, <2>2
<1>10. Events!Cardinality(S) = n
  BY <1>9, EventsCardinality
<1> QED BY <1>5, <1>10 DEF S, n, f

\* What the invariant says of the queue.
LEMMA QueueHolds ==
    ASSUME EventsInv
    PROVE  Events!TypeOK /\ Events!EveryoneCalled /\ Events!BoundedBypass
<1>1. /\ QueueTypes /\ OnePlace /\ FreeIsOut /\ Events!WaitingRegistered /\ Walks /\ Overtaken
      /\ build \in Builds
  BY DEF EventsInv, QueueTypes
<1>2. Events!ListsDisjoint
  <2>1. \A t, u \in Events!Types : t # u => Events!Entries(t) \cap Events!Entries(u) = {}
    BY <1>1 DEF OnePlace, Events!Entries
  <2>2. \A t \in Events!Types : Events!Cardinality(Events!Entries(t)) = Len(list[t])
    BY <1>1, EntriesAre
  <2> QED BY <1>1, <2>1, <2>2 DEF Events!ListsDisjoint, FreeIsOut
<1>3. Events!TypeOK
  <2>1. depth \in {0, 1}
    BY <1>1 DEF Walks
  <2>2. \A t \in Events!Types :
           Len(list[t]) <= Events!FanOut /\ Events!Entries(t) \subseteq Events!Subs
    BY <1>1, EntriesAre DEF QueueTypes
  <2> QED BY <1>1, <1>2, <2>1, <2>2 DEF QueueTypes, Events!TypeOK, Events!NoItem
<1>4. Events!EveryoneCalled
  <2> SUFFICES ASSUME eventsPc = "walk", sub = Events!Nil
               PROVE  calledNow = Events!Entries(item)
    BY DEF Events!EveryoneCalled
  <2>1. PICK k \in 1 .. Len(list[item]) + 1 : WalkAt(k)
    BY <1>1 DEF Walks
  <2>2. item \in Events!Types /\ list[item] \in Seq(Events!Subs)
    BY <1>1 DEF Walks, QueueTypes
  <2> DEFINE f == list[item]
             n == Len(f)
  <2>3. n \in Nat /\ DOMAIN f = 1 .. n /\ \A i \in 1 .. n : f[i] \in Events!Subs
    BY <2>2
  <2>4. Events!Nil \notin Events!Subs
    BY <1>1, BuildFacts DEF Events!Nil, Events!Subs
  <2>5. /\ sub = (IF k <= n THEN f[k] ELSE Events!Nil)
        /\ calledNow = {f[i] : i \in 1 .. k - 1}
    BY <2>1 DEF WalkAt
  <2>6. k \in 1 .. n + 1
    BY <2>1
  <2>7. Events!Entries(item) = {f[i] : i \in DOMAIN f}
    BY DEF Events!Entries
  <2> HIDE DEF f, n
  <2>8. k = n + 1
    BY <2>3, <2>4, <2>5, <2>6
  <2>9. k - 1 = n
    BY <2>3, <2>8
  <2> QED BY <2>3, <2>5, <2>7, <2>9
<1>5. Events!BoundedBypass
  <2> DEFINE l == Events!NPrio - 1
             n == Events!BurstMax + 1
  <2>1. /\ Events!NPrio \in Nat \ {0} /\ Events!BurstMax \in Nat \ {0} /\ l \in Events!Prios
        /\ \A q \in Events!Prios : q \in Nat /\ q <= l
    BY <1>1, BuildFacts, PrioFacts
  <2>2. bypassed[0] <= 1
    BY <1>1 DEF Overtaken
  <2>3. bypassed[l] <= n * l
    <3>1. CASE Events!NPrio = 1
      <4>1. l = 0 /\ n \in Nat
        BY <2>1, <3>1
      <4>2. bypassed[l] = 0
        BY <1>1, <3>1, <4>1 DEF Overtaken
      <4> HIDE DEF n, l
      <4> QED BY <4>1, <4>2
    <3>2. CASE Events!NPrio > 1
      <4>1. bypassed[l] <= n * Round(fairCursor) + sinceFair /\ bypassed[l] \in Nat
        BY <1>1, <2>1, <3>2 DEF Overtaken, QueueTypes
      <4>2. sinceFair \in Nat /\ sinceFair <= n - 1 /\ n \in Nat /\ l \in Nat /\ 1 <= l
        BY <1>1, <2>1, <3>2 DEF QueueTypes
      <4>3. fairCursor \in Nat /\ fairCursor <= l
        BY <1>1, <2>1 DEF QueueTypes
      <4> DEFINE x == Round(fairCursor)
      <4> HIDE DEF n, l
      <4>4. x \in Nat /\ x + 1 \in Nat /\ x + 1 <= l
        BY <4>2, <4>3 DEF Round
      <4> HIDE DEF x
      <4>5. n * (x + 1) <= n * l /\ n * x \in Nat /\ n * l \in Nat
        <5>1. n * (x + 1) <= n * l /\ n * l \in Nat
          BY <4>2, <4>4, BurstsGrow
        <5>2. n * x \in Nat
          BY <4>2, <4>4
        <5> QED BY <5>1, <5>2
      <4>6. n * (x + 1) = n * x + n
        BY <4>2, <4>4
      <4>7. bypassed[l] <= n * x + sinceFair /\ bypassed[l] \in Nat
        BY <4>1 DEF x
      <4> QED BY <4>2, <4>5, <4>6, <4>7
    <3> QED BY <2>1, <3>1, <3>2
  <2> QED BY <2>2, <2>3 DEF Events!BoundedBypass
<1> QED BY <1>3, <1>4, <1>5

-----------------------------------------------------------------------------
(* What a CPU does in time                                                     *)

TimingInv == TimerInv /\ WdgInv /\ EventsInv

\* What a behaviour is not about does not change.
LEMMA TimerStays ==
    ASSUME TimerInv, UNCHANGED vars
    PROVE  TimerInv'
<1>1. TypeOK'
  BY DEF TimerInv, TimerTypes, TypeOK, vars, timer, table, pass, history
<1> QED BY <1>1, TimerRests DEF vars

\* What the watchdog knows does not change without it.
LEMMA WatchdogStays ==
    ASSUME WdgInv, UNCHANGED wdgVars
    PROVE  WdgInv'
<1>1. /\ UNCHANGED <<setup, registered, fed, age, frozen, pc, loc, hb, lastHb, seen, changeAge>>
      /\ UNCHANGED <<stopped, called, sinceHw, silent, stops, changes>>
  BY DEF wdgVars
<1>2. Wdg!TypeOK'
  BY <1>1, SetupStays DEF WdgInv, WdgTypes, Wdg!TypeOK, Wdg!Ago
<1>3. WdgTypes'
  BY <1>1, <1>2, SetupStays DEF WdgInv, WdgTypes, Wdg!InFeed
<1>4. CheckInsCount'
  BY <1>1, SetupStays DEF WdgInv, CheckInsCount, Wdg!Ago
<1>5. ChangesAreTold' /\ StopsWhenClosed'
  BY <1>1 DEF WdgInv, ChangesAreTold, StopsWhenClosed, Wdg!InFeed
<1>6. GateKnows'
  BY <1>1, GateRests DEF WdgInv
<1> QED BY <1>3, <1>4, <1>5, <1>6 DEF WdgInv

\* Nor does what the event queue knows.
LEMMA EventsStay ==
    ASSUME EventsInv, UNCHANGED eventVars
    PROVE  EventsInv'
<1>1. /\ UNCHANGED <<build, types, list, id, nextId, eventsFrozen, items, rd, wr, dropped>>
      /\ UNCHANGED <<rejected, depth, sinceFair, fairCursor, eventsPc, left, item, sub>>
      /\ UNCHANGED <<calledNow, bypassed>>
  BY DEF eventVars
<1>2. QueueTypes'
  BY <1>1, BuildStays DEF EventsInv, QueueTypes, Events!Nil
<1>3. OnePlace' /\ FreeIsOut'
  BY <1>1, ListsRest DEF EventsInv
<1>4. Events!WaitingRegistered'
  BY <1>1, RingsRest DEF EventsInv
<1>5. Walks'
  BY <1>1, WalkRests DEF EventsInv
<1>6. Overtaken'
  BY <1>1, TurnsRest DEF EventsInv, Events!Pending
<1> QED BY <1>2, <1>3, <1>4, <1>5, <1>6 DEF EventsInv

\* A step is one of the timer, of the watchdog or of the event queue.
LEMMA TimingSteps ==
    ASSUME [TimingNext]_allVars
    PROVE  /\ UNCHANGED vars \/ Next \/ Race!Next
           /\ UNCHANGED wdgVars \/ Wdg!Next
           /\ UNCHANGED eventVars \/ Events!Next
BY DEF TimingNext, TimerNext, WatchdogNext, EventsNext, allVars

\* Every step keeps the three invariants.
LEMMA TimingStep ==
    ASSUME TimingInv, [TimingNext]_allVars
    PROVE  TimingInv'
<1>1. TimerInv'
  BY TimingSteps, TimerStays, TimerStep DEF TimingInv
<1>2. WdgInv'
  BY TimingSteps, WatchdogStays, WdgStep DEF TimingInv
<1>3. EventsInv'
  BY TimingSteps, EventsStay, EventsStep DEF TimingInv
<1> QED BY <1>1, <1>2, <1>3 DEF TimingInv

\* The timer, the watchdog and the queue keep what makes them correct.
THEOREM TimingHolds == TimingSpec => []TimingInv
<1>1. TimingInit => TimingInv
  BY TimerStarts, WdgStarts, EventsStart DEF TimingInit, TimingInv
<1>2. TimingInv /\ [TimingNext]_allVars => TimingInv'
  BY TimingStep
<1> QED BY <1>1, <1>2, PTL DEF TimingSpec

\* The timer, the watchdog and the event queue are well-formed: an entry of a
\* subscriber list has one owner, and what waits may be dispatched.
THEOREM TypesHold == TimingSpec => []TypesOK
<1>1. TimingInv => TypesOK
  <2> SUFFICES ASSUME TimingInv PROVE TypesOK
    OBVIOUS
  <2>1. TypeOK /\ Wdg!TypeOK /\ Events!TypeOK
    BY QueueHolds DEF TimingInv, TimerInv, TimerTypes, WdgInv, WdgTypes
  <2> QED BY <2>1 DEF TypesOK
<1> QED BY <1>1, TimingHolds, PTL

\* Every period of a slot is run or counted as missed, exactly once, across the wrap of the
\* counter and whoever makes the pass (bm_hrt.c:194-245, 264-275).
THEOREM PeriodsHold == TimingSpec => PeriodsAccounted
<1>1. TimingInv => OncePerPeriod /\ MissesAreExact
  <2> SUFFICES ASSUME TimingInv PROVE OncePerPeriod /\ MissesAreExact
    OBVIOUS
  <2>1. owed \in [Slots -> Nat] /\ ~miscounted
    BY DEF TimingInv, TimerInv, TimerTypes
  <2> QED BY <2>1 DEF OncePerPeriod, MissesAreExact
<1>2. TimingInv =>
         [\A p \in Passes :
             (EndPass(p) /\ started /\ fired[p] < PerIsr) =>
                 \A s \in Slots : owed[s] < Period[s] + Since(now, passNow[p])]_vars
  <2> SUFFICES ASSUME TimingInv, NEW p \in Passes, EndPass(p), started, fired[p] < PerIsr,
                      NEW s \in Slots
               PROVE  owed[s] < Period[s] + Since(now, passNow[p])
    OBVIOUS
  <2>1. slotCount = NSlots /\ at[p] # 0 /\ fired[p] \in 0 .. PerIsr /\ at[p] \in 0 .. NSlots + 1
    BY DEF TimingInv, TimerInv, TimerTypes, TimerKnows, TypeOK, EndPass, InPass
  <2>2. at[p] > NSlots
    BY <2>1, TickFacts DEF EndPass, OutOfSlots
  <2>3. s \in Passed(p)
    BY <2>1, <2>2, TickFacts DEF Passed, Slots
  <2>4. owed[s] < Period[s] + Late(p)
    BY <2>1, <2>3 DEF TimingInv, TimerInv, NoneLeftBehind
  <2> QED BY <2>4 DEF Late
<1> QED BY <1>1, <1>2, TimingHolds, PTL DEF PeriodsAccounted, NothingOverlooked

\* The hardware is fed only when every module has checked in in time and anew since the
\* last feed, and on nothing that changed meanwhile; the gate closes on a CPU only that was
\* silent, and once (bm_wdg.c:289-341; bm_mp_wdg.c:85-117).
THEOREM FeedsHold == TimingSpec => FeedsAreEarned
<1>1. TimingInv =>
         /\ [\A c \in Wdg!Ctx : Wdg!FeedHardware(c) =>
                \A m \in registered : called[m] <= Wdg!Timeout]_(Wdg!vars)
         /\ [\A c \in Wdg!Ctx : Wdg!FeedHardware(c) => registered \subseteq sinceHw]_(Wdg!vars)
         /\ [\A c \in Wdg!Ctx : Wdg!FeedHardware(c) => loc[c].undisturbed]_(Wdg!vars)
  BY GrantIsEarned DEF TimingInv
<1>2. TimingInv /\ [TimingNext]_allVars =>
         [(setup.feeders = {"main"} => Wdg!JustLook) /\ (Wdg!SafeStopOnce)']_allVars
  <2> SUFFICES ASSUME TimingInv, [TimingNext]_allVars
               PROVE  (setup.feeders = {"main"} => Wdg!JustLook) /\ (Wdg!SafeStopOnce)'
    OBVIOUS
  <2>1. (Wdg!SafeStopOnce)'
    BY TimingStep DEF TimingInv, WdgInv, StopsWhenClosed, Wdg!SafeStopOnce
  <2>2. ASSUME UNCHANGED wdgVars PROVE Wdg!JustLook
    BY <2>2 DEF Wdg!JustLook, wdgVars
  <2>3. ASSUME Wdg!Next, setup.feeders = {"main"} PROVE Wdg!JustLook
    BY <2>3, ClosesOnSilence DEF TimingInv
  <2> QED BY <2>1, <2>2, <2>3, TimingSteps
<1> QED BY <1>1, <1>2, TimingHolds, PTL
        DEF TimingSpec, FeedsAreEarned, Wdg!HwFeedsFresh, Wdg!CheckInsPayOnce,
            Wdg!NoFeedAcrossChange

\* Every subscriber is called for an event, and how often the highest and the lowest priority
\* are overtaken is bounded (bm_event.c:861-985, 1040-1075).
THEOREM ReachHolds == TimingSpec => []EventsReachAll
<1>1. TimingInv => EventsReachAll
  BY QueueHolds DEF TimingInv, EventsReachAll
<1> QED BY <1>1, TimingHolds, PTL

\* The ring of a priority is a queue.
THEOREM OrderHolds == TimingSpec => FirstInFirstOut
<1>1. TimingInv /\ [TimingNext]_allVars =>
         [\A p \in Events!Prios :
             \/ UNCHANGED Events!Waiting(p)
             \/ \E t \in Events!Types : Events!Waiting(p)' = Append(Events!Waiting(p), t)
             \/ Events!Waiting(p) # <<>> /\ Events!Waiting(p)' = Tail(Events!Waiting(p))
                  /\ item' = Head(Events!Waiting(p))
             \/ Events!Waiting(p)' = <<>> /\ types' = {}]_(Events!vars)
  <2> SUFFICES ASSUME TimingInv, [TimingNext]_allVars
               PROVE  QueueSteps \/ UNCHANGED Events!vars
    BY DEF QueueSteps, QueueStep
  <2>1. CASE UNCHANGED eventVars
    BY <2>1 DEF eventVars, Events!vars, Events!table, Events!ring, Events!fair, Events!call
  <2>2. CASE Events!Next
    BY <2>2, EventsStep DEF TimingInv
  <2> QED BY <2>1, <2>2, TimingSteps
<1> QED BY <1>1, TimingHolds, PTL DEF TimingSpec, FirstInFirstOut, Events!FirstInFirstOut

===============================================================================
