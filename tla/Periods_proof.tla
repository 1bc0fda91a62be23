----------------------------- MODULE Periods_proof -----------------------------
(* What one CPU runs in time, for every value of the constants: outputs of the  *)
(* activities of a schedule are whole and none is overwritten, every activity   *)
(* keeps its period, what is late and what is stale is counted and called so,   *)
(* and the ticker accounts for every period of its slots.                       *)
EXTENDS MCControl, TLAPS

-----------------------------------------------------------------------------
(* The time-triggered schedule.                                                *)

\* The constants of a plan, one by one.
PlanNumbers(p) ==
    /\ p.n \in Nat /\ p.nest \in Nat /\ p.budget \in Nat
    /\ p.frames \in Nat \ {0} /\ p.oldest \in Nat \ {0}
    /\ \A a \in 1 .. p.n :
          /\ p.every[a] \in Nat \ {0} /\ p.at[a] \in Nat /\ p.limit[a] \in Nat
          /\ p.at[a] < p.every[a] /\ p.frames % p.every[a] = 0

LEMMA PlanFacts ==
    ASSUME NEW p, Schedule(p)!TtAssumption  PROVE PlanNumbers(p)
<1>1. {p.n, p.nest, p.budget} \subseteq Nat /\ {p.frames, p.oldest} \subseteq Nat \ {0}
  BY DEF Schedule!TtAssumption
<1>2. ASSUME NEW a \in 1 .. p.n
      PROVE  /\ p.every[a] \in Nat \ {0} /\ p.at[a] \in Nat /\ p.limit[a] \in Nat
             /\ p.at[a] < p.every[a] /\ p.frames % p.every[a] = 0
  <2>1. {p.every[a], p.at[a], p.limit[a]} \subseteq Nat /\ p.at[a] < p.every[a]
        /\ p.frames % p.every[a] = 0
    BY DEF Schedule!TtAssumption
  <2> QED BY <2>1
<1> QED BY <1>1, <1>2 DEF PlanNumbers

\* An age, one activation later.
LEMMA OlderIs ==
    ASSUME NEW p, PlanNumbers(p), NEW x \in 0 .. p.oldest
    PROVE  /\ Schedule(p)!Older(x) \in 0 .. p.oldest /\ Schedule(p)!Older(x) > 0
           /\ Schedule(p)!Older(x) = IF x < p.oldest THEN x + 1 ELSE p.oldest
BY DEF PlanNumbers, Schedule!Older, Schedule!UpTo

\* One more than a number, in turn.
LEMMA NextTurn ==
    ASSUME NEW x \in Nat, NEW m \in Nat \ {0}
    PROVE  /\ x % m \in 0 .. m - 1
           /\ (x + 1) % m = IF x % m = m - 1 THEN 0 ELSE (x % m) + 1
           /\ x < m => x % m = x
<1>1. \A y \in Nat : /\ y = m * (y \div m) + (y % m)
                     /\ y \div m \in Int /\ y % m \in 0 .. m - 1
  OBVIOUS
<1>2. PICK q \in Int, r \in 0 .. m - 1 : x = m * q + r /\ q = x \div m /\ r = x % m
  BY <1>1
<1>3. x + 1 \in Nat
  OBVIOUS
<1>4. PICK u \in Int, s \in 0 .. m - 1 : x + 1 = m * u + s /\ s = (x + 1) % m
  BY <1>1, <1>3
<1>5. IF r = m - 1 THEN s = 0 ELSE s = r + 1
  <2>1. PICK d \in Int : d = u - q
    OBVIOUS
  <2>0. m * (u - q) = m * u - m * q
    BY <1>2, <1>4
  <2>a. x = m * q + r /\ x + 1 = m * u + s
    BY <1>2, <1>4
  <2>b. m * q \in Int /\ m * u \in Int /\ m * d = m * (u - q)
    BY <2>1
  <2>2. m * d = r + 1 - s
    BY <2>a, <2>b, <2>0
  <2>3. d >= 2 => m * d >= m * 2
    BY <2>1
  <2>4. d <= -1 => m * d <= m * (-1)
    BY <2>1
  <2>5. ~(d >= 2) /\ ~(d <= -1)
    BY <2>2, <2>3, <2>4
  <2>6. d = 0 \/ d = 1
    BY <2>1, <2>5
  <2>7. CASE d = 0
    <3>1. m * d = 0
      BY <2>7
    <3> QED BY <2>2, <3>1
  <2>8. CASE d = 1
    <3>1. m * d = m
      BY <2>8
    <3> QED BY <2>2, <3>1
  <2> QED BY <2>6, <2>7, <2>8
<1>8. (x + 1) % m = IF x % m = m - 1 THEN 0 ELSE (x % m) + 1
  BY <1>2, <1>4, <1>5
<1>9. ASSUME x < m PROVE x % m = x
  <2>1. m * q = x - r
    BY <1>2
  <2>2. q >= 1 => m * q >= m
    BY <1>2
  <2>3. q <= -1 => m * q <= -m
    BY <1>2
  <2>4. q = 0
    BY <1>2, <1>9, <2>1, <2>2, <2>3
  <2> QED BY <1>2, <2>4
<1> QED BY <1>2, <1>8, <1>9

\* The top of a stack, and one that is changed.
LEMMA TopIs ==
    ASSUME NEW R, NEW s \in Seq(R), s # <<>>
    PROVE  Len(s) \in Nat \ {0} /\ Len(s) \in DOMAIN s /\ s[Len(s)] \in R
OBVIOUS

LEMMA TopChanges ==
    ASSUME NEW R, NEW s \in Seq(R), s # <<>>, NEW x \in R, NEW t,
           t = [s EXCEPT ![Len(s)] = x]
    PROVE  /\ t \in Seq(R) /\ Len(t) = Len(s) /\ t # <<>> /\ DOMAIN t = 1 .. Len(s)
           /\ \A i \in 1 .. Len(s) : t[i] = IF i = Len(s) THEN x ELSE s[i]
OBVIOUS

LEMMA TopGoes ==
    ASSUME NEW R, NEW s \in Seq(R), s # <<>>, NEW t, t = SubSeq(s, 1, Len(s) - 1)
    PROVE  /\ t \in Seq(R) /\ Len(t) = Len(s) - 1 /\ DOMAIN t = 1 .. Len(s) - 1
           /\ \A i \in 1 .. Len(s) - 1 : t[i] = s[i]
<1>1. Len(s) \in Nat \ {0} /\ s \in [1 .. Len(s) -> R]
  OBVIOUS
<1>2. /\ Len(t) = Len(s) - 1 /\ DOMAIN t = 1 .. Len(s) - 1
      /\ \A i \in 1 .. Len(s) - 1 : t[i] = s[i]
  BY <1>1
<1>3. t \in Seq(R)
  BY <1>1
<1> QED BY <1>2, <1>3

LEMMA TopComes ==
    ASSUME NEW R, NEW s \in Seq(R), NEW x \in R, NEW t, t = Append(s, x)
    PROVE  /\ t \in Seq(R) /\ Len(t) = Len(s) + 1 /\ t # <<>> /\ DOMAIN t = 1 .. Len(s) + 1
           /\ \A i \in 1 .. Len(s) + 1 : t[i] = IF i = Len(s) + 1 THEN x ELSE s[i]
OBVIOUS

-----------------------------------------------------------------------------
\* What is in the schedule; a tick is at an entry or in one of the steps of its turn.
Ages(p) == 0 .. p.oldest
TickFrames(p) == [at : 1 .. p.n + 1, pc : 0 .. 3]
TtTypes(p) ==
    /\ tick \in 0 .. p.frames - 1
    /\ isr \in Seq(TickFrames(p)) /\ Len(isr) <= p.nest
    /\ ttMain \in [pc : 0 .. 5 \cup {9}, at : 1 .. p.n + 1, ran : 0 .. p.budget]
    /\ ttEntries \in [1 .. p.n -> [phase : {0, 1}, running : BOOLEAN, pending : BOOLEAN,
                                  fresh : BOOLEAN]]
    /\ snapshot \in [1 .. p.n -> Ages(p)]
    /\ outbuf \in [1 .. p.n -> [{0, 1} -> [{1, 2} -> Ages(p)]]]
    /\ bus \in [1 .. p.n -> [{1, 2} -> Ages(p)]]
    /\ input \in [valid : BOOLEAN, writing : BOOLEAN]
    /\ news \in [1 .. p.n -> BOOLEAN] /\ stale \in [1 .. p.n -> BOOLEAN]
    /\ miss \in [1 .. p.n -> Nat] /\ \A a \in 1 .. p.n : miss[a] <= p.limit[a] + 1
    /\ ttSince \in [1 .. p.n -> Nat] /\ \A a \in 1 .. p.n : ttSince[a] <= p.limit[a] + 1
    /\ gap \in [1 .. p.n -> Nat] /\ overruns \in [1 .. p.n -> Ages(p)]

\* The buffer a step writes, and the one that is published next.
Being(a) == outbuf[a][ttEntries[a].phase]
Whole(a) == outbuf[a][1 - ttEntries[a].phase]

\* A tick in the turn of an activity is alone in it, and has written what it has gone by.
TurnsOfTicks(p) ==
    /\ \A i \in 1 .. Len(isr) : isr[i].pc # 0 =>
          /\ isr[i].at \in p.inIsr /\ isr[i].at <= p.n /\ ttEntries[isr[i].at].running
          /\ isr[i].pc \in {2, 3} => Being(isr[i].at)[1] = snapshot[isr[i].at]
          /\ isr[i].pc = 3 => Being(isr[i].at)[2] = snapshot[isr[i].at]
    /\ \A i, j \in 1 .. Len(isr) :
          i # j /\ isr[i].pc # 0 /\ isr[j].pc # 0 => isr[i].at # isr[j].at

\* The main loop in the turn of an activity that is pending.
TurnOfMain(p) ==
    ttMain.pc \in 1 .. 5 =>
       LET a == ttMain.at
       IN  /\ a <= p.n /\ a \notin p.inIsr /\ ttEntries[a].pending /\ ttMain.ran < p.budget
           /\ ttMain.pc \in {2, 3} => Being(a)[1] = snapshot[a]
           /\ ttMain.pc = 3 => Being(a)[2] = snapshot[a]
           /\ ttMain.pc = 4 => Whole(a)[1] = snapshot[a]

\* What is published is of one step, and an activation old; what waits to be published is
\* as old as overruns are counted, and not pending any more.
OutputsOf(p, a) ==
    /\ Whole(a)[1] = Whole(a)[2] /\ bus[a][1] = bus[a][2] /\ bus[a][1] > 0
    /\ IF a \in p.inIsr
       THEN /\ ~ttEntries[a].fresh /\ ~ttEntries[a].pending
            /\ ttEntries[a].running => Whole(a)[1] > 0
       ELSE /\ ~ttEntries[a].running
            /\ ttEntries[a].pending => snapshot[a] = overruns[a]
            /\ ttEntries[a].fresh => Whole(a)[1] = overruns[a]
            /\ ttEntries[a].fresh /\ ttEntries[a].pending => ttMain.pc = 5 /\ ttMain.at = a
Outputs(p) == \A a \in 1 .. p.n : OutputsOf(p, a)

TtInv(p) == TtTypes(p) /\ TurnsOfTicks(p) /\ TurnOfMain(p) /\ Outputs(p)

\* Where no tick is preempted by another, an activity of the ISR domain runs only in the
\* tick, on what was frozen in it; the ticks since an activation are told by the index;
\* and the misses are the activations since the input was published.
Passed(a) == isr # <<>> /\ (isr[1].at > a \/ (isr[1].at = a /\ isr[1].pc # 0))
TicksSince(p, a) ==
    LET r == tick % p.every[a]
    IN  IF r > p.at[a] THEN r - p.at[a] - 1 ELSE r + p.every[a] - p.at[a] - 1
GapIs(p, a) ==
    gap[a] = IF isr = <<>> THEN TicksSince(p, a)
             ELSE IF ~Passed(a) THEN TicksSince(p, a) + 1
             ELSE IF tick % p.every[a] = p.at[a] THEN 0 ELSE TicksSince(p, a) + 1
MissesAre(p, a) ==
    input.valid /\ ~input.writing =>
       IF news[a] THEN a \in p.inIsr => ttSince[a] = 0
       ELSE LET m == IF miss[a] < p.limit[a] + 1 THEN miss[a] + 1 ELSE p.limit[a] + 1
            IN  m <= ttSince[a] /\ (a \in p.inIsr => m = ttSince[a])
RunsInTick(p, a) ==
    a \in p.inIsr =>
       IF ttEntries[a].running
       THEN /\ isr # <<>> /\ isr[1].at = a /\ isr[1].pc # 0
            /\ snapshot[a] = 0 /\ Whole(a)[1] \in {1, p.oldest}
       ELSE Whole(a)[1] \in {0, p.oldest}
Timely(p) == \A a \in 1 .. p.n : GapIs(p, a) /\ MissesAre(p, a) /\ RunsInTick(p, a)

-----------------------------------------------------------------------------
LEMMA TtStarts ==
    ASSUME NEW p, PlanNumbers(p), Schedule(p)!Init
    PROVE  TtInv(p) /\ (p.nest = 1 => Timely(p))
<1> DEFINE A == 1 .. p.n
<1>1. /\ tick = 0 /\ isr = <<>> /\ ttMain = [pc |-> 9, at |-> 1, ran |-> 0]
      /\ ttEntries = [a \in A |-> [phase |-> 0, running |-> FALSE, pending |-> FALSE,
                                  fresh |-> FALSE]]
      /\ snapshot = [a \in A |-> p.oldest]
      /\ outbuf = [a \in A |-> [ph \in {0, 1} |-> [k \in {1, 2} |-> p.oldest]]]
      /\ bus = [a \in A |-> [k \in {1, 2} |-> p.oldest]]
      /\ input = [valid |-> FALSE, writing |-> FALSE]
      /\ news = [a \in A |-> FALSE] /\ miss = [a \in A |-> 0] /\ stale = [a \in A |-> FALSE]
      /\ ttSince = [a \in A |-> 0] /\ gap = [a \in A |-> p.every[a] - p.at[a] - 1]
      /\ overruns = [a \in A |-> 0]
  BY DEF Schedule!Init, Schedule!Acts, Schedule!OutParts, Schedule!Idle, Schedule!Default,
         Schedule!Away
<1>2. Len(isr) = 0 /\ isr \in Seq(TickFrames(p)) /\ 1 .. Len(isr) = {}
  BY <1>1
<1>3. TtTypes(p)
  BY <1>1, <1>2 DEF PlanNumbers, TtTypes, Ages
<1>4. TurnsOfTicks(p) /\ TurnOfMain(p)
  BY <1>1, <1>2 DEF TurnsOfTicks, TurnOfMain
<1>5. ASSUME NEW a \in A
      PROVE  /\ Whole(a)[1] = p.oldest /\ Whole(a)[2] = p.oldest
             /\ bus[a][1] = p.oldest /\ bus[a][2] = p.oldest
             /\ ~ttEntries[a].fresh /\ ~ttEntries[a].running /\ ~ttEntries[a].pending
  BY <1>1 DEF Whole
<1>6. Outputs(p)
  BY <1>5 DEF PlanNumbers, Outputs, OutputsOf
<1>7. ASSUME NEW a \in A PROVE GapIs(p, a) /\ MissesAre(p, a) /\ RunsInTick(p, a)
  <2>0. p.every[a] \in Nat \ {0} /\ 0 \in Nat /\ 0 < p.every[a]
    BY DEF PlanNumbers
  <2>1. tick % p.every[a] = 0
    BY <1>1, <2>0, NextTurn
  <2>2. GapIs(p, a)
    BY <1>1, <2>1 DEF PlanNumbers, GapIs, TicksSince
  <2> QED BY <1>1, <1>5, <2>2 DEF MissesAre, RunsInTick
<1> QED BY <1>3, <1>4, <1>6, <1>7 DEF TtInv, Timely

-----------------------------------------------------------------------------
\* What the steps that several actions share do.
LEMMA NextEntryIs ==
    ASSUME NEW p, TtTypes(p), PlanNumbers(p), isr # <<>>, isr[Len(isr)].at <= p.n,
           Schedule(p)!NextEntry
    PROVE  /\ isr' \in Seq(TickFrames(p)) /\ Len(isr') = Len(isr) /\ isr' # <<>>
           /\ \A i \in 1 .. Len(isr) :
                 isr'[i] = IF i = Len(isr) THEN [at |-> isr[i].at + 1, pc |-> 0] ELSE isr[i]
<1> DEFINE x == [at |-> isr[Len(isr)].at + 1, pc |-> 0]
<1>1. isr \in Seq(TickFrames(p)) /\ p.n \in Nat
  BY DEF TtTypes, PlanNumbers
<1>2. isr[Len(isr)] \in TickFrames(p)
  BY <1>1, TopIs
<1>3. x \in TickFrames(p)
  BY <1>1, <1>2 DEF TickFrames
<1>4. isr' = [isr EXCEPT ![Len(isr)] = x]
  BY <1>1, TopIs DEF Schedule!NextEntry, Schedule!AtEntry
<1> HIDE DEF x
<1> QED BY <1>1, <1>3, <1>4, TopChanges DEF x

LEMMA GoToIs ==
    ASSUME NEW p, TtTypes(p), isr # <<>>, NEW c \in 0 .. 3, Schedule(p)!GoTo(c)
    PROVE  /\ isr' \in Seq(TickFrames(p)) /\ Len(isr') = Len(isr) /\ isr' # <<>>
           /\ \A i \in 1 .. Len(isr) :
                 isr'[i] = IF i = Len(isr) THEN [at |-> isr[i].at, pc |-> c] ELSE isr[i]
<1> DEFINE x == [at |-> isr[Len(isr)].at, pc |-> c]
<1>1. isr \in Seq(TickFrames(p))
  BY DEF TtTypes
<1>2. isr[Len(isr)] \in TickFrames(p) /\ Len(isr) \in DOMAIN isr
  BY <1>1, TopIs
<1>3. x \in TickFrames(p) /\ [isr[Len(isr)] EXCEPT !.pc = c] = x
  BY <1>2 DEF TickFrames
<1>4. isr' = [isr EXCEPT ![Len(isr)] = x]
  BY <1>2, <1>3 DEF Schedule!GoTo
<1> HIDE DEF x
<1> QED BY <1>1, <1>3, <1>4, TopChanges DEF x

LEMMA AgesIs ==
    ASSUME NEW p, TtTypes(p), PlanNumbers(p), NEW a \in 1 .. p.n, NEW f \in BOOLEAN,
           Schedule(p)!Ages(a, f)
    PROVE  /\ snapshot' \in [1 .. p.n -> Ages(p)]
           /\ outbuf' \in [1 .. p.n -> [{0, 1} -> [{1, 2} -> Ages(p)]]]
           /\ ttSince' \in [1 .. p.n -> Nat] /\ \A b \in 1 .. p.n : ttSince'[b] <= p.limit[b] + 1
           /\ gap' \in [1 .. p.n -> Nat]
           /\ \A b \in 1 .. p.n : b # a =>
                 /\ snapshot'[b] = snapshot[b] /\ outbuf'[b] = outbuf[b]
                 /\ ttSince'[b] = ttSince[b] /\ gap'[b] = gap[b]
           /\ snapshot'[a] = IF f THEN 0 ELSE Schedule(p)!Older(snapshot[a])
           /\ \A h \in {0, 1}, k \in {1, 2} : outbuf'[a][h][k] = Schedule(p)!Older(outbuf[a][h][k])
           /\ ttSince'[a] = (IF ttSince[a] < p.limit[a] + 1 THEN ttSince[a] + 1
                             ELSE p.limit[a] + 1)
           /\ gap'[a] = 0
<1>1. \A x \in Ages(p) : Schedule(p)!Older(x) \in Ages(p)
  BY OlderIs DEF Ages, PlanNumbers
<1>2. /\ snapshot \in [1 .. p.n -> Ages(p)] /\ 0 \in Ages(p)
      /\ snapshot' = [snapshot EXCEPT ![a] = IF f THEN 0 ELSE Schedule(p)!Older(@)]
  BY DEF TtTypes, Schedule!Ages, Ages, PlanNumbers
<1>3. /\ snapshot' \in [1 .. p.n -> Ages(p)]
      /\ \A b \in 1 .. p.n : b # a => snapshot'[b] = snapshot[b]
      /\ snapshot'[a] = IF f THEN 0 ELSE Schedule(p)!Older(snapshot[a])
  BY <1>1, <1>2
<1>4. PICK v : /\ v = [h \in {0, 1} |-> [k \in {1, 2} |-> Schedule(p)!Older(outbuf[a][h][k])]]
               /\ outbuf' = [outbuf EXCEPT ![a] = v]
  BY DEF Schedule!Ages, Schedule!OlderParts, Schedule!OutParts
<1>5. /\ outbuf \in [1 .. p.n -> [{0, 1} -> [{1, 2} -> Ages(p)]]]
      /\ outbuf[a] \in [{0, 1} -> [{1, 2} -> Ages(p)]]
  BY DEF TtTypes
<1>6. v \in [{0, 1} -> [{1, 2} -> Ages(p)]]
  <2>1. \A h \in {0, 1}, k \in {1, 2} : Schedule(p)!Older(outbuf[a][h][k]) \in Ages(p)
    BY <1>1, <1>5
  <2> QED BY <1>4, <2>1
<1>7. /\ outbuf' \in [1 .. p.n -> [{0, 1} -> [{1, 2} -> Ages(p)]]] /\ outbuf'[a] = v
      /\ \A b \in 1 .. p.n : b # a => outbuf'[b] = outbuf[b]
  BY <1>4, <1>5, <1>6
<1>8. \A h \in {0, 1}, k \in {1, 2} : outbuf'[a][h][k] = Schedule(p)!Older(outbuf[a][h][k])
  BY <1>4, <1>7
<1>9. /\ ttSince \in [1 .. p.n -> Nat] /\ p.limit[a] \in Nat
      /\ \A b \in 1 .. p.n : ttSince[b] <= p.limit[b] + 1
      /\ ttSince' = [ttSince EXCEPT ![a] = IF @ < p.limit[a] + 1 THEN @ + 1 ELSE p.limit[a] + 1]
      /\ gap \in [1 .. p.n -> Nat] /\ gap' = [gap EXCEPT ![a] = 0]
  BY DEF TtTypes, Schedule!Ages, Schedule!UpTo, PlanNumbers
<1>10. /\ ttSince' \in [1 .. p.n -> Nat] /\ gap' \in [1 .. p.n -> Nat] /\ gap'[a] = 0
       /\ \A b \in 1 .. p.n : b # a => ttSince'[b] = ttSince[b] /\ gap'[b] = gap[b]
       /\ ttSince'[a] = (IF ttSince[a] < p.limit[a] + 1 THEN ttSince[a] + 1
                         ELSE p.limit[a] + 1)
  BY <1>9
<1>11. ASSUME NEW b \in 1 .. p.n PROVE ttSince'[b] <= p.limit[b] + 1
  BY <1>9, <1>10
<1> QED BY <1>3, <1>7, <1>8, <1>10, <1>11

LEMMA WriteIs ==
    ASSUME NEW p, TtTypes(p), NEW a \in 1 .. p.n, NEW part \in {1, 2}, Schedule(p)!Write(a, part)
    PROVE  /\ outbuf' \in [1 .. p.n -> [{0, 1} -> [{1, 2} -> Ages(p)]]]
           /\ \A b \in 1 .. p.n : b # a => outbuf'[b] = outbuf[b]
           /\ \A h \in {0, 1}, k \in {1, 2} :
                 outbuf'[a][h][k] = IF h = ttEntries[a].phase /\ k = part THEN snapshot[a]
                                    ELSE outbuf[a][h][k]
<1>1. /\ outbuf \in [1 .. p.n -> [{0, 1} -> [{1, 2} -> Ages(p)]]]
      /\ ttEntries[a].phase \in {0, 1} /\ snapshot[a] \in Ages(p)
      /\ outbuf[a] \in [{0, 1} -> [{1, 2} -> Ages(p)]]
  BY DEF TtTypes
<1>2. PICK g : g = ttEntries[a].phase
  OBVIOUS
<1>3. PICK v : v = [outbuf[a][g] EXCEPT ![part] = snapshot[a]]
  OBVIOUS
<1>4. PICK w : w = [outbuf[a] EXCEPT ![g] = v]
  OBVIOUS
<1>5. outbuf' = [outbuf EXCEPT ![a] = w]
  BY <1>2, <1>3, <1>4 DEF Schedule!Write
<1>6. /\ v \in [{1, 2} -> Ages(p)]
      /\ \A k \in {1, 2} : v[k] = IF k = part THEN snapshot[a] ELSE outbuf[a][g][k]
  BY <1>1, <1>2, <1>3
<1>7. /\ w \in [{0, 1} -> [{1, 2} -> Ages(p)]]
      /\ \A h \in {0, 1} : w[h] = IF h = g THEN v ELSE outbuf[a][h]
  BY <1>1, <1>2, <1>4, <1>6
<1>8. /\ outbuf' \in [1 .. p.n -> [{0, 1} -> [{1, 2} -> Ages(p)]]] /\ outbuf'[a] = w
      /\ \A b \in 1 .. p.n : b # a => outbuf'[b] = outbuf[b]
  BY <1>1, <1>5, <1>7
<1> QED BY <1>2, <1>6, <1>7, <1>8

LEMMA FreezeIs ==
    ASSUME NEW p, TtTypes(p), PlanNumbers(p), NEW a \in 1 .. p.n, Schedule(p)!Freeze(a)
    PROVE  /\ miss' \in [1 .. p.n -> Nat] /\ \A b \in 1 .. p.n : miss'[b] <= p.limit[b] + 1
           /\ news' \in [1 .. p.n -> BOOLEAN] /\ stale' \in [1 .. p.n -> BOOLEAN]
           /\ overruns' \in [1 .. p.n -> Ages(p)] /\ overruns'[a] = 0
           /\ \A b \in 1 .. p.n : b # a =>
                 /\ miss'[b] = miss[b] /\ news'[b] = news[b] /\ stale'[b] = stale[b]
                 /\ overruns'[b] = overruns[b]
           /\ IF input.valid /\ ~input.writing
              THEN /\ ~news'[a]
                   /\ miss'[a] = IF news[a] THEN 0
                                 ELSE IF miss[a] < p.limit[a] + 1 THEN miss[a] + 1
                                 ELSE p.limit[a] + 1
              ELSE news'[a] = news[a] /\ miss'[a] = miss[a]
           /\ stale'[a] <=> \/ ~(input.valid /\ ~input.writing)
                            \/ p.limit[a] # 0 /\ miss'[a] > p.limit[a]
<1>0. 0 \in Ages(p) /\ p.limit[a] \in Nat
  BY DEF Ages, PlanNumbers
<1>1. /\ miss \in [1 .. p.n -> Nat] /\ \A b \in 1 .. p.n : miss[b] <= p.limit[b] + 1
      /\ news \in [1 .. p.n -> BOOLEAN] /\ stale \in [1 .. p.n -> BOOLEAN]
      /\ overruns \in [1 .. p.n -> Ages(p)] /\ 0 \in Ages(p) /\ p.limit[a] \in Nat
  BY <1>0 DEF TtTypes
<1>2. PICK can \in BOOLEAN : can <=> input.valid /\ ~input.writing
  OBVIOUS
<1>3. PICK m : m = IF news[a] THEN 0 ELSE IF miss[a] < p.limit[a] + 1 THEN miss[a] + 1
                   ELSE p.limit[a] + 1
  OBVIOUS
<1>4. /\ miss' = (IF can THEN [miss EXCEPT ![a] = m] ELSE miss)
      /\ news' = (IF can THEN [news EXCEPT ![a] = FALSE] ELSE news)
      /\ stale' = [stale EXCEPT ![a] = ~can \/ (p.limit[a] # 0 /\ miss'[a] > p.limit[a])]
      /\ overruns' = [overruns EXCEPT ![a] = 0]
  BY <1>2, <1>3 DEF Schedule!Freeze, Schedule!CanRead, Schedule!Misses, Schedule!UpTo
<1>5. m \in Nat /\ m <= p.limit[a] + 1
  BY <1>1, <1>3
<1>6. /\ miss' \in [1 .. p.n -> Nat] /\ \A b \in 1 .. p.n : b # a => miss'[b] = miss[b]
      /\ miss'[a] = IF can THEN m ELSE miss[a]
  BY <1>1, <1>4, <1>5
<1>7. \A b \in 1 .. p.n : miss'[b] <= p.limit[b] + 1
  BY <1>1, <1>5, <1>6
<1>8. /\ news' \in [1 .. p.n -> BOOLEAN] /\ \A b \in 1 .. p.n : b # a => news'[b] = news[b]
      /\ news'[a] = IF can THEN FALSE ELSE news[a]
  BY <1>1, <1>4
<1>9. PICK old \in BOOLEAN : old <=> ~can \/ (p.limit[a] # 0 /\ miss'[a] > p.limit[a])
  OBVIOUS
<1>10. stale' = [stale EXCEPT ![a] = old]
  BY <1>4, <1>9
<1>11. /\ stale' \in [1 .. p.n -> BOOLEAN] /\ \A b \in 1 .. p.n : b # a => stale'[b] = stale[b]
       /\ stale'[a] = old
  BY <1>1, <1>10
<1>12. /\ overruns' \in [1 .. p.n -> Ages(p)] /\ overruns'[a] = 0
       /\ \A b \in 1 .. p.n : b # a => overruns'[b] = overruns[b]
  BY <1>1, <1>4
<1> QED BY <1>2, <1>3, <1>6, <1>7, <1>8, <1>9, <1>11, <1>12

LEMMA OverrunIs ==
    ASSUME NEW p, TtTypes(p), PlanNumbers(p), NEW a \in 1 .. p.n, Schedule(p)!Overrun(a)
    PROVE  /\ overruns' \in [1 .. p.n -> Ages(p)]
           /\ overruns'[a] = Schedule(p)!Older(overruns[a])
           /\ \A b \in 1 .. p.n : b # a => overruns'[b] = overruns[b]
           /\ UNCHANGED <<news, miss, stale>>
<1>1. overruns \in [1 .. p.n -> Ages(p)] /\ Schedule(p)!Older(overruns[a]) \in Ages(p)
  BY OlderIs DEF TtTypes, Ages
<1> QED BY <1>1 DEF Schedule!Overrun

\* An entry of a table of ticks: what is at the top of the stack.
LEMMA TopOf ==
    ASSUME NEW p, TtTypes(p), isr # <<>>
    PROVE  /\ Len(isr) \in Nat \ {0} /\ Len(isr) \in 1 .. Len(isr)
           /\ Schedule(p)!Top = isr[Len(isr)]
           /\ isr[Len(isr)].at \in 1 .. p.n + 1 /\ isr[Len(isr)].pc \in 0 .. 3
<1>1. isr[Len(isr)] \in TickFrames(p) /\ Len(isr) \in Nat \ {0}
  BY TopIs DEF TtTypes
<1> QED BY <1>1 DEF TickFrames, Schedule!Top

LEMMA LookingIs ==
    ASSUME NEW p, TtTypes(p), NEW a \in 1 .. p.n, Schedule(p)!Looking(a)
    PROVE  /\ isr # <<>> /\ isr[Len(isr)].at = a /\ isr[Len(isr)].pc = 0
           /\ Len(isr) \in Nat \ {0} /\ Len(isr) \in 1 .. Len(isr)
BY TopOf DEF Schedule!Looking, Schedule!AtEntry

\* Where no tick is preempted the stack has one.
LEMMA Alone ==
    ASSUME NEW p, TtTypes(p), PlanNumbers(p), p.nest = 1
    PROVE  Len(isr) = IF isr = <<>> THEN 0 ELSE 1
<1>1. Len(isr) \in Nat /\ Len(isr) <= 1 /\ (isr # <<>> => Len(isr) # 0)
  BY TopIs DEF TtTypes
<1>2. CASE isr = <<>>
  BY <1>2
<1>3. CASE isr # <<>>
  <2>1. Len(isr) \in Nat /\ Len(isr) <= 1 /\ Len(isr) # 0
    BY <1>1, <1>3
  <2>3. PICK k \in Nat : k = Len(isr)
    BY <2>1
  <2>4. k = 1
    BY <2>1, <2>3
  <2>2. Len(isr) = 1
    BY <2>3, <2>4
  <2> QED BY <1>3, <2>2
<1> QED BY <1>2, <1>3

LEMMA TurnsOf ==
    ASSUME NEW p, PlanNumbers(p), NEW a \in 1 .. p.n
    PROVE  p.every[a] <= p.frames
<1>1. p.every[a] \in Nat \ {0} /\ p.frames \in Nat \ {0} /\ p.frames % p.every[a] = 0
  BY DEF PlanNumbers
<1>2. p.frames < p.every[a] => p.frames % p.every[a] = p.frames
  BY <1>1, NextTurn
<1> QED BY <1>1, <1>2

-----------------------------------------------------------------------------
\* A tick comes.
LEMMA TickComes ==
    ASSUME NEW p, PlanNumbers(p), TtInv(p), Schedule(p)!Tick
    PROVE  TtInv(p)' /\ (p.nest = 1 /\ Timely(p) => Timely(p)')
<1>1. /\ Len(isr) < p.nest /\ isr' = Append(isr, [at |-> 1, pc |-> 0])
      /\ gap' = [b \in 1 .. p.n |-> IF gap[b] < p.frames + 1 THEN gap[b] + 1 ELSE p.frames + 1]
      /\ UNCHANGED <<tick, ttMain, ttEntries, snapshot, outbuf, bus, input, news, miss, stale,
                     ttSince, overruns>>
  BY DEF Schedule!Tick, Schedule!AtEntry, Schedule!Acts, Schedule!UpTo
<1>2. TtTypes(p) /\ isr \in Seq(TickFrames(p)) /\ [at |-> 1, pc |-> 0] \in TickFrames(p)
  BY DEF TtInv, TtTypes, TickFrames, PlanNumbers
<1>3. /\ isr' \in Seq(TickFrames(p)) /\ Len(isr') = Len(isr) + 1 /\ isr' # <<>>
      /\ \A i \in 1 .. Len(isr) + 1 :
            isr'[i] = IF i = Len(isr) + 1 THEN [at |-> 1, pc |-> 0] ELSE isr[i]
  BY <1>1, <1>2, TopComes
<1>4. gap' \in [1 .. p.n -> Nat] /\ Len(isr') <= p.nest
  <2>1. \A b \in 1 .. p.n :
           (IF gap[b] < p.frames + 1 THEN gap[b] + 1 ELSE p.frames + 1) \in Nat
    <3>1. gap \in [1 .. p.n -> Nat] /\ p.frames \in Nat
      BY <1>2 DEF TtTypes, PlanNumbers
    <3> QED BY <3>1
  <2>2. Len(isr) \in Nat /\ p.nest \in Nat
    BY <1>2 DEF PlanNumbers
  <2> QED BY <1>1, <1>3, <2>1, <2>2
<1>5. TtTypes(p)'
  BY <1>1, <1>2, <1>3, <1>4 DEF TtTypes, Ages, TickFrames
<1>6. \A a \in 1 .. p.n : Being(a)' = Being(a) /\ Whole(a)' = Whole(a)
  BY <1>1 DEF Being, Whole
<1>7. TurnsOfTicks(p)'
  <2>1. Len(isr) \in Nat
    BY <1>2
  <2>2. \A i \in 1 .. Len(isr') : isr'[i].pc # 0 => i \in 1 .. Len(isr) /\ isr'[i] = isr[i]
    BY <1>3, <2>1
  <2>3. \A x : Being(x)' = Being(x)
    BY <1>1 DEF Being
  <2> QED BY <1>1, <2>2, <2>3 DEF TtInv, TurnsOfTicks
<1>8. TurnOfMain(p)' /\ Outputs(p)'
  BY <1>1 DEF TtInv, TurnOfMain, Outputs, OutputsOf, Being, Whole
<1>9. ASSUME p.nest = 1, Timely(p) PROVE Timely(p)'
  <2>1. isr = <<>> /\ isr' # <<>> /\ isr'[1].at = 1 /\ isr'[1].pc = 0
    <3>1. Len(isr) = 0 /\ isr = <<>>
      BY <1>1, <1>2, <1>9, Alone
    <3> QED BY <1>3, <3>1
  <2> SUFFICES ASSUME NEW a \in 1 .. p.n
               PROVE  GapIs(p, a)' /\ MissesAre(p, a)' /\ RunsInTick(p, a)'
    BY DEF Timely
  <2>2. GapIs(p, a) /\ MissesAre(p, a) /\ RunsInTick(p, a)
    BY <1>9 DEF Timely
  <2>3. ~Passed(a)' /\ TicksSince(p, a)' = TicksSince(p, a)
    BY <1>1, <2>1 DEF Passed, TicksSince
  <2>4. gap[a] = TicksSince(p, a) /\ TicksSince(p, a) \in 0 .. p.every[a] - 1
    <3>1. tick \in Nat /\ p.every[a] \in Nat \ {0} /\ p.at[a] \in Nat /\ p.at[a] < p.every[a]
      BY <1>2 DEF TtTypes, PlanNumbers
    <3>2. tick % p.every[a] \in 0 .. p.every[a] - 1
      BY <3>1, NextTurn
    <3>3. PICK r \in 0 .. p.every[a] - 1 : r = tick % p.every[a]
      BY <3>2
    <3>4. TicksSince(p, a) = IF r > p.at[a] THEN r - p.at[a] - 1 ELSE r + p.every[a] - p.at[a] - 1
      BY <3>3 DEF TicksSince
    <3>5. TicksSince(p, a) \in 0 .. p.every[a] - 1
      BY <3>1, <3>3, <3>4
    <3> QED BY <2>1, <2>2, <3>5 DEF GapIs
  <2>5. GapIs(p, a)'
    <3>1. p.every[a] <= p.frames /\ p.frames \in Nat /\ p.every[a] \in Nat
      BY TurnsOf DEF PlanNumbers
    <3>2. gap'[a] = IF gap[a] < p.frames + 1 THEN gap[a] + 1 ELSE p.frames + 1
      BY <1>1
    <3> QED BY <2>1, <2>3, <2>4, <3>1, <3>2 DEF GapIs
  <2>6. MissesAre(p, a)'
    BY <1>1, <2>2 DEF MissesAre
  <2>7. RunsInTick(p, a)'
    BY <1>1, <2>1, <2>2 DEF RunsInTick, Whole
  <2> QED BY <2>5, <2>6, <2>7
<1> QED BY <1>5, <1>7, <1>8, <1>9 DEF TtInv

\* What a step leaves alone.
LEMMA TtOthers ==
    ASSUME NEW p, NEW a \in 1 .. p.n,
           ttEntries'[a] = ttEntries[a], outbuf'[a] = outbuf[a]
    PROVE  /\ Being(a)' = Being(a) /\ Whole(a)' = Whole(a)
           /\ snapshot'[a] = snapshot[a] /\ bus'[a] = bus[a] /\ overruns'[a] = overruns[a]
              /\ ttMain' = ttMain /\ OutputsOf(p, a) => OutputsOf(p, a)'
           /\ news'[a] = news[a] /\ miss'[a] = miss[a] /\ ttSince'[a] = ttSince[a]
              /\ input' = input /\ MissesAre(p, a) => MissesAre(p, a)'
<1>1. Being(a)' = Being(a) /\ Whole(a)' = Whole(a)
  BY DEF Being, Whole
<1>2. ASSUME snapshot'[a] = snapshot[a], bus'[a] = bus[a], overruns'[a] = overruns[a],
             ttMain' = ttMain, OutputsOf(p, a)
      PROVE  OutputsOf(p, a)'
  BY <1>1, <1>2 DEF OutputsOf
<1>3. ASSUME news'[a] = news[a], miss'[a] = miss[a], ttSince'[a] = ttSince[a], input' = input,
             MissesAre(p, a)
      PROVE  MissesAre(p, a)'
  BY <1>3 DEF MissesAre
<1> QED BY <1>1, <1>2, <1>3

\* A tick goes by an entry.
LEMMA GapsGoBy ==
    ASSUME NEW p, PlanNumbers(p), isr # <<>>, NEW a \in 1 .. p.n, isr[1].at = a, tick' = tick,
           isr' # <<>>, (isr'[1].at = a + 1 /\ isr'[1].pc = 0) \/ (isr'[1].at = a /\ isr'[1].pc # 0),
           \A b \in 1 .. p.n : GapIs(p, b),
           \A b \in 1 .. p.n : b # a => gap'[b] = gap[b],
           IF isr[1].pc = 0 /\ tick % p.every[a] = p.at[a] THEN gap'[a] = 0 ELSE gap'[a] = gap[a]
    PROVE  \A b \in 1 .. p.n : GapIs(p, b)'
<1> SUFFICES ASSUME NEW b \in 1 .. p.n PROVE GapIs(p, b)'
  OBVIOUS
<1>1. Passed(b)' <=> b <= a
  BY DEF Passed, PlanNumbers
<1>2. Passed(b) <=> b < a \/ (b = a /\ isr[1].pc # 0)
  BY DEF Passed, PlanNumbers
<1>3. TicksSince(p, b)' = TicksSince(p, b) /\ GapIs(p, b)
  BY DEF TicksSince
<1>4. CASE b = a
  BY <1>1, <1>2, <1>3, <1>4 DEF GapIs, PlanNumbers
<1>5. CASE b # a
  BY <1>1, <1>2, <1>3, <1>5 DEF GapIs, PlanNumbers
<1> QED BY <1>4, <1>5

\* The stack after a step at its top: the ticks below are where they were.
LEMMA TtNotNow ==
    ASSUME NEW p, PlanNumbers(p), TtInv(p), NEW a \in 1 .. p.n, Schedule(p)!NotNow(a)
    PROVE  TtInv(p)' /\ (p.nest = 1 /\ Timely(p) => Timely(p)')
<1>1. /\ tick % p.every[a] # p.at[a] /\ Schedule(p)!NextEntry
      /\ UNCHANGED <<tick, ttMain, ttEntries, snapshot, outbuf, bus, input, news, miss, stale,
                     ttSince, gap, overruns>>
  BY DEF Schedule!NotNow, Schedule!Hit
<1>2. TtTypes(p) /\ p.n \in Nat
  BY DEF TtInv, PlanNumbers
<1>3. /\ isr # <<>> /\ isr[Len(isr)].at = a /\ isr[Len(isr)].pc = 0
      /\ Len(isr) \in Nat \ {0} /\ Len(isr) \in 1 .. Len(isr)
  BY <1>2, LookingIs DEF Schedule!NotNow
<1>4. /\ isr' \in Seq(TickFrames(p)) /\ Len(isr') = Len(isr) /\ isr' # <<>>
      /\ \A i \in 1 .. Len(isr) :
            isr'[i] = IF i = Len(isr) THEN [at |-> isr[i].at + 1, pc |-> 0] ELSE isr[i]
  BY <1>1, <1>2, <1>3, NextEntryIs
<1>5. TtTypes(p)'
  BY <1>1, <1>2, <1>4 DEF TtTypes, Ages, TickFrames
<1>6. TurnsOfTicks(p)'
  <2>1. ASSUME NEW i \in 1 .. Len(isr'), isr'[i].pc # 0
        PROVE  i \in 1 .. Len(isr) /\ isr'[i] = isr[i]
    <3>1. i \in 1 .. Len(isr)
      BY <1>4
    <3>2. ASSUME i = Len(isr)  PROVE FALSE
      <4>1. isr'[i] = [at |-> isr[i].at + 1, pc |-> 0]
        BY <1>4, <3>1, <3>2
      <4> QED BY <2>1, <4>1
    <3> QED BY <1>4, <3>1, <3>2
  <2>2. \A x : Being(x)' = Being(x)
    BY <1>1 DEF Being
  <2> QED BY <1>1, <2>1, <2>2 DEF TtInv, TurnsOfTicks
<1>7. TurnOfMain(p)' /\ Outputs(p)'
  BY <1>1 DEF TtInv, TurnOfMain, Outputs, OutputsOf, Being, Whole
<1>8. ASSUME p.nest = 1, Timely(p) PROVE Timely(p)'
  <2>1. Len(isr) = 1
    BY <1>2, <1>3, <1>8, Alone
  <2>2. isr[1].at = a /\ isr[1].pc = 0 /\ isr'[1].at = a + 1 /\ isr'[1].pc = 0
    BY <1>3, <1>4, <2>1
  <2>3. \A b \in 1 .. p.n : GapIs(p, b)'
    <3>1. \A b \in 1 .. p.n : GapIs(p, b)
      BY <1>8 DEF Timely
    <3>2. \A b \in 1 .. p.n : b # a => gap'[b] = gap[b]
      BY <1>1
    <3>3. IF isr[1].pc = 0 /\ tick % p.every[a] = p.at[a] THEN gap'[a] = 0 ELSE gap'[a] = gap[a]
      BY <1>1
    <3>4. tick' = tick
      BY <1>1
    <3>5. isr # <<>> /\ isr' # <<>> /\ isr[1].at = a
          /\ \/ isr'[1].at = a + 1 /\ isr'[1].pc = 0
             \/ isr'[1].at = a /\ isr'[1].pc # 0
      BY <1>3, <1>4, <2>2
    <3> QED BY <3>1, <3>2, <3>3, <3>4, <3>5, GapsGoBy
  <2>4. ASSUME NEW b \in 1 .. p.n PROVE MissesAre(p, b)' /\ RunsInTick(p, b)'
    <3>1. MissesAre(p, b) /\ RunsInTick(p, b)
      BY <1>8 DEF Timely
    <3> QED BY <1>1, <2>2, <3>1 DEF MissesAre, RunsInTick, Whole
  <2> QED BY <2>3, <2>4 DEF Timely
<1> QED BY <1>5, <1>6, <1>7, <1>8 DEF TtInv

\* A tick ends.
LEMMA TtTickEnds ==
    ASSUME NEW p, PlanNumbers(p), TtInv(p), Schedule(p)!TickEnds
    PROVE  TtInv(p)' /\ (p.nest = 1 /\ Timely(p) => Timely(p)')
<1>1. /\ isr # <<>> /\ Schedule(p)!Top.at > p.n /\ tick' = (tick + 1) % p.frames
      /\ isr' = SubSeq(isr, 1, Len(isr) - 1)
      /\ UNCHANGED <<ttMain, ttEntries, snapshot, outbuf, bus, input, news, miss, stale,
                     ttSince, gap, overruns>>
  BY DEF Schedule!TickEnds, Schedule!FollowingTick
<1>2. TtTypes(p) /\ isr \in Seq(TickFrames(p)) /\ tick \in 0 .. p.frames - 1
      /\ p.frames \in Nat \ {0} /\ Len(isr) <= p.nest /\ p.nest \in Nat /\ p.n \in Nat
  BY DEF TtInv, TtTypes, PlanNumbers
<1>3. /\ isr' \in Seq(TickFrames(p)) /\ Len(isr') = Len(isr) - 1
      /\ \A i \in 1 .. Len(isr) - 1 : isr'[i] = isr[i]
  BY <1>1, <1>2, TopGoes
<1>4. /\ Len(isr) \in Nat \ {0} /\ isr[Len(isr)].at > p.n /\ Len(isr) \in 1 .. Len(isr)
      /\ isr[Len(isr)].at \in 1 .. p.n + 1
  BY <1>1, <1>2, TopOf
<1>5. tick' \in 0 .. p.frames - 1 /\ Len(isr') <= p.nest
  <2>1. tick + 1 \in Nat
    BY <1>2
  <2>2. (tick + 1) % p.frames \in 0 .. p.frames - 1
    BY <1>2, <2>1, NextTurn
  <2>3. PICK k \in Nat : k = Len(isr)
    BY <1>4
  <2> QED BY <1>1, <1>2, <1>3, <1>4, <2>2, <2>3
<1>6. TtTypes(p)'
  BY <1>1, <1>2, <1>3, <1>5 DEF TtTypes, Ages, TickFrames
<1>7. TurnsOfTicks(p)'
  <2>1. \A i \in 1 .. Len(isr') : i \in 1 .. Len(isr) /\ isr'[i] = isr[i]
    BY <1>3, <1>4
  <2>2. \A x : Being(x)' = Being(x)
    BY <1>1 DEF Being
  <2>3. ttEntries' = ttEntries /\ snapshot' = snapshot
    BY <1>1
  <2>4. TurnsOfTicks(p)
    BY DEF TtInv
  <2> QED BY <2>1, <2>2, <2>3, <2>4 DEF TurnsOfTicks
<1>8. TurnOfMain(p)' /\ Outputs(p)'
  BY <1>1 DEF TtInv, TurnOfMain, Outputs, OutputsOf, Being, Whole
<1>9. ASSUME p.nest = 1, Timely(p) PROVE Timely(p)'
  <2>1. Len(isr) = 1 /\ isr' = <<>>
    <3>1. Len(isr) = 1
      BY <1>1, <1>2, <1>9, Alone
    <3>2. Len(isr') = 0
      BY <1>3, <3>1
    <3> QED BY <1>3, <3>1, <3>2
  <2>2. isr[1].at = p.n + 1 /\ isr[1].pc = 0
    <3>1. isr[1].pc # 0 => isr[1].at <= p.n
      BY <1>4, <2>1 DEF TtInv, TurnsOfTicks
    <3> QED BY <1>4, <2>1, <3>1, <1>2
  <2> SUFFICES ASSUME NEW a \in 1 .. p.n
               PROVE  GapIs(p, a)' /\ MissesAre(p, a)' /\ RunsInTick(p, a)'
    BY DEF Timely
  <2>3. GapIs(p, a) /\ MissesAre(p, a) /\ RunsInTick(p, a)
    BY <1>9 DEF Timely
  <2>4. Passed(a)
    BY <1>1, <1>2, <2>2 DEF Passed
  <2>5. PICK e \in Nat \ {0}, o \in Nat : e = p.every[a] /\ o = p.at[a] /\ o < e /\ p.frames % e = 0
    BY DEF PlanNumbers
  <2>6. PICK r \in 0 .. e - 1 : r = tick % e /\ (tick + 1) % e = IF r = e - 1 THEN 0 ELSE r + 1
    <3>1. tick \in Nat
      BY <1>2
    <3>2. /\ tick % e \in 0 .. e - 1
          /\ (tick + 1) % e = IF tick % e = e - 1 THEN 0 ELSE (tick % e) + 1
      BY <2>5, <3>1, NextTurn
    <3> QED BY <3>2
  <2>7. tick' % e = IF r = e - 1 THEN 0 ELSE r + 1
    <3>1. tick + 1 \in Nat /\ (tick + 1 < p.frames \/ tick + 1 = p.frames)
      BY <1>2
    <3>2. CASE tick + 1 < p.frames
      <4>1. tick' = tick + 1
        BY <1>1, <1>2, <3>1, <3>2, NextTurn
      <4> QED BY <2>6, <4>1
    <3>3. CASE tick + 1 = p.frames
      <4>1. (tick + 1) % e = 0
        BY <2>5, <3>3
      <4>2. 0 % e = 0 /\ tick' \in 0 .. p.frames - 1
        BY <1>5, <2>5, NextTurn
      <4>3. tick % p.frames = tick
        <5>1. tick \in Nat /\ tick < p.frames
          BY <1>2
        <5> QED BY <1>2, <5>1, NextTurn
      <4>4. (tick + 1) % p.frames = 0
        <5>1. tick \in Nat /\ tick = p.frames - 1
          BY <1>2, <3>3
        <5> QED BY <1>2, <4>3, <5>1, NextTurn
      <4>5. tick' = 0
        BY <1>1, <4>4
      <4> QED BY <2>6, <4>1, <4>2, <4>5
    <3> QED BY <3>1, <3>2, <3>3
  <2>8. /\ TicksSince(p, a) = (IF r > o THEN r - o - 1 ELSE r + e - o - 1)
        /\ gap[a] = IF r = o THEN 0 ELSE TicksSince(p, a) + 1
    BY <1>1, <2>3, <2>4, <2>5, <2>6 DEF GapIs, TicksSince
  <2>9. TicksSince(p, a)' = LET s == IF r = e - 1 THEN 0 ELSE r + 1
                            IN  IF s > o THEN s - o - 1 ELSE s + e - o - 1
    BY <2>5, <2>7 DEF TicksSince
  <2>10. TicksSince(p, a)' = gap[a]
    BY <2>5, <2>6, <2>8, <2>9
  <2>11. GapIs(p, a)'
    BY <1>1, <2>1, <2>10 DEF GapIs
  <2>12. MissesAre(p, a)' /\ RunsInTick(p, a)'
    BY <1>1, <2>2, <2>3, <1>2 DEF MissesAre, RunsInTick, Whole
  <2> QED BY <2>11, <2>12
<1> QED BY <1>6, <1>7, <1>8, <1>9 DEF TtInv

-----------------------------------------------------------------------------
\* What ages of an activity, and what stays of the turns.
LEMMA OlderPartsAre ==
    ASSUME NEW p, PlanNumbers(p), NEW v \in [{1, 2} -> Ages(p)]
    PROVE  /\ Schedule(p)!OlderParts(v) \in [{1, 2} -> Ages(p)]
           /\ \A k \in {1, 2} : Schedule(p)!OlderParts(v)[k] = Schedule(p)!Older(v[k])
<1>1. \A x \in Ages(p) : Schedule(p)!Older(x) \in Ages(p)
  BY OlderIs DEF Ages
<1> QED BY <1>1 DEF Schedule!OlderParts, Schedule!OutParts

LEMMA AgedAre ==
    ASSUME NEW p, TtTypes(p), PlanNumbers(p), NEW a \in 1 .. p.n, NEW f \in BOOLEAN,
           Schedule(p)!Ages(a, f), ttEntries'[a].phase = ttEntries[a].phase
    PROVE  \A k \in {1, 2} : /\ Being(a)'[k] = Schedule(p)!Older(Being(a)[k])
                             /\ Whole(a)'[k] = Schedule(p)!Older(Whole(a)[k])
                             /\ Being(a)[k] \in Ages(p) /\ Whole(a)[k] \in Ages(p)
<1>1. ttEntries[a].phase \in {0, 1} /\ 1 - ttEntries[a].phase \in {0, 1}
      /\ outbuf[a] \in [{0, 1} -> [{1, 2} -> Ages(p)]]
  BY DEF TtTypes
<1>2. \A h \in {0, 1}, k \in {1, 2} : outbuf'[a][h][k] = Schedule(p)!Older(outbuf[a][h][k])
  BY AgesIs
<1> QED BY <1>1, <1>2 DEF Being, Whole

LEMMA BelowStays ==
    ASSUME NEW p, TtTypes(p), PlanNumbers(p), isr # <<>>, isr[Len(isr)].at <= p.n,
           Schedule(p)!NextEntry, NEW i \in 1 .. Len(isr'), isr'[i].pc # 0
    PROVE  i \in 1 .. Len(isr) /\ i # Len(isr) /\ isr'[i] = isr[i]
<1>1. /\ Len(isr') = Len(isr)
      /\ \A j \in 1 .. Len(isr) :
            isr'[j] = IF j = Len(isr) THEN [at |-> isr[j].at + 1, pc |-> 0] ELSE isr[j]
  BY NextEntryIs
<1>2. i \in 1 .. Len(isr)
  BY <1>1
<1>3. ASSUME i = Len(isr)  PROVE FALSE
  <2>1. isr'[i] = [at |-> isr[i].at + 1, pc |-> 0]
    BY <1>1, <1>2, <1>3
  <2> QED BY <2>1
<1> QED BY <1>1, <1>2, <1>3

LEMMA TurnsStay ==
    ASSUME NEW p, TtTypes(p), PlanNumbers(p), TurnsOfTicks(p),
           \A i \in 1 .. Len(isr') :
              isr'[i].pc # 0 => i \in 1 .. Len(isr) /\ isr'[i] = isr[i],
           \A x \in 1 .. p.n : x \in p.inIsr /\ ttEntries[x].running =>
              /\ ttEntries'[x].running
              /\ \A k \in {1, 2} : Being(x)[k] = snapshot[x] => Being(x)'[k] = snapshot'[x]
    PROVE  TurnsOfTicks(p)'
<1>1. ASSUME NEW i \in 1 .. Len(isr'), isr'[i].pc # 0
      PROVE  \E x \in 1 .. p.n :
                /\ x = isr'[i].at /\ x \in p.inIsr /\ ttEntries'[x].running
                /\ isr'[i].pc \in {2, 3} => Being(x)'[1] = snapshot'[x]
                /\ isr'[i].pc = 3 => Being(x)'[2] = snapshot'[x]
  <2>1. i \in 1 .. Len(isr) /\ isr'[i] = isr[i] /\ isr[i].pc # 0
    BY <1>1
  <2>2. isr[i] \in TickFrames(p)
    BY <2>1 DEF TtTypes
  <2>3. PICK x \in 1 .. p.n + 1 : x = isr[i].at
    BY <2>2 DEF TickFrames
  <2>4. /\ x \in p.inIsr /\ x <= p.n /\ ttEntries[x].running
        /\ isr[i].pc \in {2, 3} => Being(x)[1] = snapshot[x]
        /\ isr[i].pc = 3 => Being(x)[2] = snapshot[x]
    BY <2>1, <2>3 DEF TurnsOfTicks
  <2>5. x \in 1 .. p.n
    BY <2>4 DEF PlanNumbers
  <2>6. /\ ttEntries'[x].running
        /\ Being(x)[1] = snapshot[x] => Being(x)'[1] = snapshot'[x]
        /\ Being(x)[2] = snapshot[x] => Being(x)'[2] = snapshot'[x]
    BY <2>4, <2>5
  <2> QED BY <2>1, <2>3, <2>4, <2>5, <2>6
<1>2. ASSUME NEW i \in 1 .. Len(isr'), NEW j \in 1 .. Len(isr'), i # j,
             isr'[i].pc # 0, isr'[j].pc # 0
      PROVE  isr'[i].at # isr'[j].at
  BY <1>2 DEF TurnsOfTicks
<1>3. \A x \in 1 .. p.n : x <= p.n
  BY DEF PlanNumbers
<1> QED BY <1>1, <1>2, <1>3 DEF TurnsOfTicks, Being

LEMMA MainTurnStays ==
    ASSUME NEW p, TtTypes(p), TurnOfMain(p), ttMain' = ttMain, PlanNumbers(p),
           \A x \in 1 .. p.n : x \notin p.inIsr /\ ttEntries[x].pending =>
              /\ ttEntries'[x].pending
              /\ \A k \in {1, 2} : Being(x)[k] = snapshot[x] => Being(x)'[k] = snapshot'[x]
              /\ Whole(x)[1] = snapshot[x] => Whole(x)'[1] = snapshot'[x]
    PROVE  TurnOfMain(p)'
<1> SUFFICES ASSUME ttMain.pc \in 1 .. 5
             PROVE  LET a == ttMain.at
                    IN  /\ a <= p.n /\ a \notin p.inIsr /\ ttEntries'[a].pending
                        /\ ttMain.ran < p.budget
                        /\ ttMain.pc \in {2, 3} => Being(a)'[1] = snapshot'[a]
                        /\ ttMain.pc = 3 => Being(a)'[2] = snapshot'[a]
                        /\ ttMain.pc = 4 => Whole(a)'[1] = snapshot'[a]
  BY DEF TurnOfMain
<1>1. PICK x \in 1 .. p.n + 1 : x = ttMain.at
  BY DEF TtTypes
<1>2. x \in 1 .. p.n /\ x \notin p.inIsr /\ ttEntries[x].pending
  BY <1>1 DEF TurnOfMain, PlanNumbers
<1> QED BY <1>1, <1>2 DEF TurnOfMain

-----------------------------------------------------------------------------
\* An activation finds its step in progress: impossible where a tick is not preempted.
LEMMA TtIsrOverrun ==
    ASSUME NEW p, PlanNumbers(p), TtInv(p), NEW a \in 1 .. p.n, Schedule(p)!IsrOverrun(a)
    PROVE  TtInv(p)' /\ ~(p.nest = 1 /\ Timely(p))
<1>1. /\ a \in p.inIsr /\ ttEntries[a].running
      /\ Schedule(p)!Overrun(a) /\ Schedule(p)!Ages(a, FALSE) /\ Schedule(p)!NextEntry
      /\ bus' = [bus EXCEPT ![a] = Schedule(p)!OlderParts(@)]
      /\ UNCHANGED <<tick, ttMain, ttEntries, input>>
  BY DEF Schedule!IsrOverrun, Schedule!Reentered
<1>2. TtTypes(p) /\ p.n \in Nat
  BY DEF TtInv, PlanNumbers
<1>3. /\ isr # <<>> /\ isr[Len(isr)].at = a /\ isr[Len(isr)].pc = 0
      /\ Len(isr) \in Nat \ {0} /\ Len(isr) \in 1 .. Len(isr)
  BY <1>2, LookingIs DEF Schedule!IsrOverrun
<1>4. isr' \in Seq(TickFrames(p)) /\ Len(isr') = Len(isr)
  BY <1>1, <1>2, <1>3, NextEntryIs
<1>5. \A i \in 1 .. Len(isr') : isr'[i].pc # 0 => i \in 1 .. Len(isr) /\ isr'[i] = isr[i]
  BY <1>1, <1>2, <1>3, BelowStays
<1>6. /\ bus[a] \in [{1, 2} -> Ages(p)] /\ bus \in [1 .. p.n -> [{1, 2} -> Ages(p)]]
      /\ bus[a][1] \in Ages(p) /\ snapshot[a] \in Ages(p) /\ overruns[a] \in Ages(p)
  BY <1>2 DEF TtTypes
<1>7. /\ bus' \in [1 .. p.n -> [{1, 2} -> Ages(p)]]
      /\ \A k \in {1, 2} : bus'[a][k] = Schedule(p)!Older(bus[a][k])
      /\ \A b \in 1 .. p.n : b # a => bus'[b] = bus[b]
  <2>1. PICK v : v = Schedule(p)!OlderParts(bus[a])
    OBVIOUS
  <2>2. v \in [{1, 2} -> Ages(p)] /\ \A k \in {1, 2} : v[k] = Schedule(p)!Older(bus[a][k])
    BY <1>6, <2>1, OlderPartsAre
  <2>3. bus' = [bus EXCEPT ![a] = v]
    BY <1>1, <2>1
  <2> QED BY <1>6, <2>2, <2>3
<1>8. /\ snapshot' \in [1 .. p.n -> Ages(p)]
      /\ outbuf' \in [1 .. p.n -> [{0, 1} -> [{1, 2} -> Ages(p)]]]
      /\ ttSince' \in [1 .. p.n -> Nat] /\ \A b \in 1 .. p.n : ttSince'[b] <= p.limit[b] + 1
      /\ gap' \in [1 .. p.n -> Nat] /\ snapshot'[a] = Schedule(p)!Older(snapshot[a])
      /\ \A b \in 1 .. p.n : b # a => snapshot'[b] = snapshot[b] /\ outbuf'[b] = outbuf[b]
  <2>1. PICK f \in BOOLEAN : ~f /\ Schedule(p)!Ages(a, f)
    BY <1>1
  <2> QED BY <1>2, <2>1, AgesIs
<1>9. /\ overruns' \in [1 .. p.n -> Ages(p)] /\ UNCHANGED <<news, miss, stale>>
      /\ \A b \in 1 .. p.n : b # a => overruns'[b] = overruns[b]
  BY <1>1, <1>2, OverrunIs
<1>10. \A k \in {1, 2} : /\ Being(a)'[k] = Schedule(p)!Older(Being(a)[k])
                         /\ Whole(a)'[k] = Schedule(p)!Older(Whole(a)[k])
                         /\ Whole(a)[k] \in Ages(p)
  BY <1>1, <1>2, AgedAre
<1>11. TtTypes(p)'
  BY <1>1, <1>2, <1>4, <1>7, <1>8, <1>9 DEF TtTypes, Ages, TickFrames
<1>12. ASSUME NEW b \in 1 .. p.n, b # a  PROVE Being(b)' = Being(b) /\ Whole(b)' = Whole(b)
  BY <1>1, <1>8, <1>12 DEF Being, Whole
<1>13. TurnsOfTicks(p)'
  <2>1. ASSUME NEW x \in 1 .. p.n
        PROVE  \A k \in {1, 2} : Being(x)[k] = snapshot[x] => Being(x)'[k] = snapshot'[x]
    BY <1>8, <1>10, <1>12
  <2>2. TurnsOfTicks(p) /\ ttEntries' = ttEntries
    BY <1>1 DEF TtInv
  <2> QED BY <1>2, <1>5, <2>1, <2>2, TurnsStay
<1>14. TurnOfMain(p)'
  <2>1. ASSUME NEW x \in 1 .. p.n, x \notin p.inIsr
        PROVE  x # a /\ Being(x)' = Being(x) /\ Whole(x)' = Whole(x) /\ snapshot'[x] = snapshot[x]
    BY <1>1, <1>8, <1>12, <2>1
  <2>2. TurnOfMain(p) /\ ttEntries' = ttEntries /\ ttMain' = ttMain
    BY <1>1 DEF TtInv
  <2> QED BY <1>2, <2>1, <2>2, MainTurnStays
<1>15. Outputs(p)'
  <2> SUFFICES ASSUME NEW b \in 1 .. p.n PROVE OutputsOf(p, b)'
    BY DEF Outputs
  <2>1. OutputsOf(p, b)
    BY DEF TtInv, Outputs
  <2>2. CASE b # a
    BY <1>1, <1>7, <1>8, <1>9, <1>12, <2>1, <2>2 DEF OutputsOf
  <2>3. CASE b = a
    <3>1. /\ Schedule(p)!Older(bus[a][1]) > 0
          /\ Schedule(p)!Older(Whole(a)[1]) > 0
      BY <1>6, <1>10, OlderIs DEF Ages
    <3> QED BY <1>1, <1>7, <1>10, <2>1, <2>3, <3>1 DEF OutputsOf
  <2> QED BY <2>2, <2>3
<1>16. ~(p.nest = 1 /\ Timely(p))
  <2> SUFFICES ASSUME p.nest = 1, Timely(p) PROVE FALSE
    OBVIOUS
  <2>1. Len(isr) = 1
    BY <1>2, <1>3, Alone
  <2>2. isr[1].pc # 0
    BY <1>1 DEF Timely, RunsInTick
  <2> QED BY <1>3, <2>1, <2>2
<1> QED BY <1>11, <1>13, <1>14, <1>15, <1>16 DEF TtInv

\* Freezing the inputs counts a miss, or forgets the misses.
LEMMA MissesGrow ==
    ASSUME NEW p, TtTypes(p), PlanNumbers(p), NEW a \in 1 .. p.n, MissesAre(p, a),
           Schedule(p)!Freeze(a), input' = input,
           ttSince'[a] = IF ttSince[a] < p.limit[a] + 1 THEN ttSince[a] + 1 ELSE p.limit[a] + 1
    PROVE  MissesAre(p, a)'
<1>1. /\ miss[a] \in Nat /\ ttSince[a] \in Nat /\ news[a] \in BOOLEAN
      /\ miss[a] <= p.limit[a] + 1 /\ ttSince[a] <= p.limit[a] + 1 /\ p.limit[a] \in Nat
  BY DEF TtTypes, PlanNumbers
<1>2. IF input.valid /\ ~input.writing
      THEN /\ ~news'[a]
           /\ miss'[a] = IF news[a] THEN 0
                         ELSE IF miss[a] < p.limit[a] + 1 THEN miss[a] + 1 ELSE p.limit[a] + 1
      ELSE news'[a] = news[a] /\ miss'[a] = miss[a]
  BY FreezeIs
<1>3. SUFFICES ASSUME input.valid, ~input.writing  PROVE MissesAre(p, a)'
  BY DEF MissesAre
<1>4. CASE news[a]
  BY <1>1, <1>2, <1>3, <1>4 DEF MissesAre
<1>5. CASE ~news[a]
  <2>1. PICK m \in Nat : m = IF miss[a] < p.limit[a] + 1 THEN miss[a] + 1 ELSE p.limit[a] + 1
    BY <1>1
  <2>2. m <= ttSince[a] /\ (a \in p.inIsr => m = ttSince[a])
    BY <1>3, <1>5, <2>1 DEF MissesAre
  <2>3. ~news'[a] /\ miss'[a] = m
    BY <1>2, <1>3, <1>5, <2>1
  <2> QED BY <1>1, <2>1, <2>2, <2>3 DEF MissesAre
<1> QED BY <1>4, <1>5

\* A step of the ISR domain begins on the inputs that are frozen with it.
LEMMA TtIsrBegin ==
    ASSUME NEW p, PlanNumbers(p), TtInv(p), NEW a \in 1 .. p.n, Schedule(p)!IsrBegin(a)
    PROVE  TtInv(p)' /\ (p.nest = 1 /\ Timely(p) => Timely(p)')
<1>1. /\ a \in p.inIsr /\ ~ttEntries[a].running /\ tick % p.every[a] = p.at[a]
      /\ ttEntries' = [ttEntries EXCEPT ![a].running = TRUE]
      /\ Schedule(p)!Freeze(a) /\ Schedule(p)!Ages(a, TRUE) /\ Schedule(p)!GoTo(1)
      /\ bus' = [bus EXCEPT ![a] = Schedule(p)!OlderParts(@)]
      /\ UNCHANGED <<tick, ttMain, input>>
  BY DEF Schedule!IsrBegin, Schedule!Reentered, Schedule!Hit
<1>2. TtTypes(p) /\ p.n \in Nat
  BY DEF TtInv, PlanNumbers
<1>3. /\ isr # <<>> /\ isr[Len(isr)].at = a /\ isr[Len(isr)].pc = 0
      /\ Len(isr) \in Nat \ {0} /\ Len(isr) \in 1 .. Len(isr)
  BY <1>2, LookingIs DEF Schedule!IsrBegin
<1>4. /\ isr' \in Seq(TickFrames(p)) /\ Len(isr') = Len(isr) /\ isr' # <<>>
      /\ \A i \in 1 .. Len(isr) :
            isr'[i] = IF i = Len(isr) THEN [at |-> isr[i].at, pc |-> 1] ELSE isr[i]
  BY <1>1, <1>2, <1>3, GoToIs
<1>6. /\ bus[a] \in [{1, 2} -> Ages(p)] /\ bus \in [1 .. p.n -> [{1, 2} -> Ages(p)]]
      /\ bus[a][1] \in Ages(p) /\ snapshot[a] \in Ages(p) /\ overruns[a] \in Ages(p)
  BY <1>2 DEF TtTypes
<1>7. /\ bus' \in [1 .. p.n -> [{1, 2} -> Ages(p)]]
      /\ \A k \in {1, 2} : bus'[a][k] = Schedule(p)!Older(bus[a][k])
      /\ \A b \in 1 .. p.n : b # a => bus'[b] = bus[b]
  <2>1. PICK v : v = Schedule(p)!OlderParts(bus[a])
    OBVIOUS
  <2>2. v \in [{1, 2} -> Ages(p)] /\ \A k \in {1, 2} : v[k] = Schedule(p)!Older(bus[a][k])
    BY <1>6, <2>1, OlderPartsAre
  <2>3. bus' = [bus EXCEPT ![a] = v]
    BY <1>1, <2>1
  <2> QED BY <1>6, <2>2, <2>3
<1>8. /\ snapshot' \in [1 .. p.n -> Ages(p)]
      /\ outbuf' \in [1 .. p.n -> [{0, 1} -> [{1, 2} -> Ages(p)]]]
      /\ ttSince' \in [1 .. p.n -> Nat] /\ \A b \in 1 .. p.n : ttSince'[b] <= p.limit[b] + 1
      /\ gap' \in [1 .. p.n -> Nat] /\ snapshot'[a] = 0 /\ gap'[a] = 0
      /\ \A b \in 1 .. p.n : b # a =>
            /\ snapshot'[b] = snapshot[b] /\ outbuf'[b] = outbuf[b]
            /\ ttSince'[b] = ttSince[b] /\ gap'[b] = gap[b]
      /\ ttSince'[a] = IF ttSince[a] < p.limit[a] + 1 THEN ttSince[a] + 1 ELSE p.limit[a] + 1
  BY <1>1, <1>2, AgesIs
<1>9. /\ miss' \in [1 .. p.n -> Nat] /\ \A b \in 1 .. p.n : miss'[b] <= p.limit[b] + 1
      /\ news' \in [1 .. p.n -> BOOLEAN] /\ stale' \in [1 .. p.n -> BOOLEAN]
      /\ overruns' \in [1 .. p.n -> Ages(p)]
      /\ \A b \in 1 .. p.n : b # a =>
            miss'[b] = miss[b] /\ news'[b] = news[b] /\ overruns'[b] = overruns[b]
  BY <1>1, <1>2, FreezeIs
<1>10. /\ ttEntries' \in [1 .. p.n -> [phase : {0, 1}, running : BOOLEAN, pending : BOOLEAN,
                                       fresh : BOOLEAN]]
       /\ ttEntries'[a].phase = ttEntries[a].phase /\ ttEntries'[a].running
       /\ ttEntries'[a].fresh = ttEntries[a].fresh
       /\ ttEntries'[a].pending = ttEntries[a].pending
       /\ \A b \in 1 .. p.n : b # a => ttEntries'[b] = ttEntries[b]
  <2>1. PICK r : r = [ttEntries[a] EXCEPT !.running = TRUE]
    OBVIOUS
  <2>2. /\ ttEntries \in [1 .. p.n -> [phase : {0, 1}, running : BOOLEAN, pending : BOOLEAN,
                                       fresh : BOOLEAN]]
        /\ ttEntries' = [ttEntries EXCEPT ![a] = r]
    BY <1>1, <1>2, <2>1 DEF TtTypes
  <2>3. /\ r \in [phase : {0, 1}, running : BOOLEAN, pending : BOOLEAN, fresh : BOOLEAN]
        /\ r.phase = ttEntries[a].phase /\ r.running /\ r.fresh = ttEntries[a].fresh
        /\ r.pending = ttEntries[a].pending
    BY <2>1, <2>2
  <2> QED BY <2>2, <2>3
<1>11. TtTypes(p)'
  BY <1>1, <1>2, <1>4, <1>7, <1>8, <1>9, <1>10 DEF TtTypes, Ages, TickFrames
<1>12. ASSUME NEW b \in 1 .. p.n, b # a  PROVE Being(b)' = Being(b) /\ Whole(b)' = Whole(b)
  BY <1>8, <1>10, <1>12 DEF Being, Whole
<1>13. \A k \in {1, 2} : /\ Being(a)'[k] = Schedule(p)!Older(Being(a)[k])
                         /\ Whole(a)'[k] = Schedule(p)!Older(Whole(a)[k])
                         /\ Whole(a)[k] \in Ages(p)
  <2>1. ttEntries'[a].phase = ttEntries[a].phase
    BY <1>10
  <2>2. PICK f \in BOOLEAN : Schedule(p)!Ages(a, f)
    BY <1>1
  <2> QED BY <1>2, <2>1, <2>2, AgedAre
<1>14. TurnsOfTicks(p)'
  <2>1. ASSUME NEW i \in 1 .. Len(isr'), isr'[i].pc # 0, i # Len(isr)
        PROVE  \E x \in 1 .. p.n :
                  /\ x = isr'[i].at /\ x \in p.inIsr /\ ttEntries'[x].running /\ x # a
                  /\ isr'[i].pc \in {2, 3} => Being(x)'[1] = snapshot'[x]
                  /\ isr'[i].pc = 3 => Being(x)'[2] = snapshot'[x]
    <3>1. i \in 1 .. Len(isr) /\ isr'[i] = isr[i] /\ isr[i].pc # 0
      BY <1>4, <2>1
    <3>2. isr[i] \in TickFrames(p)
      BY <1>2, <3>1 DEF TtTypes
    <3>3. PICK x \in 1 .. p.n + 1 : x = isr[i].at
      BY <3>2 DEF TickFrames
    <3>4. /\ x \in p.inIsr /\ x <= p.n /\ ttEntries[x].running
          /\ isr[i].pc \in {2, 3} => Being(x)[1] = snapshot[x]
          /\ isr[i].pc = 3 => Being(x)[2] = snapshot[x]
      BY <3>1, <3>3 DEF TtInv, TurnsOfTicks
    <3>5. x \in 1 .. p.n /\ x # a
      BY <1>1, <1>2, <3>4
    <3> QED BY <1>8, <1>10, <1>12, <3>1, <3>3, <3>4, <3>5
  <2>2. ASSUME NEW i \in 1 .. Len(isr'), i = Len(isr)
        PROVE  isr'[i].at = a /\ isr'[i].pc = 1
    <3>1. isr'[i] = [at |-> isr[i].at, pc |-> 1]
      BY <1>3, <1>4, <2>2
    <3> QED BY <1>3, <2>2, <3>1
  <2>3. \A x \in 1 .. p.n : x <= p.n
    BY <1>2
  <2>4. ASSUME NEW i \in 1 .. Len(isr'), NEW j \in 1 .. Len(isr'), i # j,
               isr'[i].pc # 0, isr'[j].pc # 0
        PROVE  isr'[i].at # isr'[j].at
    <3>1. CASE i # Len(isr) /\ j # Len(isr)
      <4>1. isr'[i] = isr[i] /\ isr'[j] = isr[j] /\ i \in 1 .. Len(isr) /\ j \in 1 .. Len(isr)
        BY <1>4, <3>1
      <4> QED BY <2>4, <4>1 DEF TtInv, TurnsOfTicks
    <3>2. CASE i = Len(isr) \/ j = Len(isr)
      BY <2>1, <2>2, <2>4, <3>2
    <3> QED BY <3>1, <3>2
  <2>5. ASSUME NEW i \in 1 .. Len(isr'), isr'[i].pc # 0
        PROVE  \E x \in 1 .. p.n :
                  /\ x = isr'[i].at /\ x \in p.inIsr /\ ttEntries'[x].running /\ x <= p.n
                  /\ isr'[i].pc \in {2, 3} => Being(x)'[1] = snapshot'[x]
                  /\ isr'[i].pc = 3 => Being(x)'[2] = snapshot'[x]
    <3>1. CASE i # Len(isr)
      BY <2>1, <2>3, <2>5, <3>1
    <3>2. CASE i = Len(isr)
      <4>1. isr'[i].at = a /\ isr'[i].pc = 1
        BY <2>2, <3>2
      <4> QED BY <1>1, <1>10, <2>3, <4>1
    <3> QED BY <3>1, <3>2
  <2> QED BY <2>4, <2>5 DEF TurnsOfTicks, Being
<1>15. TurnOfMain(p)'
  <2>1. ASSUME NEW x \in 1 .. p.n, x \notin p.inIsr
        PROVE  /\ x # a /\ Being(x)' = Being(x) /\ Whole(x)' = Whole(x)
               /\ snapshot'[x] = snapshot[x] /\ ttEntries'[x] = ttEntries[x]
    BY <1>1, <1>8, <1>10, <1>12, <2>1
  <2>2. TurnOfMain(p) /\ ttMain' = ttMain
    BY <1>1 DEF TtInv
  <2> QED BY <1>2, <2>1, <2>2, MainTurnStays
<1>16. Outputs(p)'
  <2> SUFFICES ASSUME NEW b \in 1 .. p.n PROVE OutputsOf(p, b)'
    BY DEF Outputs
  <2>1. OutputsOf(p, b)
    BY DEF TtInv, Outputs
  <2>2. CASE b # a
    BY <1>1, <1>7, <1>8, <1>9, <1>10, <1>12, <2>1, <2>2 DEF OutputsOf
  <2>3. CASE b = a
    <3>1. /\ Schedule(p)!Older(bus[a][1]) > 0
          /\ Schedule(p)!Older(Whole(a)[1]) > 0
      BY <1>6, <1>13, OlderIs DEF Ages
    <3> QED BY <1>1, <1>7, <1>10, <1>13, <2>1, <2>3, <3>1 DEF OutputsOf
  <2> QED BY <2>2, <2>3
<1>17. ASSUME p.nest = 1, Timely(p)  PROVE Timely(p)'
  <2>1. Len(isr) = 1
    BY <1>2, <1>3, <1>17, Alone
  <2>2. isr[1].at = a /\ isr[1].pc = 0 /\ isr'[1].at = a /\ isr'[1].pc = 1
    <3>1. isr'[1] = [at |-> isr[1].at, pc |-> 1]
      BY <1>4, <2>1
    <3> QED BY <1>3, <2>1, <3>1
  <2>3. \A b \in 1 .. p.n : GapIs(p, b)'
    <3>1. \A b \in 1 .. p.n : GapIs(p, b)
      BY <1>17 DEF Timely
    <3>2. \A b \in 1 .. p.n : b # a => gap'[b] = gap[b]
      BY <1>8
    <3>3. IF isr[1].pc = 0 /\ tick % p.every[a] = p.at[a] THEN gap'[a] = 0 ELSE gap'[a] = gap[a]
      BY <1>1, <1>8, <2>2
    <3>4. tick' = tick
      BY <1>1
    <3>5. /\ isr # <<>> /\ isr' # <<>> /\ isr[1].at = a
          /\ (isr'[1].at = a + 1 /\ isr'[1].pc = 0) \/ (isr'[1].at = a /\ isr'[1].pc # 0)
      BY <1>3, <1>4, <2>2
    <3> QED BY <3>1, <3>2, <3>3, <3>4, <3>5, GapsGoBy
  <2> SUFFICES ASSUME NEW b \in 1 .. p.n PROVE MissesAre(p, b)' /\ RunsInTick(p, b)'
    BY <2>3 DEF Timely
  <2>4. MissesAre(p, b) /\ RunsInTick(p, b)
    BY <1>17 DEF Timely
  <2>5. CASE b # a
    <3>1. MissesAre(p, b)'
      BY <1>1, <1>8, <1>9, <2>4, <2>5 DEF MissesAre
    <3>2. ~ttEntries[b].running \/ b \notin p.inIsr
      BY <2>2, <2>4 DEF RunsInTick
    <3> QED BY <1>10, <1>12, <2>4, <2>5, <3>1, <3>2 DEF RunsInTick
  <2>6. CASE b = a
    <3>1. MissesAre(p, a)'
      BY <1>1, <1>2, <1>8, <2>4, <2>6, MissesGrow
    <3>2. Schedule(p)!Older(Whole(a)[1]) \in {1, p.oldest}
      <4>1. Whole(a)[1] \in {0, p.oldest} /\ Whole(a)[1] \in 0 .. p.oldest
        BY <1>1, <1>13, <2>4, <2>6 DEF RunsInTick, Ages
      <4>2. Schedule(p)!Older(Whole(a)[1]) =
               IF Whole(a)[1] < p.oldest THEN Whole(a)[1] + 1 ELSE p.oldest
        BY <4>1, OlderIs
      <4>3. p.oldest \in Nat \ {0}
        BY DEF PlanNumbers
      <4> QED BY <4>1, <4>2, <4>3
    <3>3. Whole(a)'[1] \in {1, p.oldest}
      BY <1>13, <3>2
    <3> QED BY <1>1, <1>4, <1>8, <1>10, <2>2, <2>6, <3>1, <3>3 DEF RunsInTick
  <2> QED BY <2>5, <2>6
<1> QED BY <1>11, <1>14, <1>15, <1>16, <1>17 DEF TtInv

\* A step of the ISR domain writes a part of its outputs.
LEMMA TtIsrStep ==
    ASSUME NEW p, PlanNumbers(p), TtInv(p), NEW a \in 1 .. p.n, NEW part \in {1, 2},
           Schedule(p)!IsrStep(a, part)
    PROVE  TtInv(p)' /\ (p.nest = 1 /\ Timely(p) => Timely(p)')
<1>1. /\ isr # <<>> /\ Schedule(p)!Top = [at |-> a, pc |-> part]
      /\ Schedule(p)!Write(a, part) /\ Schedule(p)!GoTo(part + 1)
      /\ UNCHANGED <<tick, ttMain, ttEntries, snapshot, bus, input, news, miss, stale, ttSince,
                     gap, overruns>>
  BY DEF Schedule!IsrStep
<1>2. TtTypes(p) /\ p.n \in Nat
  BY DEF TtInv, PlanNumbers
<1>3. /\ isr # <<>> /\ isr[Len(isr)].at = a /\ isr[Len(isr)].pc = part
      /\ Len(isr) \in Nat \ {0} /\ Len(isr) \in 1 .. Len(isr)
  BY <1>1, <1>2, TopOf
<1>4. /\ isr' \in Seq(TickFrames(p)) /\ Len(isr') = Len(isr) /\ isr' # <<>>
      /\ \A i \in 1 .. Len(isr) :
            isr'[i] = IF i = Len(isr) THEN [at |-> isr[i].at, pc |-> part + 1] ELSE isr[i]
  <2>1. part + 1 \in 0 .. 3
    OBVIOUS
  <2> QED BY <1>1, <1>2, <2>1, GoToIs
<1>5. isr'[Len(isr)].at = a /\ isr'[Len(isr)].pc = part + 1
  <2>1. isr'[Len(isr)] = [at |-> isr[Len(isr)].at, pc |-> part + 1]
    BY <1>3, <1>4
  <2> QED BY <1>3, <2>1
<1>6. /\ outbuf' \in [1 .. p.n -> [{0, 1} -> [{1, 2} -> Ages(p)]]]
      /\ \A b \in 1 .. p.n : b # a => outbuf'[b] = outbuf[b]
      /\ \A h \in {0, 1}, k \in {1, 2} :
            outbuf'[a][h][k] = IF h = ttEntries[a].phase /\ k = part THEN snapshot[a]
                               ELSE outbuf[a][h][k]
  BY <1>1, <1>2, WriteIs
<1>7. TtTypes(p)'
  BY <1>1, <1>2, <1>4, <1>6 DEF TtTypes, Ages, TickFrames
<1>8. ASSUME NEW b \in 1 .. p.n, b # a  PROVE Being(b)' = Being(b) /\ Whole(b)' = Whole(b)
  BY <1>1, <1>6, <1>8 DEF Being, Whole
<1>9. /\ Being(a)'[part] = snapshot[a]
      /\ \A k \in {1, 2} : /\ k # part => Being(a)'[k] = Being(a)[k]
                           /\ Whole(a)'[k] = Whole(a)[k]
  <2>1. ttEntries[a].phase \in {0, 1}
    BY <1>2 DEF TtTypes
  <2>2. 1 - ttEntries[a].phase \in {0, 1} /\ 1 - ttEntries[a].phase # ttEntries[a].phase
    BY <2>1
  <2> QED BY <1>1, <1>6, <2>1, <2>2 DEF Being, Whole
<1>10. TurnsOfTicks(p)'
  <2>0. /\ a \in p.inIsr /\ a <= p.n /\ ttEntries[a].running
        /\ part = 2 => Being(a)[1] = snapshot[a]
    BY <1>3 DEF TtInv, TurnsOfTicks
  <2>1. ASSUME NEW i \in 1 .. Len(isr'), isr'[i].pc # 0
        PROVE  /\ i \in 1 .. Len(isr) /\ isr'[i].at = isr[i].at /\ isr[i].pc # 0
               /\ i # Len(isr) => isr'[i] = isr[i] /\ isr[i].at # a
    <3>1. i \in 1 .. Len(isr)
      BY <1>4
    <3>2. CASE i = Len(isr)
      BY <1>3, <1>5, <3>1, <3>2
    <3>3. CASE i # Len(isr)
      <4>1. isr'[i] = isr[i]
        BY <1>4, <3>1, <3>3
      <4>2. isr[i].at # isr[Len(isr)].at
        BY <1>3, <2>1, <3>1, <3>3, <4>1 DEF TtInv, TurnsOfTicks
      <4> QED BY <1>3, <2>1, <3>1, <4>1, <4>2
    <3> QED BY <3>2, <3>3
  <2>2. ASSUME NEW i \in 1 .. Len(isr'), isr'[i].pc # 0
        PROVE  \E x \in 1 .. p.n :
                  /\ x = isr'[i].at /\ x \in p.inIsr /\ ttEntries[x].running /\ x <= p.n
                  /\ isr'[i].pc \in {2, 3} => Being(x)'[1] = snapshot[x]
                  /\ isr'[i].pc = 3 => Being(x)'[2] = snapshot[x]
    <3>1. CASE i = Len(isr)
      <4>1. isr'[i].at = a /\ isr'[i].pc = part + 1
        BY <1>5, <3>1
      <4>2. part = 1 => Being(a)'[1] = snapshot[a]
        BY <1>9
      <4>3. part = 2 => Being(a)'[1] = snapshot[a] /\ Being(a)'[2] = snapshot[a]
        BY <1>9, <2>0
      <4> QED BY <2>0, <4>1, <4>2, <4>3
    <3>2. CASE i # Len(isr)
      <4>1. i \in 1 .. Len(isr) /\ isr'[i] = isr[i] /\ isr[i].pc # 0 /\ isr[i].at # a
        BY <2>1, <2>2, <3>2
      <4>2. isr[i] \in TickFrames(p)
        BY <1>2, <4>1 DEF TtTypes
      <4>3. PICK x \in 1 .. p.n + 1 : x = isr[i].at
        BY <4>2 DEF TickFrames
      <4>4. /\ x \in p.inIsr /\ x <= p.n /\ ttEntries[x].running
            /\ isr[i].pc \in {2, 3} => Being(x)[1] = snapshot[x]
            /\ isr[i].pc = 3 => Being(x)[2] = snapshot[x]
        BY <4>1, <4>3 DEF TtInv, TurnsOfTicks
      <4>5. x \in 1 .. p.n /\ x # a
        BY <1>2, <4>1, <4>3, <4>4
      <4> QED BY <1>8, <4>1, <4>3, <4>4, <4>5
    <3> QED BY <3>1, <3>2
  <2>3. ASSUME NEW i \in 1 .. Len(isr'), NEW j \in 1 .. Len(isr'), i # j,
               isr'[i].pc # 0, isr'[j].pc # 0
        PROVE  isr'[i].at # isr'[j].at
    <3>1. /\ i \in 1 .. Len(isr) /\ isr'[i].at = isr[i].at /\ isr[i].pc # 0
          /\ j \in 1 .. Len(isr) /\ isr'[j].at = isr[j].at /\ isr[j].pc # 0
      BY <2>1, <2>3
    <3> QED BY <2>3, <3>1 DEF TtInv, TurnsOfTicks
  <2>4. ttEntries' = ttEntries /\ snapshot' = snapshot
    BY <1>1
  <2> QED BY <2>2, <2>3, <2>4 DEF TurnsOfTicks, Being
<1>11. a \in p.inIsr /\ ttEntries[a].running
  BY <1>3 DEF TtInv, TurnsOfTicks
<1>12. TurnOfMain(p)'
  <2>1. ASSUME NEW x \in 1 .. p.n, x \notin p.inIsr
        PROVE  x # a /\ Being(x)' = Being(x) /\ Whole(x)' = Whole(x)
    BY <1>8, <1>11, <2>1
  <2>2. TurnOfMain(p) /\ ttMain' = ttMain /\ ttEntries' = ttEntries /\ snapshot' = snapshot
    BY <1>1 DEF TtInv
  <2> QED BY <1>2, <2>1, <2>2, MainTurnStays
<1>13. Outputs(p)'
  <2> SUFFICES ASSUME NEW b \in 1 .. p.n PROVE OutputsOf(p, b)'
    BY DEF Outputs
  <2>1. OutputsOf(p, b)
    BY DEF TtInv, Outputs
  <2>2. \A k \in {1, 2} : Whole(b)'[k] = Whole(b)[k]
    BY <1>8, <1>9
  <2> QED BY <1>1, <2>1, <2>2 DEF OutputsOf
<1>14. ASSUME p.nest = 1, Timely(p)  PROVE Timely(p)'
  <2>1. Len(isr) = 1
    BY <1>2, <1>3, <1>14, Alone
  <2>2. isr[1].at = a /\ isr[1].pc # 0 /\ isr'[1].at = a /\ isr'[1].pc # 0
    BY <1>3, <1>5, <2>1
  <2> SUFFICES ASSUME NEW b \in 1 .. p.n
               PROVE  GapIs(p, b)' /\ MissesAre(p, b)' /\ RunsInTick(p, b)'
    BY DEF Timely
  <2>3. GapIs(p, b) /\ MissesAre(p, b) /\ RunsInTick(p, b)
    BY <1>14 DEF Timely
  <2>4. GapIs(p, b)'
    <3>1. Passed(b)' = Passed(b) /\ TicksSince(p, b)' = TicksSince(p, b)
      BY <1>1, <1>4, <2>2 DEF Passed, TicksSince
    <3> QED BY <1>1, <1>4, <2>3, <3>1 DEF GapIs
  <2>5. MissesAre(p, b)'
    BY <1>1, <2>3 DEF MissesAre
  <2>6. Whole(b)'[1] = Whole(b)[1]
    BY <1>8, <1>9
  <2>7. RunsInTick(p, b)'
    BY <1>1, <1>4, <2>2, <2>3, <2>6 DEF RunsInTick
  <2> QED BY <2>4, <2>5, <2>7
<1> QED BY <1>7, <1>10, <1>12, <1>13, <1>14 DEF TtInv

\* What was computed an activation earlier is published, and the buffers change over.
LEMMA TtIsrPublish ==
    ASSUME NEW p, PlanNumbers(p), TtInv(p), NEW a \in 1 .. p.n, Schedule(p)!IsrPublish(a)
    PROVE  TtInv(p)' /\ (p.nest = 1 /\ Timely(p) => Timely(p)' /\ bus'[a][1] \in {1, p.oldest})
<1>1. /\ isr # <<>> /\ Schedule(p)!Top = [at |-> a, pc |-> 3]
      /\ bus' = [bus EXCEPT ![a] = Whole(a)]
      /\ ttEntries' = [ttEntries EXCEPT ![a].phase = 1 - @, ![a].running = FALSE]
      /\ Schedule(p)!NextEntry
      /\ UNCHANGED <<tick, ttMain, snapshot, outbuf, input, news, miss, stale, ttSince, gap,
                     overruns>>
  BY DEF Schedule!IsrPublish, Schedule!Completed, Whole
<1>2. TtTypes(p) /\ p.n \in Nat
  BY DEF TtInv, PlanNumbers
<1>3. /\ isr # <<>> /\ isr[Len(isr)].at = a /\ isr[Len(isr)].pc = 3
      /\ Len(isr) \in Nat \ {0} /\ Len(isr) \in 1 .. Len(isr)
  BY <1>1, <1>2, TopOf
<1>4. /\ isr' \in Seq(TickFrames(p)) /\ Len(isr') = Len(isr) /\ isr' # <<>>
      /\ \A i \in 1 .. Len(isr) :
            isr'[i] = IF i = Len(isr) THEN [at |-> isr[i].at + 1, pc |-> 0] ELSE isr[i]
  BY <1>1, <1>2, <1>3, NextEntryIs
<1>5. /\ a \in p.inIsr /\ ttEntries[a].running
      /\ Being(a)[1] = snapshot[a] /\ Being(a)[2] = snapshot[a]
  BY <1>3 DEF TtInv, TurnsOfTicks
<1>6. /\ ttEntries' \in [1 .. p.n -> [phase : {0, 1}, running : BOOLEAN, pending : BOOLEAN,
                                      fresh : BOOLEAN]]
      /\ ttEntries'[a].phase = 1 - ttEntries[a].phase /\ ~ttEntries'[a].running
      /\ ttEntries'[a].fresh = ttEntries[a].fresh
      /\ ttEntries'[a].pending = ttEntries[a].pending
      /\ \A b \in 1 .. p.n : b # a => ttEntries'[b] = ttEntries[b]
      /\ ttEntries[a].phase \in {0, 1}
  <2>1. PICK r : r = [ttEntries[a] EXCEPT !.phase = 1 - @, !.running = FALSE]
    OBVIOUS
  <2>2. /\ ttEntries \in [1 .. p.n -> [phase : {0, 1}, running : BOOLEAN, pending : BOOLEAN,
                                       fresh : BOOLEAN]]
        /\ ttEntries' = [ttEntries EXCEPT ![a] = r]
    BY <1>1, <1>2, <2>1 DEF TtTypes
  <2>3. ttEntries[a].phase \in {0, 1} /\ 1 - ttEntries[a].phase \in {0, 1}
    BY <2>2
  <2>4. /\ r \in [phase : {0, 1}, running : BOOLEAN, pending : BOOLEAN, fresh : BOOLEAN]
        /\ r.phase = 1 - ttEntries[a].phase /\ ~r.running /\ r.fresh = ttEntries[a].fresh
        /\ r.pending = ttEntries[a].pending
    BY <2>1, <2>2, <2>3
  <2> QED BY <2>2, <2>3, <2>4
<1>7. ASSUME NEW b \in 1 .. p.n, b # a  PROVE Being(b)' = Being(b) /\ Whole(b)' = Whole(b)
  BY <1>1, <1>6, <1>7 DEF Being, Whole
<1>8. Whole(a)' = Being(a)
  <2>1. 1 - (1 - ttEntries[a].phase) = ttEntries[a].phase
    BY <1>6
  <2> QED BY <1>1, <1>6, <2>1 DEF Being, Whole
<1>9. /\ bus' \in [1 .. p.n -> [{1, 2} -> Ages(p)]] /\ bus'[a] = Whole(a)
      /\ \A b \in 1 .. p.n : b # a => bus'[b] = bus[b]
  <2>1. bus \in [1 .. p.n -> [{1, 2} -> Ages(p)]]
        /\ outbuf[a] \in [{0, 1} -> [{1, 2} -> Ages(p)]]
    BY <1>2 DEF TtTypes
  <2>2. Whole(a) \in [{1, 2} -> Ages(p)]
    BY <1>6, <2>1 DEF Whole
  <2> QED BY <1>1, <2>1, <2>2
<1>10. TtTypes(p)'
  BY <1>1, <1>2, <1>4, <1>6, <1>9 DEF TtTypes, Ages, TickFrames
<1>11. ASSUME NEW i \in 1 .. Len(isr'), isr'[i].pc # 0
       PROVE  i \in 1 .. Len(isr) /\ i # Len(isr) /\ isr'[i] = isr[i] /\ isr[i].at # a
  <2>1. i \in 1 .. Len(isr) /\ i # Len(isr) /\ isr'[i] = isr[i]
    BY <1>1, <1>2, <1>3, <1>11, BelowStays
  <2> QED BY <1>3, <1>11, <2>1 DEF TtInv, TurnsOfTicks
<1>12. TurnsOfTicks(p)'
  <2>1. ASSUME NEW i \in 1 .. Len(isr'), isr'[i].pc # 0
        PROVE  \E x \in 1 .. p.n :
                  /\ x = isr'[i].at /\ x \in p.inIsr /\ ttEntries'[x].running /\ x <= p.n
                  /\ isr'[i].pc \in {2, 3} => Being(x)'[1] = snapshot[x]
                  /\ isr'[i].pc = 3 => Being(x)'[2] = snapshot[x]
    <3>1. i \in 1 .. Len(isr) /\ isr'[i] = isr[i] /\ isr[i].pc # 0 /\ isr[i].at # a
      BY <1>11, <2>1
    <3>2. isr[i] \in TickFrames(p)
      BY <1>2, <3>1 DEF TtTypes
    <3>3. PICK x \in 1 .. p.n + 1 : x = isr[i].at
      BY <3>2 DEF TickFrames
    <3>4. /\ x \in p.inIsr /\ x <= p.n /\ ttEntries[x].running
          /\ isr[i].pc \in {2, 3} => Being(x)[1] = snapshot[x]
          /\ isr[i].pc = 3 => Being(x)[2] = snapshot[x]
      BY <3>1, <3>3 DEF TtInv, TurnsOfTicks
    <3>5. x \in 1 .. p.n /\ x # a
      BY <1>2, <3>1, <3>3, <3>4
    <3> QED BY <1>6, <1>7, <3>1, <3>3, <3>4, <3>5
  <2>2. ASSUME NEW i \in 1 .. Len(isr'), NEW j \in 1 .. Len(isr'), i # j,
               isr'[i].pc # 0, isr'[j].pc # 0
        PROVE  isr'[i].at # isr'[j].at
    <3>1. /\ i \in 1 .. Len(isr) /\ isr'[i] = isr[i]
          /\ j \in 1 .. Len(isr) /\ isr'[j] = isr[j]
      BY <1>11, <2>2
    <3> QED BY <2>2, <3>1 DEF TtInv, TurnsOfTicks
  <2>3. snapshot' = snapshot
    BY <1>1
  <2> QED BY <2>1, <2>2, <2>3 DEF TurnsOfTicks, Being
<1>13. TurnOfMain(p)'
  <2>1. ASSUME NEW x \in 1 .. p.n, x \notin p.inIsr
        PROVE  x # a /\ Being(x)' = Being(x) /\ Whole(x)' = Whole(x)
               /\ ttEntries'[x] = ttEntries[x]
    BY <1>5, <1>6, <1>7, <2>1
  <2>2. TurnOfMain(p) /\ ttMain' = ttMain /\ snapshot' = snapshot
    BY <1>1 DEF TtInv
  <2> QED BY <1>2, <2>1, <2>2, MainTurnStays
<1>14. OutputsOf(p, a)
  BY DEF TtInv, Outputs
<1>15. Outputs(p)'
  <2> SUFFICES ASSUME NEW b \in 1 .. p.n PROVE OutputsOf(p, b)'
    BY DEF Outputs
  <2>1. OutputsOf(p, b)
    BY DEF TtInv, Outputs
  <2>2. CASE b # a
    BY <1>1, <1>6, <1>7, <1>9, <2>1, <2>2 DEF OutputsOf
  <2>3. CASE b = a
    <3>1. Whole(a)[1] = Whole(a)[2] /\ Whole(a)[1] > 0
      BY <1>5, <1>14 DEF OutputsOf
    <3> QED BY <1>1, <1>5, <1>6, <1>8, <1>9, <2>1, <2>3, <3>1 DEF OutputsOf
  <2> QED BY <2>2, <2>3
<1>16. ASSUME p.nest = 1, Timely(p)  PROVE Timely(p)' /\ bus'[a][1] \in {1, p.oldest}
  <2>1. Len(isr) = 1
    BY <1>2, <1>3, <1>16, Alone
  <2>2. isr[1].at = a /\ isr[1].pc # 0 /\ isr'[1].at = a + 1 /\ isr'[1].pc = 0
    <3>1. isr'[1] = [at |-> isr[1].at + 1, pc |-> 0]
      BY <1>4, <2>1
    <3> QED BY <1>3, <2>1, <3>1
  <2>3. \A b \in 1 .. p.n : GapIs(p, b)'
    <3>1. \A b \in 1 .. p.n : GapIs(p, b)
      BY <1>16 DEF Timely
    <3>2. \A b \in 1 .. p.n : b # a => gap'[b] = gap[b]
      BY <1>1
    <3>3. IF isr[1].pc = 0 /\ tick % p.every[a] = p.at[a] THEN gap'[a] = 0 ELSE gap'[a] = gap[a]
      BY <1>1, <2>2
    <3>4. tick' = tick
      BY <1>1
    <3>5. /\ isr # <<>> /\ isr' # <<>> /\ isr[1].at = a
          /\ (isr'[1].at = a + 1 /\ isr'[1].pc = 0) \/ (isr'[1].at = a /\ isr'[1].pc # 0)
      BY <1>3, <1>4, <2>2
    <3> QED BY <3>1, <3>2, <3>3, <3>4, <3>5, GapsGoBy
  <2>4. RunsInTick(p, a)
    BY <1>16 DEF Timely
  <2>5. bus'[a][1] \in {1, p.oldest} /\ snapshot[a] = 0
    BY <1>5, <1>9, <2>4 DEF RunsInTick
  <2> SUFFICES ASSUME NEW b \in 1 .. p.n PROVE MissesAre(p, b)' /\ RunsInTick(p, b)'
    BY <2>3, <2>5 DEF Timely
  <2>6. MissesAre(p, b) /\ RunsInTick(p, b)
    BY <1>16 DEF Timely
  <2>7. MissesAre(p, b)'
    BY <1>1, <2>6 DEF MissesAre
  <2>8. CASE b = a
    BY <1>5, <1>6, <1>8, <2>5, <2>7, <2>8 DEF RunsInTick
  <2>9. CASE b # a
    <3>1. ~ttEntries[b].running \/ b \notin p.inIsr
      BY <2>2, <2>6, <2>9 DEF RunsInTick
    <3> QED BY <1>6, <1>7, <2>6, <2>7, <2>9, <3>1 DEF RunsInTick
  <2> QED BY <2>8, <2>9
<1> QED BY <1>10, <1>12, <1>13, <1>15, <1>16 DEF TtInv

\* An activation of the main loop's: what is finished is published, and the inputs are
\* frozen, or an overrun is counted.
LEMMA TtMainHit ==
    ASSUME NEW p, PlanNumbers(p), TtInv(p), NEW a \in 1 .. p.n, Schedule(p)!MainHit(a)
    PROVE  /\ TtInv(p)' /\ (p.nest = 1 /\ Timely(p) => Timely(p)')
           /\ ttEntries[a].fresh => bus'[a][1] = Schedule(p)!Older(overruns[a])
<1>1. /\ a \notin p.inIsr /\ tick % p.every[a] = p.at[a]
      /\ bus' = [bus EXCEPT ![a] = Schedule(p)!OlderParts(IF ttEntries[a].fresh THEN Whole(a)
                                                          ELSE bus[a])]
      /\ ttEntries' = [ttEntries EXCEPT ![a].fresh = FALSE, ![a].pending = TRUE]
      /\ Schedule(p)!Ages(a, ~ttEntries[a].pending)
      /\ IF ttEntries[a].pending THEN Schedule(p)!Overrun(a) ELSE Schedule(p)!Freeze(a)
      /\ Schedule(p)!NextEntry
      /\ UNCHANGED <<tick, ttMain, input>>
  BY DEF Schedule!MainHit, Schedule!StillPending, Schedule!Completed, Schedule!Hit, Whole
<1>2. TtTypes(p) /\ p.n \in Nat
  BY DEF TtInv, PlanNumbers
<1>3. /\ isr # <<>> /\ isr[Len(isr)].at = a /\ isr[Len(isr)].pc = 0
      /\ Len(isr) \in Nat \ {0} /\ Len(isr) \in 1 .. Len(isr)
  BY <1>2, LookingIs DEF Schedule!MainHit
<1>4. /\ isr' \in Seq(TickFrames(p)) /\ Len(isr') = Len(isr) /\ isr' # <<>>
      /\ \A i \in 1 .. Len(isr) :
            isr'[i] = IF i = Len(isr) THEN [at |-> isr[i].at + 1, pc |-> 0] ELSE isr[i]
  BY <1>1, <1>2, <1>3, NextEntryIs
<1>5. \A i \in 1 .. Len(isr') : isr'[i].pc # 0 => i \in 1 .. Len(isr) /\ isr'[i] = isr[i]
  BY <1>1, <1>2, <1>3, BelowStays
<1>6. /\ ttEntries' \in [1 .. p.n -> [phase : {0, 1}, running : BOOLEAN, pending : BOOLEAN,
                                      fresh : BOOLEAN]]
      /\ ttEntries'[a].phase = ttEntries[a].phase
      /\ ttEntries'[a].running = ttEntries[a].running
      /\ ~ttEntries'[a].fresh /\ ttEntries'[a].pending
      /\ \A b \in 1 .. p.n : b # a => ttEntries'[b] = ttEntries[b]
      /\ ttEntries[a].phase \in {0, 1} /\ ttEntries[a].pending \in BOOLEAN
  <2>1. PICK r : r = [ttEntries[a] EXCEPT !.fresh = FALSE, !.pending = TRUE]
    OBVIOUS
  <2>2. /\ ttEntries \in [1 .. p.n -> [phase : {0, 1}, running : BOOLEAN, pending : BOOLEAN,
                                       fresh : BOOLEAN]]
        /\ ttEntries' = [ttEntries EXCEPT ![a] = r]
    BY <1>1, <1>2, <2>1 DEF TtTypes
  <2>3. /\ r \in [phase : {0, 1}, running : BOOLEAN, pending : BOOLEAN, fresh : BOOLEAN]
        /\ r.phase = ttEntries[a].phase /\ r.running = ttEntries[a].running /\ ~r.fresh
        /\ r.pending
    BY <2>1, <2>2
  <2> QED BY <2>2, <2>3
<1>7. PICK f \in BOOLEAN : f <=> ~ttEntries[a].pending
  OBVIOUS
<1>8. Schedule(p)!Ages(a, f)
  <2>1. f = ~ttEntries[a].pending
    BY <1>6, <1>7
  <2> QED BY <1>1, <2>1
<1>9. /\ snapshot' \in [1 .. p.n -> Ages(p)]
      /\ outbuf' \in [1 .. p.n -> [{0, 1} -> [{1, 2} -> Ages(p)]]]
      /\ ttSince' \in [1 .. p.n -> Nat] /\ \A b \in 1 .. p.n : ttSince'[b] <= p.limit[b] + 1
      /\ gap' \in [1 .. p.n -> Nat] /\ gap'[a] = 0
      /\ snapshot'[a] = IF f THEN 0 ELSE Schedule(p)!Older(snapshot[a])
      /\ \A b \in 1 .. p.n : b # a =>
            /\ snapshot'[b] = snapshot[b] /\ outbuf'[b] = outbuf[b]
            /\ ttSince'[b] = ttSince[b] /\ gap'[b] = gap[b]
      /\ ttSince'[a] = IF ttSince[a] < p.limit[a] + 1 THEN ttSince[a] + 1 ELSE p.limit[a] + 1
  BY <1>2, <1>8, AgesIs
<1>10. \A k \in {1, 2} : /\ Being(a)'[k] = Schedule(p)!Older(Being(a)[k])
                         /\ Whole(a)'[k] = Schedule(p)!Older(Whole(a)[k])
                         /\ Whole(a)[k] \in Ages(p)
  BY <1>2, <1>6, <1>8, AgedAre
<1>11. /\ miss' \in [1 .. p.n -> Nat] /\ \A b \in 1 .. p.n : miss'[b] <= p.limit[b] + 1
       /\ news' \in [1 .. p.n -> BOOLEAN] /\ stale' \in [1 .. p.n -> BOOLEAN]
       /\ overruns' \in [1 .. p.n -> Ages(p)]
       /\ \A b \in 1 .. p.n : b # a =>
             miss'[b] = miss[b] /\ news'[b] = news[b] /\ overruns'[b] = overruns[b]
       /\ overruns'[a] = IF f THEN 0 ELSE Schedule(p)!Older(overruns[a])
  <2>1. CASE f
    <3>1. Schedule(p)!Freeze(a)
      BY <1>1, <1>7, <2>1
    <3> QED BY <1>2, <2>1, <3>1, FreezeIs
  <2>2. CASE ~f
    <3>1. Schedule(p)!Overrun(a)
      BY <1>1, <1>7, <2>2
    <3>2. /\ overruns' \in [1 .. p.n -> Ages(p)] /\ overruns'[a] = Schedule(p)!Older(overruns[a])
          /\ \A b \in 1 .. p.n : b # a => overruns'[b] = overruns[b]
          /\ news' = news /\ miss' = miss /\ stale' = stale
      BY <1>2, <3>1, OverrunIs
    <3>3. /\ miss \in [1 .. p.n -> Nat] /\ \A b \in 1 .. p.n : miss[b] <= p.limit[b] + 1
          /\ news \in [1 .. p.n -> BOOLEAN] /\ stale \in [1 .. p.n -> BOOLEAN]
      BY <1>2 DEF TtTypes
    <3> QED BY <2>2, <3>2, <3>3
  <2> QED BY <2>1, <2>2
<1>12. OutputsOf(p, a) /\ ~ttEntries[a].running
  BY <1>1 DEF TtInv, Outputs, OutputsOf
<1>13. PICK v \in [{1, 2} -> Ages(p)] :
          v = (IF ttEntries[a].fresh THEN Whole(a) ELSE bus[a]) /\ v[1] = v[2]
  <2>1. bus[a] \in [{1, 2} -> Ages(p)] /\ outbuf[a] \in [{0, 1} -> [{1, 2} -> Ages(p)]]
    BY <1>2 DEF TtTypes
  <2>2. Whole(a) \in [{1, 2} -> Ages(p)]
    BY <1>6, <2>1 DEF Whole
  <2>3. Whole(a)[1] = Whole(a)[2] /\ bus[a][1] = bus[a][2]
    BY <1>12 DEF OutputsOf
  <2> QED BY <2>1, <2>2, <2>3
<1>14. /\ bus' \in [1 .. p.n -> [{1, 2} -> Ages(p)]]
       /\ bus'[a][1] = Schedule(p)!Older(v[1]) /\ bus'[a][2] = Schedule(p)!Older(v[1])
       /\ bus'[a][1] > 0
       /\ \A b \in 1 .. p.n : b # a => bus'[b] = bus[b]
  <2>1. PICK w : w = Schedule(p)!OlderParts(v)
    OBVIOUS
  <2>2. w \in [{1, 2} -> Ages(p)] /\ \A k \in {1, 2} : w[k] = Schedule(p)!Older(v[k])
    BY <1>13, <2>1, OlderPartsAre
  <2>3. bus' = [bus EXCEPT ![a] = w] /\ bus \in [1 .. p.n -> [{1, 2} -> Ages(p)]]
    BY <1>1, <1>2, <1>13, <2>1 DEF TtTypes
  <2>4. v[1] \in 0 .. p.oldest
    BY <1>13 DEF Ages
  <2>5. Schedule(p)!Older(v[1]) > 0
    BY <2>4, OlderIs
  <2> QED BY <1>13, <2>2, <2>3, <2>5
<1>15. TtTypes(p)'
  BY <1>1, <1>2, <1>4, <1>6, <1>9, <1>11, <1>14 DEF TtTypes, Ages, TickFrames
<1>16. ASSUME NEW b \in 1 .. p.n, b # a  PROVE Being(b)' = Being(b) /\ Whole(b)' = Whole(b)
  BY <1>6, <1>9, <1>16 DEF Being, Whole
<1>17. TurnsOfTicks(p)'
  <2>1. ASSUME NEW x \in 1 .. p.n, x \in p.inIsr
        PROVE  /\ x # a /\ Being(x)' = Being(x) /\ snapshot'[x] = snapshot[x]
               /\ ttEntries'[x] = ttEntries[x]
    BY <1>1, <1>6, <1>9, <1>16, <2>1
  <2>2. TurnsOfTicks(p)
    BY DEF TtInv
  <2> QED BY <1>2, <1>5, <2>1, <2>2, TurnsStay
<1>18. TurnOfMain(p)'
  <2>1. ASSUME NEW x \in 1 .. p.n, x \notin p.inIsr, ttEntries[x].pending
        PROVE  /\ ttEntries'[x].pending
               /\ \A k \in {1, 2} : Being(x)[k] = snapshot[x] => Being(x)'[k] = snapshot'[x]
               /\ Whole(x)[1] = snapshot[x] => Whole(x)'[1] = snapshot'[x]
    <3>1. CASE x = a
      <4>1. ~f /\ snapshot'[a] = Schedule(p)!Older(snapshot[a])
        BY <1>7, <1>9, <2>1, <3>1
      <4> QED BY <1>6, <1>10, <3>1, <4>1
    <3>2. CASE x # a
      <4>1. Being(x)' = Being(x) /\ Whole(x)' = Whole(x) /\ snapshot'[x] = snapshot[x]
            /\ ttEntries'[x] = ttEntries[x]
        BY <1>6, <1>9, <1>16, <3>2
      <4> QED BY <2>1, <4>1
    <3> QED BY <3>1, <3>2
  <2>2. TurnOfMain(p) /\ ttMain' = ttMain
    BY <1>1 DEF TtInv
  <2> QED BY <1>2, <2>1, <2>2, MainTurnStays
<1>19. Outputs(p)'
  <2> SUFFICES ASSUME NEW b \in 1 .. p.n PROVE OutputsOf(p, b)'
    BY DEF Outputs
  <2>1. OutputsOf(p, b)
    BY DEF TtInv, Outputs
  <2>2. CASE b # a
    BY <1>1, <1>6, <1>9, <1>11, <1>14, <1>16, <2>1, <2>2 DEF OutputsOf
  <2>3. CASE b = a
    <3>1. Whole(a)'[1] = Whole(a)'[2]
      BY <1>10, <1>12 DEF OutputsOf
    <3>2. snapshot'[a] = overruns'[a]
      <4>1. CASE f
        BY <1>9, <1>11, <4>1
      <4>2. CASE ~f
        <5>1. snapshot[a] = overruns[a]
          BY <1>1, <1>7, <1>12, <4>2 DEF OutputsOf
        <5> QED BY <1>9, <1>11, <4>2, <5>1
      <4> QED BY <4>1, <4>2
    <3> QED BY <1>1, <1>6, <1>12, <1>14, <2>3, <3>1, <3>2 DEF OutputsOf
  <2> QED BY <2>2, <2>3
<1>20. ASSUME ttEntries[a].fresh  PROVE bus'[a][1] = Schedule(p)!Older(overruns[a])
  <2>1. Whole(a)[1] = overruns[a]
    BY <1>1, <1>12, <1>20 DEF OutputsOf
  <2> QED BY <1>13, <1>14, <1>20, <2>1
<1>21. ASSUME p.nest = 1, Timely(p)  PROVE Timely(p)'
  <2>1. Len(isr) = 1
    BY <1>2, <1>3, <1>21, Alone
  <2>2. isr[1].at = a /\ isr[1].pc = 0 /\ isr'[1].at = a + 1 /\ isr'[1].pc = 0
    <3>1. isr'[1] = [at |-> isr[1].at + 1, pc |-> 0]
      BY <1>4, <2>1
    <3> QED BY <1>3, <2>1, <3>1
  <2>3. \A b \in 1 .. p.n : GapIs(p, b)'
    <3>1. \A b \in 1 .. p.n : GapIs(p, b)
      BY <1>21 DEF Timely
    <3>2. \A b \in 1 .. p.n : b # a => gap'[b] = gap[b]
      BY <1>9
    <3>3. IF isr[1].pc = 0 /\ tick % p.every[a] = p.at[a] THEN gap'[a] = 0 ELSE gap'[a] = gap[a]
      BY <1>1, <1>9, <2>2
    <3>4. tick' = tick
      BY <1>1
    <3>5. /\ isr # <<>> /\ isr' # <<>> /\ isr[1].at = a
          /\ (isr'[1].at = a + 1 /\ isr'[1].pc = 0) \/ (isr'[1].at = a /\ isr'[1].pc # 0)
      BY <1>3, <1>4, <2>2
    <3> QED BY <3>1, <3>2, <3>3, <3>4, <3>5, GapsGoBy
  <2> SUFFICES ASSUME NEW b \in 1 .. p.n PROVE MissesAre(p, b)' /\ RunsInTick(p, b)'
    BY <2>3 DEF Timely
  <2>4. MissesAre(p, b) /\ RunsInTick(p, b)
    BY <1>21 DEF Timely
  <2>5. CASE b # a
    <3>1. MissesAre(p, b)'
      BY <1>1, <1>9, <1>11, <2>4, <2>5 DEF MissesAre
    <3>2. ~ttEntries[b].running \/ b \notin p.inIsr
      BY <2>2, <2>4 DEF RunsInTick
    <3> QED BY <1>6, <1>16, <2>4, <2>5, <3>1, <3>2 DEF RunsInTick
  <2>6. CASE b = a
    <3>1. RunsInTick(p, a)'
      BY <1>1 DEF RunsInTick
    <3>2. CASE f
      <4>1. Schedule(p)!Freeze(a)
        BY <1>1, <1>7, <3>2
      <4>2. MissesAre(p, a)'
        BY <1>1, <1>2, <1>9, <2>4, <2>6, <4>1, MissesGrow
      <4> QED BY <2>6, <3>1, <4>2
    <3>3. CASE ~f
      <4>1. news' = news /\ miss' = miss
        BY <1>1, <1>2, <1>7, <3>3, OverrunIs
      <4>2. /\ ttSince[a] \in Nat /\ ttSince[a] <= p.limit[a] + 1 /\ p.limit[a] \in Nat
            /\ miss[a] \in Nat
        BY <1>2 DEF TtTypes, PlanNumbers
      <4>3. ttSince'[a] \in Nat /\ ttSince[a] <= ttSince'[a]
        BY <1>9, <4>2
      <4>4. PICK m \in Nat : m = IF miss[a] < p.limit[a] + 1 THEN miss[a] + 1 ELSE p.limit[a] + 1
        BY <4>2
      <4>5. input.valid /\ ~input.writing /\ ~news[a] => m <= ttSince[a]
        BY <2>4, <2>6, <4>4 DEF MissesAre
      <4>6. m <= ttSince[a] => m <= ttSince'[a]
        BY <4>2, <4>3, <4>4
      <4>7. MissesAre(p, a)'
        BY <1>1, <4>1, <4>4, <4>5, <4>6 DEF MissesAre
      <4> QED BY <2>6, <3>1, <4>7
    <3> QED BY <3>2, <3>3
  <2> QED BY <2>5, <2>6
<1> QED BY <1>15, <1>17, <1>18, <1>19, <1>20, <1>21 DEF TtInv

-----------------------------------------------------------------------------
\* The main loop goes on, and leaves what ticks do alone.
LEMMA TtMainGoes ==
    ASSUME NEW p, TtInv(p), isr = <<>>,
           UNCHANGED <<tick, isr, snapshot, bus, input, news, miss, stale, ttSince, gap,
                       overruns>>,
           \A b \in p.inIsr \cap 1 .. p.n :
              ttEntries'[b] = ttEntries[b] /\ outbuf'[b] = outbuf[b]
    PROVE  TurnsOfTicks(p)' /\ (Timely(p) => Timely(p)')
<1>1. TurnsOfTicks(p)'
  <2>1. isr' = <<>> /\ 1 .. Len(isr') = {}
    <3>1. Len(<<>>) = 0
      OBVIOUS
    <3> QED BY <3>1
  <2> QED BY <2>1 DEF TurnsOfTicks
<1>2. ASSUME Timely(p), NEW a \in 1 .. p.n
      PROVE  GapIs(p, a)' /\ MissesAre(p, a)' /\ RunsInTick(p, a)'
  <2>1. GapIs(p, a) /\ MissesAre(p, a) /\ RunsInTick(p, a)
    BY <1>2 DEF Timely
  <2>2. GapIs(p, a)'
    BY <2>1 DEF GapIs, TicksSince, Passed
  <2>3. MissesAre(p, a)'
    BY <2>1 DEF MissesAre
  <2>4. RunsInTick(p, a)'
    <3>1. CASE a \in p.inIsr
      <4>1. ttEntries'[a] = ttEntries[a] /\ outbuf'[a] = outbuf[a]
        BY <3>1
      <4> QED BY <2>1, <4>1 DEF RunsInTick, Whole
    <3>2. CASE a \notin p.inIsr
      BY <3>2 DEF RunsInTick
    <3> QED BY <3>1, <3>2
  <2> QED BY <2>2, <2>3, <2>4
<1> QED BY <1>1, <1>2 DEF Timely

\* The numbers of the main loop.
LEMMA MainIs ==
    ASSUME NEW p, TtTypes(p)
    PROVE  /\ ttMain.pc \in 0 .. 5 \cup {9} /\ ttMain.at \in 1 .. p.n + 1
           /\ ttMain.ran \in 0 .. p.budget
           /\ \A c \in 0 .. 5 \cup {9} :
                 [ttMain EXCEPT !.pc = c] = [pc |-> c, at |-> ttMain.at, ran |-> ttMain.ran]
<1>1. ttMain \in [pc : 0 .. 5 \cup {9}, at : 1 .. p.n + 1, ran : 0 .. p.budget]
  BY DEF TtTypes
<1> QED BY <1>1

LEMMA TtRunPending ==
    ASSUME NEW p, PlanNumbers(p), TtInv(p), Schedule(p)!RunPending
    PROVE  TtInv(p)' /\ (Timely(p) => Timely(p)')
<1>1. /\ isr = <<>> /\ ttMain.pc = 9 /\ ttMain' = [ttMain EXCEPT !.pc = 0]
      /\ UNCHANGED <<tick, isr, snapshot, bus, input, news, miss, stale, ttSince, gap, overruns,
                     ttEntries, outbuf>>
  BY DEF Schedule!RunPending, Schedule!MainGoes, Schedule!Away, Schedule!AtEntry
<1>2. TtTypes(p)
  BY DEF TtInv
<1>3. ttMain' = [pc |-> 0, at |-> ttMain.at, ran |-> ttMain.ran]
      /\ ttMain.at \in 1 .. p.n + 1 /\ ttMain.ran \in 0 .. p.budget
  BY <1>1, <1>2, MainIs
<1>4. TtTypes(p)'
  BY <1>1, <1>2, <1>3 DEF TtTypes, Ages, TickFrames
<1>5. TurnOfMain(p)'
  BY <1>3 DEF TurnOfMain
<1>6. Outputs(p)'
  <2> SUFFICES ASSUME NEW b \in 1 .. p.n PROVE OutputsOf(p, b)'
    BY DEF Outputs
  <2>1. OutputsOf(p, b) /\ Whole(b)' = Whole(b)
    BY <1>1 DEF TtInv, Outputs, Whole
  <2> QED BY <1>1, <1>3, <2>1 DEF OutputsOf
<1> QED BY <1>1, <1>4, <1>5, <1>6, TtMainGoes DEF TtInv

LEMMA TtMainLook ==
    ASSUME NEW p, PlanNumbers(p), TtInv(p), Schedule(p)!MainLook
    PROVE  TtInv(p)' /\ (Timely(p) => Timely(p)')
<1>1. /\ isr = <<>> /\ ttMain.pc = 0
      /\ ttMain' = IF ttMain.at > p.n \/ ttMain.ran = p.budget THEN [pc |-> 9, at |-> 1, ran |-> 0]
                   ELSE IF ttMain.at \notin p.inIsr /\ ttEntries[ttMain.at].pending
                   THEN [ttMain EXCEPT !.pc = 1]
                   ELSE [ttMain EXCEPT !.at = @ + 1]
      /\ UNCHANGED <<tick, isr, snapshot, bus, input, news, miss, stale, ttSince, gap, overruns,
                     ttEntries, outbuf>>
  BY DEF Schedule!MainLook, Schedule!Runnable, Schedule!Away, Schedule!AtEntry, Schedule!Idle
<1>2. TtTypes(p) /\ p.n \in Nat /\ p.budget \in Nat
  BY DEF TtInv, PlanNumbers
<1>3. PICK x \in 1 .. p.n + 1, r \in 0 .. p.budget : ttMain = [pc |-> 0, at |-> x, ran |-> r]
  <2>1. ttMain \in [pc : 0 .. 5 \cup {9}, at : 1 .. p.n + 1, ran : 0 .. p.budget]
    BY <1>2 DEF TtTypes
  <2> QED BY <1>1, <2>1
<1>4. \/ ttMain' = [pc |-> 9, at |-> 1, ran |-> 0]
      \/ /\ ttMain' = [pc |-> 1, at |-> x, ran |-> r] /\ x \in 1 .. p.n /\ r < p.budget
         /\ x \notin p.inIsr /\ ttEntries[x].pending
      \/ ttMain' = [pc |-> 0, at |-> x + 1, ran |-> r] /\ x + 1 \in 1 .. p.n + 1
  <2>1. x > p.n \/ x \in 1 .. p.n
    BY <1>2
  <2>2. r = p.budget \/ r < p.budget
    BY <1>2
  <2>3. ttMain.at = x /\ ttMain.ran = r
    BY <1>3
  <2> QED BY <1>1, <1>2, <1>3, <2>1, <2>2, <2>3
<1>5. TtTypes(p)'
  <2>1. ttMain' \in [pc : 0 .. 5 \cup {9}, at : 1 .. p.n + 1, ran : 0 .. p.budget]
    BY <1>2, <1>4
  <2> QED BY <1>1, <1>2, <2>1 DEF TtTypes, Ages, TickFrames
<1>6. TurnOfMain(p)'
  <2>1. x \in 1 .. p.n => x <= p.n
    BY <1>2
  <2> QED BY <1>1, <1>4, <2>1 DEF TurnOfMain
<1>7. Outputs(p)'
  <2> SUFFICES ASSUME NEW b \in 1 .. p.n PROVE OutputsOf(p, b)'
    BY DEF Outputs
  <2>1. OutputsOf(p, b) /\ Whole(b)' = Whole(b)
    BY <1>1 DEF TtInv, Outputs, Whole
  <2> QED BY <1>1, <2>1 DEF OutputsOf
<1> QED BY <1>1, <1>5, <1>6, <1>7, TtMainGoes DEF TtInv

\* The main loop in the turn of an activity.
LEMMA InTurn ==
    ASSUME NEW p, PlanNumbers(p), TtInv(p), ttMain.pc \in 1 .. 5
    PROVE  /\ ttMain.at \in 1 .. p.n /\ ttMain.at \notin p.inIsr
           /\ ttMain.ran \in Nat /\ ttMain.ran < p.budget
           /\ ttEntries[ttMain.at].pending
           /\ snapshot[ttMain.at] = overruns[ttMain.at]
           /\ ttEntries[ttMain.at].phase \in {0, 1}
           /\ \A b \in 1 .. p.n : ttEntries[b].fresh /\ ttEntries[b].pending /\ b \notin p.inIsr =>
                 ttMain.pc = 5 /\ ttMain.at = b
<1>1. /\ ttMain.at <= p.n /\ ttMain.at \notin p.inIsr /\ ttMain.ran < p.budget
      /\ ttEntries[ttMain.at].pending
  BY DEF TtInv, TurnOfMain
<1>2. ttMain.at \in 1 .. p.n + 1 /\ ttMain.ran \in 0 .. p.budget
  BY MainIs DEF TtInv
<1>3. ttMain.at \in 1 .. p.n /\ ttMain.ran \in Nat
  BY <1>1, <1>2 DEF PlanNumbers
<1>4. \A b \in 1 .. p.n : OutputsOf(p, b)
  BY DEF TtInv, Outputs
<1>5. ttEntries[ttMain.at].phase \in {0, 1}
  BY <1>3 DEF TtInv, TtTypes
<1> QED BY <1>1, <1>3, <1>4, <1>5 DEF OutputsOf

LEMMA TtMainStep ==
    ASSUME NEW p, PlanNumbers(p), TtInv(p), NEW part \in {1, 2}, Schedule(p)!MainStep(part)
    PROVE  TtInv(p)' /\ (Timely(p) => Timely(p)')
<1>1. /\ isr = <<>> /\ ttMain.pc = part /\ ttMain' = [ttMain EXCEPT !.pc = part + 1]
      /\ Schedule(p)!Write(ttMain.at, part)
      /\ UNCHANGED <<tick, isr, snapshot, bus, input, news, miss, stale, ttSince, gap, overruns,
                     ttEntries>>
  BY DEF Schedule!MainStep, Schedule!MainGoes
<1>2. TtTypes(p)
  BY DEF TtInv
<1>3. PICK a \in 1 .. p.n : a = ttMain.at
  BY <1>1, InTurn
<1>4. /\ a \notin p.inIsr /\ ttMain.ran < p.budget /\ ttEntries[a].pending
      /\ ttEntries[a].phase \in {0, 1} /\ a <= p.n
      /\ \A b \in 1 .. p.n : ~(ttEntries[b].fresh /\ ttEntries[b].pending /\ b \notin p.inIsr)
      /\ part = 2 => Being(a)[1] = snapshot[a]
  BY <1>1, <1>3, InTurn DEF TtInv, TurnOfMain, PlanNumbers
<1>5. ttMain' = [pc |-> part + 1, at |-> a, ran |-> ttMain.ran]
      /\ ttMain.at \in 1 .. p.n + 1 /\ ttMain.ran \in 0 .. p.budget /\ part + 1 \in {2, 3}
  BY <1>1, <1>2, <1>3, MainIs
<1>6. /\ outbuf' \in [1 .. p.n -> [{0, 1} -> [{1, 2} -> Ages(p)]]]
      /\ \A b \in 1 .. p.n : b # a => outbuf'[b] = outbuf[b]
      /\ \A h \in {0, 1}, k \in {1, 2} :
            outbuf'[a][h][k] = IF h = ttEntries[a].phase /\ k = part THEN snapshot[a]
                               ELSE outbuf[a][h][k]
  BY <1>1, <1>2, <1>3, WriteIs
<1>7. TtTypes(p)'
  <2>1. ttMain' \in [pc : 0 .. 5 \cup {9}, at : 1 .. p.n + 1, ran : 0 .. p.budget]
    BY <1>3, <1>5
  <2> QED BY <1>1, <1>2, <1>6, <2>1 DEF TtTypes, Ages, TickFrames
<1>8. /\ Being(a)'[part] = snapshot[a]
      /\ \A k \in {1, 2} : /\ k # part => Being(a)'[k] = Being(a)[k]
                           /\ Whole(a)'[k] = Whole(a)[k]
  <2>1. 1 - ttEntries[a].phase \in {0, 1} /\ 1 - ttEntries[a].phase # ttEntries[a].phase
    BY <1>4
  <2> QED BY <1>1, <1>4, <1>6, <2>1 DEF Being, Whole
<1>9. TurnOfMain(p)'
  <2>1. /\ Being(a)'[1] = snapshot'[a]
        /\ part = 2 => Being(a)'[2] = snapshot'[a]
    BY <1>1, <1>4, <1>8
  <2>2. ttMain'.at = a /\ ttMain'.pc = part + 1 /\ ttMain'.ran = ttMain.ran
    BY <1>5
  <2>3. ttMain'.pc # 4 /\ (ttMain'.pc = 3 => part = 2)
    BY <2>2
  <2> QED BY <1>1, <1>4, <2>1, <2>2, <2>3 DEF TurnOfMain, Being
<1>10. Outputs(p)'
  <2> SUFFICES ASSUME NEW b \in 1 .. p.n PROVE OutputsOf(p, b)'
    BY DEF Outputs
  <2>1. OutputsOf(p, b)
    BY DEF TtInv, Outputs
  <2>2. Whole(b)'[1] = Whole(b)[1] /\ Whole(b)'[2] = Whole(b)[2]
    BY <1>1, <1>6, <1>8 DEF Whole
  <2> QED BY <1>1, <1>4, <2>1, <2>2 DEF OutputsOf
<1>11. \A b \in p.inIsr \cap 1 .. p.n : ttEntries'[b] = ttEntries[b] /\ outbuf'[b] = outbuf[b]
  BY <1>1, <1>4, <1>6
<1> QED BY <1>1, <1>7, <1>9, <1>10, <1>11, TtMainGoes DEF TtInv

LEMMA TtFlip ==
    ASSUME NEW p, PlanNumbers(p), TtInv(p), Schedule(p)!Flip
    PROVE  TtInv(p)' /\ (Timely(p) => Timely(p)')
<1>1. /\ isr = <<>> /\ ttMain.pc = 3 /\ ttMain' = [ttMain EXCEPT !.pc = 4]
      /\ ttEntries' = [ttEntries EXCEPT ![ttMain.at].phase = 1 - @]
      /\ UNCHANGED <<tick, isr, snapshot, bus, input, news, miss, stale, ttSince, gap, overruns,
                     outbuf>>
  BY DEF Schedule!Flip, Schedule!MainGoes
<1>2. TtTypes(p)
  BY DEF TtInv
<1>3. PICK a \in 1 .. p.n : a = ttMain.at
  BY <1>1, InTurn
<1>4. /\ a \notin p.inIsr /\ ttMain.ran < p.budget /\ ttEntries[a].pending
      /\ ttEntries[a].phase \in {0, 1} /\ a <= p.n
      /\ \A b \in 1 .. p.n : ~(ttEntries[b].fresh /\ ttEntries[b].pending /\ b \notin p.inIsr)
      /\ Being(a)[1] = snapshot[a] /\ Being(a)[2] = snapshot[a]
  BY <1>1, <1>3, InTurn DEF TtInv, TurnOfMain, PlanNumbers
<1>5. ttMain' = [pc |-> 4, at |-> a, ran |-> ttMain.ran]
      /\ ttMain.at \in 1 .. p.n + 1 /\ ttMain.ran \in 0 .. p.budget
  BY <1>1, <1>2, <1>3, MainIs
<1>6. /\ ttEntries' \in [1 .. p.n -> [phase : {0, 1}, running : BOOLEAN, pending : BOOLEAN,
                                      fresh : BOOLEAN]]
      /\ ttEntries'[a].phase = 1 - ttEntries[a].phase
      /\ ttEntries'[a].running = ttEntries[a].running
      /\ ttEntries'[a].fresh = ttEntries[a].fresh /\ ttEntries'[a].pending
      /\ \A b \in 1 .. p.n : b # a => ttEntries'[b] = ttEntries[b]
  <2>1. PICK r : r = [ttEntries[a] EXCEPT !.phase = 1 - @]
    OBVIOUS
  <2>2. /\ ttEntries \in [1 .. p.n -> [phase : {0, 1}, running : BOOLEAN, pending : BOOLEAN,
                                       fresh : BOOLEAN]]
        /\ ttEntries' = [ttEntries EXCEPT ![a] = r]
    BY <1>1, <1>2, <1>3, <2>1 DEF TtTypes
  <2>3. 1 - ttEntries[a].phase \in {0, 1}
    BY <1>4
  <2>4. /\ r \in [phase : {0, 1}, running : BOOLEAN, pending : BOOLEAN, fresh : BOOLEAN]
        /\ r.phase = 1 - ttEntries[a].phase /\ r.running = ttEntries[a].running
        /\ r.fresh = ttEntries[a].fresh /\ r.pending
    BY <1>4, <2>1, <2>2, <2>3
  <2> QED BY <2>2, <2>4
<1>7. TtTypes(p)'
  <2>1. ttMain' \in [pc : 0 .. 5 \cup {9}, at : 1 .. p.n + 1, ran : 0 .. p.budget]
    BY <1>3, <1>5
  <2> QED BY <1>1, <1>2, <1>6, <2>1 DEF TtTypes, Ages, TickFrames
<1>8. Whole(a)' = Being(a)
  <2>1. 1 - (1 - ttEntries[a].phase) = ttEntries[a].phase
    BY <1>4
  <2> QED BY <1>1, <1>6, <2>1 DEF Being, Whole
<1>9. TurnOfMain(p)'
  <2>1. Whole(a)'[1] = snapshot'[a]
    BY <1>1, <1>4, <1>8
  <2>2. ttMain'.at = a /\ ttMain'.pc = 4 /\ ttMain'.ran = ttMain.ran
    BY <1>5
  <2> QED BY <1>4, <1>6, <2>1, <2>2 DEF TurnOfMain, Whole
<1>10. Outputs(p)'
  <2> SUFFICES ASSUME NEW b \in 1 .. p.n PROVE OutputsOf(p, b)'
    BY DEF Outputs
  <2>1. OutputsOf(p, b)
    BY DEF TtInv, Outputs
  <2>2. CASE b # a
    <3>1. Whole(b)' = Whole(b) /\ ttEntries'[b] = ttEntries[b]
      BY <1>1, <1>6, <2>2 DEF Whole
    <3> QED BY <1>1, <1>4, <2>1, <3>1 DEF OutputsOf
  <2>3. CASE b = a
    BY <1>1, <1>4, <1>6, <1>8, <2>1, <2>3 DEF OutputsOf
  <2> QED BY <2>2, <2>3
<1>11. \A b \in p.inIsr \cap 1 .. p.n : ttEntries'[b] = ttEntries[b] /\ outbuf'[b] = outbuf[b]
  BY <1>1, <1>4, <1>6
<1> QED BY <1>1, <1>7, <1>9, <1>10, <1>11, TtMainGoes DEF TtInv

LEMMA TtSetFresh ==
    ASSUME NEW p, PlanNumbers(p), TtInv(p), Schedule(p)!SetFresh
    PROVE  TtInv(p)' /\ (Timely(p) => Timely(p)')
<1>1. /\ isr = <<>> /\ ttMain.pc = 4 /\ ttMain' = [ttMain EXCEPT !.pc = 5]
      /\ ttEntries' = [ttEntries EXCEPT ![ttMain.at].fresh = TRUE]
      /\ UNCHANGED <<tick, isr, snapshot, bus, input, news, miss, stale, ttSince, gap, overruns,
                     outbuf>>
  BY DEF Schedule!SetFresh, Schedule!MainGoes
<1>2. TtTypes(p)
  BY DEF TtInv
<1>3. PICK a \in 1 .. p.n : a = ttMain.at
  BY <1>1, InTurn
<1>4. /\ a \notin p.inIsr /\ ttMain.ran < p.budget /\ ttEntries[a].pending
      /\ a <= p.n /\ snapshot[a] = overruns[a]
      /\ \A b \in 1 .. p.n : ~(ttEntries[b].fresh /\ ttEntries[b].pending /\ b \notin p.inIsr)
      /\ Whole(a)[1] = snapshot[a]
  BY <1>1, <1>3, InTurn DEF TtInv, TurnOfMain, PlanNumbers
<1>5. ttMain' = [pc |-> 5, at |-> a, ran |-> ttMain.ran]
      /\ ttMain.at \in 1 .. p.n + 1 /\ ttMain.ran \in 0 .. p.budget
  BY <1>1, <1>2, <1>3, MainIs
<1>6. /\ ttEntries' \in [1 .. p.n -> [phase : {0, 1}, running : BOOLEAN, pending : BOOLEAN,
                                      fresh : BOOLEAN]]
      /\ ttEntries'[a].phase = ttEntries[a].phase
      /\ ttEntries'[a].running = ttEntries[a].running
      /\ ttEntries'[a].fresh /\ ttEntries'[a].pending
      /\ \A b \in 1 .. p.n : b # a => ttEntries'[b] = ttEntries[b]
  <2>1. PICK r : r = [ttEntries[a] EXCEPT !.fresh = TRUE]
    OBVIOUS
  <2>2. /\ ttEntries \in [1 .. p.n -> [phase : {0, 1}, running : BOOLEAN, pending : BOOLEAN,
                                       fresh : BOOLEAN]]
        /\ ttEntries' = [ttEntries EXCEPT ![a] = r]
    BY <1>1, <1>2, <1>3, <2>1 DEF TtTypes
  <2>3. /\ r \in [phase : {0, 1}, running : BOOLEAN, pending : BOOLEAN, fresh : BOOLEAN]
        /\ r.phase = ttEntries[a].phase /\ r.running = ttEntries[a].running
        /\ r.fresh /\ r.pending
    BY <1>4, <2>1, <2>2
  <2> QED BY <2>2, <2>3
<1>7. TtTypes(p)'
  <2>1. ttMain' \in [pc : 0 .. 5 \cup {9}, at : 1 .. p.n + 1, ran : 0 .. p.budget]
    BY <1>3, <1>5
  <2> QED BY <1>1, <1>2, <1>6, <2>1 DEF TtTypes, Ages, TickFrames
<1>8. ASSUME NEW b \in 1 .. p.n  PROVE Whole(b)' = Whole(b)
  <2>1. ttEntries'[b].phase = ttEntries[b].phase
    BY <1>6
  <2> QED BY <1>1, <2>1 DEF Whole
<1>9. TurnOfMain(p)'
  <2>1. ttMain'.at = a /\ ttMain'.pc = 5 /\ ttMain'.ran = ttMain.ran
    BY <1>5
  <2> QED BY <1>4, <1>6, <2>1 DEF TurnOfMain
<1>10. Outputs(p)'
  <2> SUFFICES ASSUME NEW b \in 1 .. p.n PROVE OutputsOf(p, b)'
    BY DEF Outputs
  <2>1. OutputsOf(p, b) /\ Whole(b)' = Whole(b)
    BY <1>8 DEF TtInv, Outputs
  <2>2. CASE b # a
    BY <1>1, <1>4, <1>6, <2>1, <2>2 DEF OutputsOf
  <2>3. CASE b = a
    <3>1. ttMain'.pc = 5 /\ ttMain'.at = a
      BY <1>5
    <3> QED BY <1>1, <1>4, <1>6, <2>1, <2>3, <3>1 DEF OutputsOf
  <2> QED BY <2>2, <2>3
<1>11. \A b \in p.inIsr \cap 1 .. p.n : ttEntries'[b] = ttEntries[b] /\ outbuf'[b] = outbuf[b]
  BY <1>1, <1>4, <1>6
<1> QED BY <1>1, <1>7, <1>9, <1>10, <1>11, TtMainGoes DEF TtInv

LEMMA TtFinish ==
    ASSUME NEW p, PlanNumbers(p), TtInv(p), Schedule(p)!Finish
    PROVE  TtInv(p)' /\ (Timely(p) => Timely(p)')
<1>1. /\ isr = <<>> /\ ttMain.pc = 5
      /\ ttMain' = [pc |-> 0, at |-> ttMain.at + 1, ran |-> ttMain.ran + 1]
      /\ ttEntries' = [ttEntries EXCEPT ![ttMain.at].pending = FALSE]
      /\ UNCHANGED <<tick, isr, snapshot, bus, input, news, miss, stale, ttSince, gap, overruns,
                     outbuf>>
  BY DEF Schedule!Finish, Schedule!AtEntry
<1>2. TtTypes(p) /\ p.n \in Nat /\ p.budget \in Nat
  BY DEF TtInv, PlanNumbers
<1>3. PICK a \in 1 .. p.n : a = ttMain.at
  BY <1>1, InTurn
<1>4. /\ a \notin p.inIsr /\ ttMain.ran < p.budget /\ ttMain.ran \in Nat
      /\ \A b \in 1 .. p.n : ttEntries[b].fresh /\ ttEntries[b].pending /\ b \notin p.inIsr =>
            b = a
  BY <1>1, <1>3, InTurn
<1>6. /\ ttEntries' \in [1 .. p.n -> [phase : {0, 1}, running : BOOLEAN, pending : BOOLEAN,
                                      fresh : BOOLEAN]]
      /\ ttEntries'[a].phase = ttEntries[a].phase
      /\ ttEntries'[a].running = ttEntries[a].running
      /\ ttEntries'[a].fresh = ttEntries[a].fresh /\ ~ttEntries'[a].pending
      /\ \A b \in 1 .. p.n : b # a => ttEntries'[b] = ttEntries[b]
  <2>1. PICK r : r = [ttEntries[a] EXCEPT !.pending = FALSE]
    OBVIOUS
  <2>2. /\ ttEntries \in [1 .. p.n -> [phase : {0, 1}, running : BOOLEAN, pending : BOOLEAN,
                                       fresh : BOOLEAN]]
        /\ ttEntries' = [ttEntries EXCEPT ![a] = r]
    BY <1>1, <1>2, <1>3, <2>1 DEF TtTypes
  <2>3. /\ r \in [phase : {0, 1}, running : BOOLEAN, pending : BOOLEAN, fresh : BOOLEAN]
        /\ r.phase = ttEntries[a].phase /\ r.running = ttEntries[a].running
        /\ r.fresh = ttEntries[a].fresh /\ ~r.pending
    BY <2>1, <2>2
  <2> QED BY <2>2, <2>3
<1>7. TtTypes(p)'
  <2>1. a + 1 \in 1 .. p.n + 1 /\ ttMain.ran + 1 \in 0 .. p.budget
    BY <1>2, <1>4
  <2>2. ttMain' \in [pc : 0 .. 5 \cup {9}, at : 1 .. p.n + 1, ran : 0 .. p.budget]
    BY <1>1, <1>3, <2>1
  <2> QED BY <1>1, <1>2, <1>6, <2>2 DEF TtTypes, Ages, TickFrames
<1>9. TurnOfMain(p)'
  BY <1>1 DEF TurnOfMain
<1>10. Outputs(p)'
  <2> SUFFICES ASSUME NEW b \in 1 .. p.n PROVE OutputsOf(p, b)'
    BY DEF Outputs
  <2>1. ttEntries'[b].phase = ttEntries[b].phase
    BY <1>6
  <2>2. OutputsOf(p, b) /\ Whole(b)' = Whole(b)
    BY <1>1, <2>1 DEF TtInv, Outputs, Whole
  <2>3. CASE b # a
    BY <1>1, <1>4, <1>6, <2>2, <2>3 DEF OutputsOf
  <2>4. CASE b = a
    BY <1>1, <1>4, <1>6, <2>2, <2>4 DEF OutputsOf
  <2> QED BY <2>3, <2>4
<1>11. \A b \in p.inIsr \cap 1 .. p.n : ttEntries'[b] = ttEntries[b] /\ outbuf'[b] = outbuf[b]
  BY <1>1, <1>4, <1>6
<1> QED BY <1>1, <1>7, <1>9, <1>10, <1>11, TtMainGoes DEF TtInv

\* The main loop publishes the input of all.
LEMMA TtInput ==
    ASSUME NEW p, PlanNumbers(p), TtInv(p), Schedule(p)!BeginInput \/ Schedule(p)!CommitInput
    PROVE  TtInv(p)' /\ (Timely(p) => Timely(p)')
<1>1. /\ UNCHANGED <<tick, isr, ttMain, ttEntries, snapshot, outbuf, bus, miss, stale, gap,
                     overruns>>
      /\ \/ input' = [input EXCEPT !.writing = TRUE] /\ news' = news /\ ttSince' = ttSince
         \/ /\ input' = [valid |-> TRUE, writing |-> FALSE]
            /\ news' = [a \in 1 .. p.n |-> TRUE] /\ ttSince' = [a \in 1 .. p.n |-> 0]
  BY DEF Schedule!BeginInput, Schedule!CommitInput, Schedule!Acts
<1>2. input \in [valid : BOOLEAN, writing : BOOLEAN]
      /\ news \in [1 .. p.n -> BOOLEAN] /\ ttSince \in [1 .. p.n -> Nat]
      /\ (\A a \in 1 .. p.n : ttSince[a] <= p.limit[a] + 1) /\ TtTypes(p)
  BY DEF TtInv, TtTypes
<1>3. /\ input' \in [valid : BOOLEAN, writing : BOOLEAN]
      /\ news' \in [1 .. p.n -> BOOLEAN] /\ ttSince' \in [1 .. p.n -> Nat]
      /\ \A a \in 1 .. p.n : ttSince'[a] <= p.limit[a] + 1
  <2>1. \A a \in 1 .. p.n : p.limit[a] \in Nat
    BY DEF PlanNumbers
  <2>2. CASE input' = [input EXCEPT !.writing = TRUE] /\ news' = news /\ ttSince' = ttSince
    BY <1>2, <2>2
  <2>3. CASE /\ input' = [valid |-> TRUE, writing |-> FALSE]
             /\ news' = [a \in 1 .. p.n |-> TRUE] /\ ttSince' = [a \in 1 .. p.n |-> 0]
    BY <2>1, <2>3
  <2> QED BY <1>1, <2>2, <2>3
<1>4. TtTypes(p)'
  BY <1>1, <1>2, <1>3 DEF TtTypes, Ages, TickFrames
<1>5. \A x : Being(x)' = Being(x) /\ Whole(x)' = Whole(x)
  BY <1>1 DEF Being, Whole
<1>6. TurnsOfTicks(p)' /\ TurnOfMain(p)' /\ Outputs(p)'
  <2>1. TurnsOfTicks(p)'
    BY <1>1 DEF TtInv, TurnsOfTicks, Being
  <2>2. TurnOfMain(p)'
    BY <1>1 DEF TtInv, TurnOfMain, Being, Whole
  <2>3. Outputs(p)'
    BY <1>1, <1>5 DEF TtInv, Outputs, OutputsOf
  <2> QED BY <2>1, <2>2, <2>3
<1>7. ASSUME Timely(p), NEW a \in 1 .. p.n
      PROVE  GapIs(p, a)' /\ MissesAre(p, a)' /\ RunsInTick(p, a)'
  <2>1. GapIs(p, a) /\ MissesAre(p, a) /\ RunsInTick(p, a)
    BY <1>7 DEF Timely
  <2>2. GapIs(p, a)'
    BY <1>1, <2>1 DEF GapIs, TicksSince, Passed
  <2>3. RunsInTick(p, a)'
    BY <1>1, <1>5, <2>1 DEF RunsInTick
  <2>4. MissesAre(p, a)'
    <3>1. CASE input' = [input EXCEPT !.writing = TRUE]
      <4>1. input'.writing
        BY <1>2, <3>1
      <4> QED BY <4>1 DEF MissesAre
    <3>2. CASE /\ news' = [b \in 1 .. p.n |-> TRUE] /\ ttSince' = [b \in 1 .. p.n |-> 0]
      <4>1. news'[a] /\ ttSince'[a] = 0
        BY <3>2
      <4> QED BY <4>1 DEF MissesAre
    <3> QED BY <1>1, <3>1, <3>2
  <2> QED BY <2>2, <2>3, <2>4
<1> QED BY <1>4, <1>6, <1>7 DEF TtInv, Timely

-----------------------------------------------------------------------------
LEMMA TtStep ==
    ASSUME NEW p, PlanNumbers(p), TtInv(p), Schedule(p)!Next
    PROVE  TtInv(p)' /\ (p.nest = 1 /\ Timely(p) => Timely(p)')
<1>1. CASE \E a \in 1 .. p.n :
              \/ Schedule(p)!NotNow(a) \/ Schedule(p)!IsrOverrun(a) \/ Schedule(p)!IsrBegin(a)
              \/ Schedule(p)!IsrPublish(a) \/ Schedule(p)!MainHit(a)
              \/ \E part \in {1, 2} : Schedule(p)!IsrStep(a, part)
  BY <1>1, TtNotNow, TtIsrOverrun, TtIsrBegin, TtIsrPublish, TtMainHit, TtIsrStep
<1>2. CASE Schedule(p)!Tick \/ Schedule(p)!TickEnds
  BY <1>2, TickComes, TtTickEnds
<1>3. CASE Schedule(p)!RunPending \/ Schedule(p)!MainLook \/ Schedule(p)!Flip
  BY <1>3, TtRunPending, TtMainLook, TtFlip
<1>4. CASE Schedule(p)!SetFresh \/ Schedule(p)!Finish \/ \E part \in {1, 2} : Schedule(p)!MainStep(part)
  BY <1>4, TtSetFresh, TtFinish, TtMainStep
<1>5. CASE Schedule(p)!BeginInput \/ Schedule(p)!CommitInput
  BY <1>5, TtInput
<1> QED
  BY <1>1, <1>2, <1>3, <1>4, <1>5 DEF Schedule!Next, Schedule!Acts, Schedule!OutParts

\* What is promised of a schedule that keeps them.
LEMMA TtFollows ==
    ASSUME NEW p, PlanNumbers(p), TtInv(p)
    PROVE  /\ Schedule(p)!TypeOK /\ Schedule(p)!WholeOutputs /\ Schedule(p)!NothingOverwritten
           /\ p.nest = 1 /\ Timely(p) => Schedule(p)!EveryIsKept
<1>1. TtTypes(p)
  BY DEF TtInv
<1>2. Schedule(p)!TypeOK
  <2>1. \A a \in 1 .. p.n : miss[a] \in 0 .. p.limit[a] + 1
    <3> SUFFICES ASSUME NEW a \in 1 .. p.n PROVE miss[a] \in 0 .. p.limit[a] + 1
      OBVIOUS
    <3>1. miss[a] \in Nat /\ miss[a] <= p.limit[a] + 1 /\ p.limit[a] \in Nat
      BY <1>1 DEF TtTypes, PlanNumbers
    <3> QED BY <3>1
  <2>2. ttMain.ran \in 0 .. p.budget
    BY <1>1, MainIs
  <2>3. /\ tick \in 0 .. p.frames - 1 /\ Len(isr) <= p.nest
        /\ ttEntries \in [1 .. p.n -> [phase : {0, 1}, running : BOOLEAN, pending : BOOLEAN,
                                      fresh : BOOLEAN]]
        /\ snapshot \in [1 .. p.n -> 0 .. p.oldest]
        /\ outbuf \in [1 .. p.n -> [{0, 1} -> [{1, 2} -> 0 .. p.oldest]]]
        /\ bus \in [1 .. p.n -> [{1, 2} -> 0 .. p.oldest]]
    BY <1>1 DEF TtTypes, Ages
  <2> QED BY <2>1, <2>2, <2>3 DEF Schedule!TypeOK, Schedule!Acts, Schedule!OutParts
<1>3. Schedule(p)!WholeOutputs
  BY DEF TtInv, Outputs, OutputsOf, Schedule!WholeOutputs, Schedule!Acts
<1>4. Schedule(p)!NothingOverwritten
  <2> SUFFICES ASSUME ttMain.pc \in 1 .. 4
               PROVE  ~ttEntries[ttMain.at].fresh /\ ttEntries[ttMain.at].pending
    BY DEF Schedule!NothingOverwritten
  <2>1. ttMain.pc \in 1 .. 5 /\ ttMain.pc # 5
    OBVIOUS
  <2> QED BY <2>1, InTurn
<1>5. ASSUME p.nest = 1, Timely(p)  PROVE Schedule(p)!EveryIsKept
  <2> SUFFICES ASSUME NEW a \in 1 .. p.n, Schedule(p)!Looking(a)
               PROVE  tick % p.every[a] = p.at[a] <=> gap[a] = p.every[a]
    BY DEF Schedule!EveryIsKept, Schedule!Acts, Schedule!Hit
  <2>1. /\ isr # <<>> /\ isr[Len(isr)].at = a /\ isr[Len(isr)].pc = 0
    BY <1>1, LookingIs
  <2>2. Len(isr) = 1
    BY <1>1, <1>5, <2>1, Alone
  <2>3. ~Passed(a)
    <3>1. isr[1].at = a /\ isr[1].pc = 0
      BY <2>1, <2>2
    <3>2. ~(a > a)
      BY DEF PlanNumbers
    <3> QED BY <3>1, <3>2 DEF Passed
  <2>4. gap[a] = TicksSince(p, a) + 1
    BY <1>5, <2>1, <2>3 DEF Timely, GapIs
  <2>5. PICK e \in Nat \ {0}, o \in Nat : e = p.every[a] /\ o = p.at[a] /\ o < e
    BY DEF PlanNumbers
  <2>6. tick \in Nat
    BY <1>1 DEF TtTypes
  <2>7. tick % e \in 0 .. e - 1
    BY <2>5, <2>6, NextTurn
  <2>8. PICK r \in 0 .. e - 1 : r = tick % e
    BY <2>7
  <2>9. gap[a] = (IF r > o THEN r - o - 1 ELSE r + e - o - 1) + 1
    BY <2>4, <2>5, <2>8 DEF TicksSince
  <2>10. gap[a] = e <=> r = o
    BY <2>5, <2>8, <2>9
  <2> QED BY <2>5, <2>8, <2>10
<1> QED BY <1>2, <1>3, <1>4, <1>5

\* What a step does to the entry of an activity.
LEMMA TtLate ==
    ASSUME NEW p, PlanNumbers(p), TtInv(p), p.nest = 1, Timely(p), Schedule(p)!Next,
           NEW a \in 1 .. p.n
    PROVE  Schedule(p)!LateIsCounted(a)
<1>1. ttEntries \in [1 .. p.n -> [phase : {0, 1}, running : BOOLEAN, pending : BOOLEAN,
                                  fresh : BOOLEAN]]
  BY DEF TtInv, TtTypes
<1>2. SUFFICES ASSUME \/ a \in p.inIsr /\ ttEntries[a].running /\ ~ttEntries'[a].running
                      \/ ttEntries[a].fresh /\ ~ttEntries'[a].fresh
               PROVE  Schedule(p)!LateIsCounted(a)
  BY DEF Schedule!LateIsCounted
<1>3. CASE \E b \in 1 .. p.n : Schedule(p)!IsrPublish(b)
  <2>1. PICK b \in 1 .. p.n : Schedule(p)!IsrPublish(b)
    BY <1>3
  <2>2. bus'[b][1] \in {1, p.oldest}
    BY <2>1, TtIsrPublish
  <2>3. ttEntries' = [ttEntries EXCEPT ![b].phase = 1 - @, ![b].running = FALSE]
    BY <2>1 DEF Schedule!IsrPublish
  <2>4. ttEntries'[a].fresh = ttEntries[a].fresh /\ (a # b => ttEntries'[a] = ttEntries[a])
    BY <1>1, <2>3
  <2> QED BY <1>2, <2>2, <2>4 DEF Schedule!LateIsCounted
<1>4. CASE \E b \in 1 .. p.n : Schedule(p)!MainHit(b)
  <2>1. PICK b \in 1 .. p.n : Schedule(p)!MainHit(b)
    BY <1>4
  <2>2. ttEntries[b].fresh => bus'[b][1] = Schedule(p)!Older(overruns[b])
    BY <2>1, TtMainHit
  <2>3. ttEntries' = [ttEntries EXCEPT ![b].fresh = FALSE, ![b].pending = TRUE]
    BY <2>1 DEF Schedule!MainHit
  <2>4. ttEntries'[a].running = ttEntries[a].running /\ (a # b => ttEntries'[a] = ttEntries[a])
    BY <1>1, <2>3
  <2> QED BY <1>2, <2>2, <2>4 DEF Schedule!LateIsCounted
<1>5. CASE \E b \in 1 .. p.n : Schedule(p)!IsrBegin(b)
  <2>1. PICK b \in 1 .. p.n : ttEntries' = [ttEntries EXCEPT ![b].running = TRUE]
    BY <1>5 DEF Schedule!IsrBegin
  <2> QED BY <1>1, <1>2, <2>1
<1>6. CASE UNCHANGED ttEntries
  BY <1>2, <1>6
<1>7. CASE Schedule(p)!Flip \/ Schedule(p)!SetFresh \/ Schedule(p)!Finish
  <2>1. ttMain.pc \in 1 .. 5
    BY <1>7 DEF Schedule!Flip, Schedule!SetFresh, Schedule!Finish
  <2>2. PICK b \in 1 .. p.n : b = ttMain.at
    BY <2>1, InTurn
  <2>3. \/ ttEntries' = [ttEntries EXCEPT ![b].phase = 1 - @]
        \/ ttEntries' = [ttEntries EXCEPT ![b].fresh = TRUE]
        \/ ttEntries' = [ttEntries EXCEPT ![b].pending = FALSE]
    BY <1>7, <2>2 DEF Schedule!Flip, Schedule!SetFresh, Schedule!Finish
  <2> QED BY <1>1, <1>2, <2>3
<1>8. \/ \E b \in 1 .. p.n : Schedule(p)!IsrPublish(b) \/ Schedule(p)!MainHit(b)
                             \/ Schedule(p)!IsrBegin(b)
      \/ UNCHANGED ttEntries \/ Schedule(p)!Flip \/ Schedule(p)!SetFresh \/ Schedule(p)!Finish
  BY DEF Schedule!Next, Schedule!Acts, Schedule!Tick, Schedule!TickEnds, Schedule!NotNow,
     Schedule!IsrOverrun, Schedule!IsrStep, Schedule!RunPending, Schedule!MainLook,
     Schedule!MainStep, Schedule!BeginInput, Schedule!CommitInput
<1> QED BY <1>3, <1>4, <1>5, <1>6, <1>7, <1>8

\* What it does to the inputs of an activity.
LEMMA TtStale ==
    ASSUME NEW p, PlanNumbers(p), TtInv(p), p.nest = 1, Timely(p), Schedule(p)!Next,
           NEW a \in 1 .. p.n
    PROVE  Schedule(p)!StaleIsRight(a)
<1>1. TtTypes(p)
  BY DEF TtInv
<1>2. /\ ttSince[a] \in Nat /\ ttSince[a] <= p.limit[a] + 1 /\ p.limit[a] \in Nat
      /\ miss[a] \in Nat /\ news[a] \in BOOLEAN /\ MissesAre(p, a)
      /\ ttSince \in [1 .. p.n -> Nat]
  BY <1>1 DEF TtTypes, PlanNumbers, Timely
<1>3. SUFFICES ASSUME ttSince'[a] # ttSince[a], ttSince'[a] # 0, overruns'[a] = 0
               PROVE  LET IsOld == ~(input.valid /\ ~input.writing)
                                   \/ (p.limit[a] # 0 /\ ttSince[a] > p.limit[a])
                      IN  (stale'[a] => IsOld) /\ (a \in p.inIsr /\ IsOld => stale'[a])
  BY DEF Schedule!StaleIsRight, Schedule!CanRead
<1>4. PICK b \in 1 .. p.n : \/ Schedule(p)!IsrOverrun(b) \/ Schedule(p)!IsrBegin(b)
                            \/ Schedule(p)!MainHit(b)
  <2>1. CASE ttSince' = ttSince
    BY <1>3, <2>1
  <2>2. CASE Schedule(p)!CommitInput
    <3>1. ttSince' = [x \in 1 .. p.n |-> 0]
      BY <2>2 DEF Schedule!CommitInput, Schedule!Acts
    <3> QED BY <1>3, <3>1
  <2>3. \/ ttSince' = ttSince \/ Schedule(p)!CommitInput
        \/ \E b \in 1 .. p.n : Schedule(p)!IsrOverrun(b) \/ Schedule(p)!IsrBegin(b)
                               \/ Schedule(p)!MainHit(b)
    BY DEF Schedule!Next, Schedule!Acts, Schedule!Tick, Schedule!TickEnds, Schedule!NotNow,
       Schedule!IsrPublish, Schedule!IsrStep, Schedule!RunPending, Schedule!MainLook,
       Schedule!MainStep, Schedule!BeginInput, Schedule!Flip, Schedule!SetFresh,
       Schedule!Finish, Schedule!MainGoes
  <2> QED BY <2>1, <2>2, <2>3
<1>5. ~Schedule(p)!IsrOverrun(b)
  BY TtIsrOverrun
<1>6. PICK f \in BOOLEAN : /\ Schedule(p)!Ages(b, f)
                           /\ Schedule(p)!Freeze(b) \/ Schedule(p)!Overrun(b)
  <2>1. CASE Schedule(p)!IsrBegin(b)
    BY <2>1 DEF Schedule!IsrBegin
  <2>2. CASE Schedule(p)!MainHit(b)
    <3>1. ttEntries[b].pending \in BOOLEAN
      BY <1>1 DEF TtTypes
    <3>2. /\ Schedule(p)!Ages(b, ~ttEntries[b].pending)
          /\ Schedule(p)!Freeze(b) \/ Schedule(p)!Overrun(b)
      BY <2>2 DEF Schedule!MainHit, Schedule!StillPending
    <3> QED BY <3>1, <3>2
  <2> QED BY <1>4, <1>5, <2>1, <2>2
<1>7. b = a
  <2>1. \A c \in 1 .. p.n : c # b => ttSince'[c] = ttSince[c]
    BY <1>1, <1>6, AgesIs
  <2> QED BY <1>3, <2>1
<1>8. Schedule(p)!Freeze(a)
  <2>1. ASSUME Schedule(p)!Overrun(a)  PROVE FALSE
    <3>1. overruns'[a] = Schedule(p)!Older(overruns[a])
      BY <1>1, <2>1, OverrunIs
    <3>2. overruns[a] \in 0 .. p.oldest
      BY <1>1 DEF TtTypes, Ages
    <3>3. Schedule(p)!Older(overruns[a]) > 0
      BY <3>2, OlderIs
    <3> QED BY <1>3, <3>1, <3>3
  <2> QED BY <1>6, <1>7, <2>1
<1>9. /\ input.valid /\ ~input.writing =>
           miss'[a] = IF news[a] THEN 0 ELSE IF miss[a] < p.limit[a] + 1 THEN miss[a] + 1
                                             ELSE p.limit[a] + 1
      /\ stale'[a] <=> \/ ~(input.valid /\ ~input.writing)
                       \/ p.limit[a] # 0 /\ miss'[a] > p.limit[a]
  BY <1>1, <1>8, FreezeIs
<1>10. CASE ~(input.valid /\ ~input.writing)
  BY <1>9, <1>10
<1>11. CASE input.valid /\ ~input.writing
  <2>1. CASE news[a]
    <3>1. miss'[a] = 0 /\ (a \in p.inIsr => ttSince[a] = 0)
      BY <1>2, <1>9, <1>11, <2>1 DEF MissesAre
    <3> QED BY <1>2, <1>9, <1>11, <3>1
  <2>2. CASE ~news[a]
    <3>1. PICK m \in Nat : m = IF miss[a] < p.limit[a] + 1 THEN miss[a] + 1 ELSE p.limit[a] + 1
      BY <1>2
    <3>2. miss'[a] = m /\ m <= ttSince[a] /\ (a \in p.inIsr => m = ttSince[a])
      BY <1>2, <1>9, <1>11, <2>2, <3>1 DEF MissesAre
    <3> QED BY <1>2, <1>9, <1>11, <3>1, <3>2
  <2> QED BY <2>1, <2>2
<1> QED BY <1>10, <1>11

-----------------------------------------------------------------------------
(* The ticker.                                                                 *)

\* One period less.
LEMMA PeriodLess ==
    ASSUME NEW t \in Nat, NEW m \in Nat \ {0}
    PROVE  /\ t \div m \in Nat /\ t \div m <= t
           /\ t < m => t \div m = 0
           /\ t >= m => (t - m) \div m = (t \div m) - 1
<1>1. \A y \in Int : /\ y = m * (y \div m) + (y % m)
                     /\ y \div m \in Int /\ y % m \in 0 .. m - 1
  OBVIOUS
<1>2. PICK q \in Int, r \in 0 .. m - 1 : t = m * q + r /\ q = t \div m
  BY <1>1
<1>3. PICK u \in Int, s \in 0 .. m - 1 : t - m = m * u + s /\ u = (t - m) \div m
  BY <1>1
<1>4. m * (-1) = -m /\ m * 1 = m /\ m * 0 = 0
  OBVIOUS
<1>5. q >= 0
  <2>1. q <= -1 => m * q <= m * (-1)
    BY <1>2
  <2> QED BY <1>2, <1>4, <2>1
<1>6. q <= t
  <2>1. m * q >= q
    BY <1>2, <1>5
  <2> QED BY <1>2, <2>1
<1>7. ASSUME t < m  PROVE q = 0
  <2>1. q >= 1 => m * q >= m * 1
    BY <1>2
  <2> QED BY <1>2, <1>4, <1>5, <1>7, <2>1
<1>8. u = q - 1
  <2>1. PICK d \in Int : d = q - u
    BY <1>2, <1>3
  <2>2. m * (q - u) = m * q - m * u
    BY <1>2, <1>3
  <2>3. m * d = m + s - r
    <3>1. m * q \in Int /\ m * u \in Int
      BY <1>2, <1>3
    <3> QED BY <1>2, <1>3, <2>1, <2>2, <3>1
  <2>4. d >= 2 => m * d >= m * 2
    BY <2>1
  <2>5. d <= 0 => m * d <= 0
    BY <2>1
  <2>6. d = 1
    BY <2>1, <2>3, <2>4, <2>5
  <2> QED BY <1>2, <1>3, <2>1, <2>6
<1> QED BY <1>2, <1>3, <1>5, <1>6, <1>7, <1>8

\* What is due when the poll comes to a slot, and after one period or all are accounted for.
LEMMA PeriodsAre ==
    ASSUME Slots!TickerAssumption, NEW s \in TickerSlots, NEW t \in Int
    PROVE  /\ Slots!PeriodsIn(t, s) \in Nat /\ SlotPeriod[s] \in Nat \ {0}
           /\ t < 0 => Slots!PeriodsIn(t, s) = 0
           /\ t >= 0 => /\ Slots!PeriodsIn(t, s) = 1 + (t \div SlotPeriod[s])
                        /\ t \div SlotPeriod[s] \in Nat /\ Slots!PeriodsIn(t, s) <= t + 1
                        /\ Slots!PeriodsIn(t - SlotPeriod[s], s) = Slots!PeriodsIn(t, s) - 1
<1>1. SlotPeriod[s] \in Nat \ {0}
  BY DEF Slots!TickerAssumption
<1>2. CASE t < 0
  BY <1>1, <1>2 DEF Slots!PeriodsIn
<1>3. CASE t >= 0
  <2>1. PICK m \in Nat \ {0} : m = SlotPeriod[s]
    BY <1>1
  <2>2. PICK q \in Nat : /\ q = t \div m /\ q <= t /\ (t < m => q = 0)
                         /\ t >= m => (t - m) \div m = q - 1
    BY <1>3, <2>1, PeriodLess
  <2>3. Slots!PeriodsIn(t, s) = 1 + q
    BY <1>3, <2>1, <2>2 DEF Slots!PeriodsIn
  <2>4. Slots!PeriodsIn(t - m, s) = q
    <3>1. CASE t < m
      <4>1. t - m < 0
        BY <2>1, <3>1
      <4> QED BY <2>2, <3>1, <4>1 DEF Slots!PeriodsIn
    <3>2. CASE t >= m
      <4>1. ~(t - m < 0) /\ (t - m) \div m = q - 1
        BY <2>1, <2>2, <3>2
      <4> QED BY <2>1, <2>2, <4>1 DEF Slots!PeriodsIn
    <3> QED BY <2>1, <3>1, <3>2
  <2> QED BY <1>1, <1>3, <2>1, <2>2, <2>3, <2>4
<1> QED BY <1>2, <1>3

\* A poll accounts for what was due when it came to the slot: what it has not done yet is
\* due still, and it drops nothing before a refusal or its limit.
TickerInv ==
    /\ past \in [TickerSlots -> Int] /\ now \in Nat /\ slotAt \in TickerSlots \cup {0}
    /\ queued \in 0 .. Room /\ catchup \in 0 .. MaxCatchup /\ refused \in BOOLEAN
    /\ owed \in 0 .. MaxLate + 1 /\ done \in Nat /\ counted \in Nat
    /\ \A s \in TickerSlots : past[s] <= MaxLate /\ past[s] - now >= -SlotPeriod[s]
    /\ counted <= done
    /\ counted = 0 => done = catchup /\ ~refused
    /\ counted > 0 => refused \/ owed > MaxCatchup
    /\ IF slotAt = 0 THEN now = 0 /\ owed = 0 /\ done = 0 /\ counted = 0
       ELSE owed = done + Slots!PeriodsIn(past[slotAt] - now, slotAt)

LEMMA TickerStarts ==
    ASSUME Slots!TickerAssumption, Slots!Init  PROVE TickerInv
<1>1. /\ \A s \in TickerSlots : SlotPeriod[s] \in Nat \ {0}
      /\ MaxCatchup \in Nat /\ Room \in Nat /\ MaxLate \in Nat
  BY DEF Slots!TickerAssumption
<1>2. /\ past = [s \in TickerSlots |-> -SlotPeriod[s]] /\ slotAt = 0 /\ now = 0 /\ queued = 0
      /\ catchup = 0 /\ refused = FALSE /\ owed = 0 /\ done = 0 /\ counted = 0
  BY DEF Slots!Init
<1>3. past \in [TickerSlots -> Int]
      /\ \A s \in TickerSlots : past[s] <= MaxLate /\ past[s] - now >= -SlotPeriod[s]
  <2>1. \A s \in TickerSlots : past[s] = -SlotPeriod[s] /\ -SlotPeriod[s] \in Int
    BY <1>1, <1>2
  <2> QED BY <1>1, <1>2, <2>1
<1>4. /\ 0 \in 0 .. Room /\ 0 \in 0 .. MaxCatchup /\ 0 \in 0 .. MaxLate + 1 /\ 0 \in Nat
      /\ FALSE \in BOOLEAN /\ 0 <= 0 /\ ~(0 > 0)
  BY <1>1
<1> QED BY <1>2, <1>3, <1>4 DEF TickerInv

\* The poll comes to a slot.
LEMMA PollComes ==
    ASSUME Slots!TickerAssumption, TickerInv, NEW s \in TickerSlots, NEW t \in Int,
           Slots!ComesTo(s, t), UNCHANGED <<past, queued>>, now' \in Nat,
           t = past[s] - now', \A x \in TickerSlots : past[x] - now' >= -SlotPeriod[x]
    PROVE  TickerInv'
<1>1. /\ slotAt' = s /\ catchup' = 0 /\ refused' = FALSE /\ done' = 0 /\ counted' = 0
      /\ owed' = Slots!PeriodsIn(t, s) /\ s # 0 /\ MaxCatchup \in Nat /\ MaxLate \in Nat
  BY DEF Slots!ComesTo, Slots!TickerAssumption
<1>2. past \in [TickerSlots -> Int] /\ \A x \in TickerSlots : past[x] <= MaxLate
  BY DEF TickerInv
<1>3. t <= MaxLate
  BY <1>1, <1>2
<1>4. owed' \in 0 .. MaxLate + 1
  <2>1. /\ Slots!PeriodsIn(t, s) \in Nat
        /\ t < 0 => Slots!PeriodsIn(t, s) = 0
        /\ t >= 0 => Slots!PeriodsIn(t, s) <= t + 1
    BY PeriodsAre
  <2>2. PICK k \in Nat : k = Slots!PeriodsIn(t, s)
    BY <2>1
  <2> QED BY <1>1, <1>3, <2>1, <2>2
<1>5. owed' = done' + Slots!PeriodsIn(past[s] - now', s)
  BY <1>1, <1>4
<1>6. Slots!PeriodsIn(past[slotAt] - now, slotAt)' = Slots!PeriodsIn(past[s] - now', s)
  BY <1>1 DEF Slots!PeriodsIn
<1>7. /\ 0 \in 0 .. MaxCatchup /\ 0 \in Nat /\ FALSE \in BOOLEAN /\ 0 <= 0 /\ ~(0 > 0)
      /\ queued' \in 0 .. Room /\ past' = past /\ s \in TickerSlots \cup {0}
  BY <1>1 DEF TickerInv
<1> QED BY <1>1, <1>2, <1>4, <1>5, <1>6, <1>7 DEF TickerInv

LEMMA TickerStep ==
    ASSUME Slots!TickerAssumption, TickerInv, Slots!Next  PROVE TickerInv'
<1>1. /\ MaxCatchup \in Nat /\ Room \in Nat /\ MaxLate \in Nat
      /\ \A s \in TickerSlots : SlotPeriod[s] \in Nat \ {0} /\ s \in Nat \ {0}
      /\ 1 \in TickerSlots
  BY DEF Slots!TickerAssumption
<1>2. /\ past \in [TickerSlots -> Int] /\ now \in Nat /\ slotAt \in TickerSlots \cup {0}
      /\ \A s \in TickerSlots : past[s] <= MaxLate /\ past[s] - now >= -SlotPeriod[s]
  BY DEF TickerInv
<1>3. CASE Slots!Tick
  <2>1. /\ past' = [s \in TickerSlots |-> past[s] + 1]
        /\ now' = (IF slotAt = 0 THEN 0 ELSE now + 1)
        /\ UNCHANGED <<slotAt, queued, catchup, refused, owed, done, counted>>
        /\ \A s \in TickerSlots : past[s] < MaxLate
    BY <1>3 DEF Slots!Tick, Slots!turn
  <2>2. /\ past' \in [TickerSlots -> Int] /\ now' \in Nat
        /\ \A s \in TickerSlots : past'[s] = past[s] + 1 /\ past'[s] <= MaxLate
    BY <1>1, <1>2, <2>1
  <2>3. \A s \in TickerSlots : past'[s] - now' >= -SlotPeriod[s]
    <3> SUFFICES ASSUME NEW s \in TickerSlots PROVE past'[s] - now' >= -SlotPeriod[s]
      OBVIOUS
    <3>1. past[s] \in Int /\ SlotPeriod[s] \in Nat /\ past[s] - now >= -SlotPeriod[s]
      BY <1>1, <1>2
    <3>2. now' <= now + 1
      BY <1>2, <2>1
    <3> QED BY <1>2, <2>2, <3>1, <3>2
  <2>4. IF slotAt = 0 THEN now' = 0
        ELSE Slots!PeriodsIn(past[slotAt] - now, slotAt)' = Slots!PeriodsIn(past[slotAt] - now, slotAt)
    <3>1. CASE slotAt = 0
      BY <2>1, <3>1
    <3>2. CASE slotAt # 0
      <4>1. past[slotAt] \in Int /\ past'[slotAt] = past[slotAt] + 1 /\ now' = now + 1
        BY <1>2, <2>1, <2>2, <3>2
      <4>2. past'[slotAt] - now' = past[slotAt] - now
        BY <1>2, <4>1
      <4> QED BY <2>1, <3>2, <4>2
    <3> QED BY <3>1, <3>2
  <2> QED BY <2>1, <2>2, <2>3, <2>4 DEF TickerInv
<1>4. CASE Slots!Take \/ Slots!Other
  <2>1. /\ UNCHANGED <<past, slotAt, now, catchup, refused, owed, done, counted>>
        /\ \/ queued > 0 /\ queued' = queued - 1
           \/ queued < Room /\ queued' = queued + 1
    BY <1>4 DEF Slots!Take, Slots!Other, Slots!turn
  <2>2. queued' \in 0 .. Room
    BY <1>1, <2>1 DEF TickerInv
  <2>3. Slots!PeriodsIn(past[slotAt] - now, slotAt)' = Slots!PeriodsIn(past[slotAt] - now, slotAt)
    BY <2>1
  <2> QED BY <2>1, <2>2, <2>3 DEF TickerInv
<1>5. CASE Slots!Poll
  <2>1. /\ slotAt = 0 /\ Slots!ComesTo(1, past[1]) /\ now' = 0 /\ UNCHANGED <<past, queued>>
    BY <1>5 DEF Slots!Poll
  <2>2. /\ past[1] \in Int /\ past[1] = past[1] - now'
        /\ \A x \in TickerSlots : past[x] - now' >= -SlotPeriod[x]
    BY <1>1, <1>2, <2>1 DEF TickerInv
  <2> QED BY <1>1, <2>1, <2>2, PollComes
<1>6. CASE Slots!NextSlot
  <2>1. slotAt \in TickerSlots /\ slotAt # 0
    BY <1>2, <1>6 DEF Slots!NextSlot
  <2>2. CASE slotAt + 1 \in TickerSlots
    <3>1. /\ Slots!ComesTo(slotAt + 1, past[slotAt + 1] - now) /\ now' = now
          /\ UNCHANGED <<past, queued>>
      BY <1>6, <2>2 DEF Slots!NextSlot
    <3>2. PICK s \in TickerSlots : s = slotAt + 1
      BY <2>2
    <3>3. past[s] - now \in Int
      BY <1>2
    <3> QED BY <1>2, <3>1, <3>2, <3>3, PollComes
  <2>3. CASE slotAt + 1 \notin TickerSlots
    <3>1. /\ slotAt' = 0 /\ catchup' = 0 /\ refused' = FALSE /\ done' = 0 /\ counted' = 0
          /\ owed' = 0 /\ now' = 0 /\ UNCHANGED <<past, queued>>
      BY <1>6, <2>3 DEF Slots!NextSlot, Slots!ComesTo
    <3>2. \A s \in TickerSlots : past[s] - 0 >= -SlotPeriod[s]
      <4> SUFFICES ASSUME NEW s \in TickerSlots PROVE past[s] - 0 >= -SlotPeriod[s]
        OBVIOUS
      <4>1. past[s] \in Int /\ SlotPeriod[s] \in Nat /\ past[s] - now >= -SlotPeriod[s]
        BY <1>1, <1>2
      <4> QED BY <1>2, <4>1
    <3>3. 0 \in 0 .. MaxCatchup /\ 0 \in 0 .. MaxLate + 1
      BY <1>1
    <3>4. /\ 0 \in Nat /\ FALSE \in BOOLEAN /\ 0 <= 0 /\ ~(0 > 0) /\ 0 \in TickerSlots \cup {0}
          /\ queued' \in 0 .. Room /\ past' = past
      BY <3>1 DEF TickerInv
    <3> QED BY <1>2, <3>1, <3>2, <3>3, <3>4 DEF TickerInv
  <2> QED BY <2>2, <2>3
<1>7. CASE Slots!Publish \/ Slots!Drop
  <2>1. /\ slotAt # 0 /\ past[slotAt] - now >= 0 /\ catchup < MaxCatchup /\ ~refused
        /\ past' = [past EXCEPT ![slotAt] = @ - SlotPeriod[slotAt]]
        /\ done' = done + 1 /\ UNCHANGED <<slotAt, now, owed>>
        /\ \/ /\ queued < Room /\ queued' = queued + 1 /\ catchup' = catchup + 1
              /\ refused' = refused /\ counted' = counted
           \/ /\ queued' = queued /\ catchup' = catchup
              /\ refused' = TRUE /\ counted' = counted + 1
    BY <1>7 DEF Slots!Publish, Slots!Drop, Slots!MayPublish, Slots!Behind, Slots!Due,
       Slots!NextPeriod
  <2>2. PICK s \in TickerSlots : s = slotAt
    BY <1>2, <2>1
  <2>3. past[s] \in Int /\ SlotPeriod[s] \in Nat \ {0} /\ past[s] <= MaxLate
    BY <1>1, <1>2
  <2>4. /\ past' \in [TickerSlots -> Int] /\ past'[s] = past[s] - SlotPeriod[s]
        /\ \A x \in TickerSlots : x # s => past'[x] = past[x]
    BY <1>2, <2>1, <2>2, <2>3
  <2>5. \A x \in TickerSlots : past'[x] <= MaxLate /\ past'[x] - now >= -SlotPeriod[x]
    <3>1. past'[s] <= MaxLate /\ past'[s] - now >= -SlotPeriod[s]
      BY <1>1, <1>2, <2>1, <2>2, <2>3, <2>4
    <3> QED BY <1>2, <2>4, <3>1
  <2>6. PICK t \in Int : t = past[s] - now /\ t >= 0
    BY <1>2, <2>1, <2>2, <2>3
  <2>7. past'[s] - now = t - SlotPeriod[s]
    BY <1>2, <2>3, <2>4, <2>6
  <2>8. /\ Slots!PeriodsIn(t, s) \in Nat
        /\ Slots!PeriodsIn(t - SlotPeriod[s], s) = Slots!PeriodsIn(t, s) - 1
    BY <2>6, PeriodsAre
  <2>9. owed = done + Slots!PeriodsIn(t, s) /\ done \in Nat /\ counted \in Nat /\ counted <= done
        /\ catchup \in 0 .. MaxCatchup /\ queued \in 0 .. Room
        /\ (counted = 0 => done = catchup) /\ (counted > 0 => refused \/ owed > MaxCatchup)
    BY <2>1, <2>2, <2>6 DEF TickerInv
  <2>10. owed = done' + Slots!PeriodsIn(t - SlotPeriod[s], s)
    BY <2>1, <2>8, <2>9
  <2>11. Slots!PeriodsIn(past[slotAt] - now, slotAt)' = Slots!PeriodsIn(t - SlotPeriod[s], s)
    BY <2>1, <2>2, <2>7 DEF Slots!PeriodsIn
  <2>12. /\ queued' \in 0 .. Room /\ catchup' \in 0 .. MaxCatchup /\ refused' \in BOOLEAN
         /\ done' \in Nat /\ counted' \in Nat /\ counted' <= done'
         /\ (counted' = 0 => done' = catchup' /\ ~refused')
         /\ (counted' > 0 => refused' \/ owed > MaxCatchup)
    <3>1. CASE /\ queued < Room /\ queued' = queued + 1 /\ catchup' = catchup + 1
               /\ refused' = refused /\ counted' = counted
      <4>1. queued' \in 0 .. Room /\ catchup' \in 0 .. MaxCatchup
        BY <1>1, <2>1, <2>9, <3>1
      <4>2. refused' \in BOOLEAN /\ ~refused'
        BY <2>1, <3>1 DEF TickerInv
      <4>3. done' \in Nat /\ counted' \in Nat /\ counted' <= done'
            /\ (counted' = 0 => done' = catchup')
        BY <2>1, <2>9, <3>1
      <4> QED BY <2>9, <3>1, <4>1, <4>2, <4>3
    <3>2. CASE /\ queued' = queued /\ catchup' = catchup
               /\ refused' = TRUE /\ counted' = counted + 1
      <4>1. done' \in Nat /\ counted' \in Nat /\ counted' <= done' /\ counted' # 0
        BY <2>1, <2>9, <3>2
      <4> QED BY <2>9, <3>2, <4>1
    <3> QED BY <2>1, <3>1, <3>2
  <2>13. /\ now \in Nat /\ slotAt \in TickerSlots \cup {0} /\ owed \in 0 .. MaxLate + 1
    BY DEF TickerInv
  <2> QED BY <2>1, <2>4, <2>5, <2>10, <2>11, <2>12, <2>13 DEF TickerInv
<1>8. CASE Slots!Skip
  <2>1. /\ slotAt # 0 /\ past[slotAt] - now >= 0 /\ ~(catchup < MaxCatchup /\ ~refused)
        /\ past' = [past EXCEPT ![slotAt] = now - SlotPeriod[slotAt]]
        /\ done' = done + (1 + (past[slotAt] - now) \div SlotPeriod[slotAt])
        /\ counted' = counted + (1 + (past[slotAt] - now) \div SlotPeriod[slotAt])
        /\ UNCHANGED <<slotAt, now, queued, catchup, refused, owed>>
    BY <1>8 DEF Slots!Skip, Slots!MayPublish, Slots!Behind, Slots!Due, Slots!Skipped
  <2>2. PICK s \in TickerSlots : s = slotAt
    BY <1>2, <2>1
  <2>3. past[s] \in Int /\ SlotPeriod[s] \in Nat \ {0} /\ past[s] <= MaxLate
        /\ past[s] - now >= -SlotPeriod[s]
    BY <1>1, <1>2
  <2>4. /\ past' \in [TickerSlots -> Int] /\ past'[s] = now - SlotPeriod[s]
        /\ \A x \in TickerSlots : x # s => past'[x] = past[x]
    BY <1>2, <2>1, <2>2, <2>3
  <2>5. \A x \in TickerSlots : past'[x] <= MaxLate /\ past'[x] - now >= -SlotPeriod[x]
    <3>1. past'[s] <= MaxLate /\ past'[s] - now >= -SlotPeriod[s]
      BY <1>1, <1>2, <2>3, <2>4
    <3> QED BY <1>2, <2>4, <3>1
  <2>6. PICK t \in Int : t = past[s] - now /\ t >= 0
    BY <1>2, <2>1, <2>2, <2>3
  <2>7. PICK q \in Nat : q = t \div SlotPeriod[s] /\ Slots!PeriodsIn(t, s) = 1 + q
    BY <2>6, PeriodsAre
  <2>8. done' = done + (1 + q) /\ counted' = counted + (1 + q)
    BY <2>1, <2>2, <2>6, <2>7
  <2>9. owed = done + (1 + q) /\ done \in Nat /\ counted \in Nat /\ counted <= done
        /\ catchup \in 0 .. MaxCatchup /\ refused \in BOOLEAN
        /\ (counted = 0 => done = catchup) /\ (counted > 0 => refused \/ owed > MaxCatchup)
    BY <2>1, <2>2, <2>6, <2>7 DEF TickerInv
  <2>10. -SlotPeriod[s] < 0 /\ past'[s] - now = -SlotPeriod[s]
    BY <1>2, <2>3, <2>4
  <2>11. Slots!PeriodsIn(past[slotAt] - now, slotAt)' = 0
    BY <2>1, <2>2, <2>10 DEF Slots!PeriodsIn
  <2>12. /\ done' \in Nat /\ counted' \in Nat /\ counted' <= done' /\ counted' # 0
         /\ owed = done' + 0 /\ (refused \/ owed > MaxCatchup)
    <3>1. CASE counted = 0
      <4>1. refused \/ catchup >= MaxCatchup
        BY <1>1, <2>1, <2>9
      <4>2. owed = done' /\ owed > done /\ done = catchup
        BY <2>8, <2>9, <3>1
      <4>3. refused \/ owed > MaxCatchup
        BY <1>1, <2>9, <4>1, <4>2
      <4> QED BY <2>8, <2>9, <4>3
    <3>2. CASE counted # 0
      <4>1. counted > 0
        BY <2>9, <3>2
      <4> QED BY <2>8, <2>9, <4>1
    <3> QED BY <3>1, <3>2
  <2>13. /\ now \in Nat /\ slotAt \in TickerSlots \cup {0} /\ owed \in 0 .. MaxLate + 1
         /\ queued \in 0 .. Room /\ catchup \in 0 .. MaxCatchup /\ refused \in BOOLEAN
    BY DEF TickerInv
  <2> QED BY <2>1, <2>4, <2>5, <2>11, <2>12, <2>13 DEF TickerInv
<1> QED BY <1>3, <1>4, <1>5, <1>6, <1>7, <1>8 DEF Slots!Next

LEMMA TickerFollows ==
    ASSUME Slots!TickerAssumption, TickerInv
    PROVE  Slots!TypeOK /\ Slots!EveryPeriodOnce
<1>1. /\ MaxLate \in Nat /\ \A s \in TickerSlots : SlotPeriod[s] \in Nat \ {0}
      /\ \A s \in TickerSlots : s # 0
  BY DEF Slots!TickerAssumption
<1>2. /\ past \in [TickerSlots -> Int] /\ now \in Nat /\ slotAt \in TickerSlots \cup {0}
      /\ \A s \in TickerSlots : past[s] <= MaxLate /\ past[s] - now >= -SlotPeriod[s]
  BY DEF TickerInv
<1>3. PICK k \in Nat : owed = done + k /\ (slotAt # 0 /\ past[slotAt] - now < 0 => k = 0)
  <2>1. CASE slotAt = 0
    BY <2>1 DEF TickerInv
  <2>2. CASE slotAt # 0
    <3>1. PICK s \in TickerSlots : s = slotAt
      BY <1>2, <2>2
    <3>2. PICK t \in Int : t = past[s] - now
      BY <1>2
    <3>3. Slots!PeriodsIn(t, s) \in Nat /\ (t < 0 => Slots!PeriodsIn(t, s) = 0)
      BY PeriodsAre
    <3> QED BY <2>2, <3>1, <3>2, <3>3 DEF TickerInv
  <2> QED BY <2>1, <2>2
<1>4. /\ owed \in 0 .. MaxLate + 1 /\ done \in Nat /\ counted \in Nat /\ counted <= done
      /\ counted > 0 => refused \/ owed > MaxCatchup
  BY DEF TickerInv
<1>5. Slots!EveryPeriodOnce
  BY <1>3, <1>4 DEF Slots!EveryPeriodOnce, Slots!Due
<1>6. Slots!TypeOK
  <2>1. {owed, done, counted} \subseteq 0 .. MaxLate + 1
    BY <1>1, <1>3, <1>4
  <2>2. \A s \in TickerSlots :
           past[s] \in -SlotPeriod[s] .. MaxLate /\ now \in 0 .. MaxLate + SlotPeriod[s]
    <3> SUFFICES ASSUME NEW s \in TickerSlots
                 PROVE  past[s] \in -SlotPeriod[s] .. MaxLate /\ now \in 0 .. MaxLate + SlotPeriod[s]
      OBVIOUS
    <3>1. past[s] \in Int /\ SlotPeriod[s] \in Nat /\ past[s] <= MaxLate
          /\ past[s] - now >= -SlotPeriod[s]
      BY <1>1, <1>2
    <3> QED BY <1>1, <1>2, <3>1
  <2>3. slotAt \in TickerSlots \cup {0} /\ queued \in 0 .. Room /\ catchup \in 0 .. MaxCatchup
        /\ refused \in BOOLEAN
    BY DEF TickerInv
  <2> QED BY <2>1, <2>2, <2>3 DEF Slots!TypeOK
<1> QED BY <1>5, <1>6

-----------------------------------------------------------------------------
(* The two together, as MCControl composes them.                               *)

\* One of them moves at a time, in its own topic.
LEMMA WhichRun ==
    ASSUME [ControlNext]_allVars
    PROVE  /\ topic' = topic
           /\ \/ topic = "schedule" /\ Schedule(Plan)!Next
              \/ topic = "long_ticks" /\ Schedule(LongPlan)!Next
              \/ UNCHANGED scheduleVars
           /\ (topic = "ticker" /\ Slots!Next) \/ UNCHANGED tickerVars
BY DEF ControlNext, RunNext, PlanNext, DeviceNext, ComponentNext, allVars, runVars, planVars,
       deviceVars, componentVars

\* The schedule of the topic: only "long_ticks" has ticks that are preempted.
PeriodsHold ==
    /\ IF topic = "long_ticks" THEN TtInv(LongPlan) ELSE TtInv(Plan) /\ Timely(Plan)
    /\ TickerInv

LEMMA PlansAre ==
    /\ \A p \in {Plan, LongPlan} : PlanNumbers(p)
    /\ Plan.nest = 1 /\ Slots!TickerAssumption
BY ControlAssumption, PlanFacts

LEMMA PeriodsStart ==
    ASSUME ControlInit  PROVE PeriodsHold
<1>1. TickerInv
  BY PlansAre, TickerStarts DEF ControlInit
<1>2. CASE topic = "long_ticks"
  <2>1. Schedule(LongPlan)!Init
    BY <1>2 DEF ControlInit
  <2> QED BY <1>1, <1>2, <2>1, PlansAre, TtStarts DEF PeriodsHold
<1>3. CASE topic # "long_ticks"
  <2>1. Schedule(Plan)!Init
    BY <1>3 DEF ControlInit
  <2> QED BY <1>1, <1>3, <2>1, PlansAre, TtStarts DEF PeriodsHold
<1> QED BY <1>2, <1>3

\* A schedule that rests keeps its invariant.
LEMMA TtStays ==
    ASSUME NEW p, UNCHANGED scheduleVars
    PROVE  (TtInv(p) => TtInv(p)') /\ (Timely(p) => Timely(p)')
<1>1. UNCHANGED <<tick, isr, ttMain, ttEntries, snapshot, outbuf, bus, input, news, miss,
                  stale, ttSince, gap, overruns>>
  BY DEF scheduleVars
<1>2. TtInv(p) => TtInv(p)'
  BY <1>1 DEF TtInv, TtTypes, Ages, TickFrames, TurnsOfTicks, TurnOfMain, Outputs, OutputsOf,
     Being, Whole
<1>3. Timely(p) => Timely(p)'
  BY <1>1 DEF Timely, GapIs, Passed, TicksSince, MissesAre, RunsInTick, Whole
<1> QED BY <1>2, <1>3

LEMMA PeriodsGoOn ==
    ASSUME PeriodsHold, [ControlNext]_allVars  PROVE PeriodsHold'
<1>1. topic' = topic
  BY WhichRun
<1>2. TickerInv'
  <2>1. CASE Slots!Next
    BY <2>1, PlansAre, TickerStep DEF PeriodsHold
  <2>2. CASE UNCHANGED tickerVars
    BY <2>2 DEF tickerVars, PeriodsHold, TickerInv, Slots!PeriodsIn
  <2> QED BY <2>1, <2>2, WhichRun
<1>3. CASE topic = "long_ticks"
  <2>1. TtInv(LongPlan)
    BY <1>3 DEF PeriodsHold
  <2>2. TtInv(LongPlan)'
    <3>1. CASE Schedule(LongPlan)!Next
      BY <2>1, <3>1, PlansAre, TtStep
    <3>2. CASE UNCHANGED scheduleVars
      BY <2>1, <3>2, TtStays
    <3> QED BY <1>3, <3>1, <3>2, WhichRun
  <2> QED BY <1>1, <1>2, <1>3, <2>2 DEF PeriodsHold
<1>4. CASE topic # "long_ticks"
  <2>1. TtInv(Plan) /\ Timely(Plan)
    BY <1>4 DEF PeriodsHold
  <2>2. TtInv(Plan)' /\ Timely(Plan)'
    <3>1. CASE Schedule(Plan)!Next
      BY <2>1, <3>1, PlansAre, TtStep
    <3>2. CASE UNCHANGED scheduleVars
      BY <2>1, <3>2, TtStays
    <3> QED BY <1>4, <3>1, <3>2, WhichRun
  <2> QED BY <1>1, <1>2, <1>4, <2>2 DEF PeriodsHold
<1> QED BY <1>3, <1>4

(* For every table of activities that was accepted: outputs are whole and of    *)
(* an earlier activation, none that waits is overwritten, and where no tick     *)
(* lasts too long every activity keeps its period, its outputs are as late as   *)
(* overruns are counted, and its inputs are called stale when they are.  For    *)
(* all slots the ticker accounts for every period, once (bm_tt_schedule.c:      *)
(* 145-165, 244-274, 519, 648-726; bm_ticker.c:194-235).                        *)
THEOREM PeriodsKept == ControlSpec => PeriodsAreKept
<1> DEFINE InTime ==
             /\ topic = "long_ticks" =>
                   Schedule(LongPlan)!WholeOutputs /\ Schedule(LongPlan)!NothingOverwritten
             /\ topic = "schedule" =>
                   /\ Schedule(Plan)!WholeOutputs /\ Schedule(Plan)!NothingOverwritten
                   /\ Schedule(Plan)!EveryIsKept
             /\ Slots!EveryPeriodOnce
           StepsInTime ==
             topic = "schedule" =>
               \A a \in 1 .. Plan.n :
                   Schedule(Plan)!LateIsCounted(a) /\ Schedule(Plan)!StaleIsRight(a)
<1>1. PeriodsHold => InTime
  <2> SUFFICES ASSUME PeriodsHold  PROVE InTime
    OBVIOUS
  <2>1. Slots!EveryPeriodOnce
    BY PlansAre, TickerFollows DEF PeriodsHold
  <2>2. ASSUME topic = "long_ticks"
        PROVE  Schedule(LongPlan)!WholeOutputs /\ Schedule(LongPlan)!NothingOverwritten
    BY <2>2, PlansAre, TtFollows DEF PeriodsHold
  <2>3. ASSUME topic = "schedule"
        PROVE  /\ Schedule(Plan)!WholeOutputs /\ Schedule(Plan)!NothingOverwritten
               /\ Schedule(Plan)!EveryIsKept
    BY <2>3, PlansAre, TtFollows DEF PeriodsHold
  <2> QED BY <2>1, <2>2, <2>3
<1>2. PeriodsHold /\ [ControlNext]_allVars => [StepsInTime]_allVars
  <2> SUFFICES ASSUME PeriodsHold, [ControlNext]_allVars, topic = "schedule",
                      NEW a \in 1 .. Plan.n
               PROVE  Schedule(Plan)!LateIsCounted(a) /\ Schedule(Plan)!StaleIsRight(a)
    OBVIOUS
  <2>1. TtInv(Plan) /\ Timely(Plan) /\ PlanNumbers(Plan) /\ Plan.nest = 1
    BY PlansAre DEF PeriodsHold
  <2>2. CASE Schedule(Plan)!Next
    BY <2>1, <2>2, TtLate, TtStale
  <2>3. CASE UNCHANGED scheduleVars
    BY <2>3 DEF scheduleVars, Schedule!LateIsCounted, Schedule!StaleIsRight
  <2> QED BY <2>2, <2>3, WhichRun
<1>3. ControlSpec => []InTime /\ [][StepsInTime]_allVars
  <2> HIDE DEF InTime, StepsInTime
  <2> QED BY <1>1, <1>2, PeriodsStart, PeriodsGoOn, PTL DEF ControlSpec
<1> QED BY <1>3 DEF PeriodsAreKept
================================================================================
