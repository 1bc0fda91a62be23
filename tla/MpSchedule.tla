------------------------------ MODULE MpSchedule ------------------------------
(* The slots of one CPU as bm_mp_schedule.c keeps and admits them: a table that *)
(* is filled, rolled back and checked by a response-time analysis; and the CPU  *)
(* that then runs an admitted table (external: preemption by deadline order,    *)
(* sporadic releases), so that what the analysis promises can be watched.       *)
EXTENDS Naturals, Sequences, FiniteSetsExt, Functions

CONSTANTS
    Offered,  \* slots the application registers: [wcet, cost, period, deadline, blocking];
              \*   cost is what the stream and the relay add to the wcet
    Overhead, \* the slot of the main loop, which the build of the profile adds
    MaxSlots, \* BM_CONFIG_MP_SCHEDULE_MAX_SLOTS
    MaxIter   \* BM_CONFIG_MP_RTA_MAX_ITERATIONS

\* The slot of the main loop is told from those the application registers.
ScheduleAssumption ==
    MaxSlots \in Nat \ {0} /\ MaxIter \in Nat \ {0} /\ Overhead \notin Offered

VARIABLES
    table, \* s_slots
    built, \* s_profile_built
    sinceRelease, left, age, \* the run: what is left of the job of each slot, its age,
    holder, held             \*   the slot that runs and how long it has held up others

runVars == <<sinceRelease, left, age, holder, held>>
vars == <<table, built, runVars>>

Slots == DOMAIN table

Init ==
    /\ table = <<>> /\ built = FALSE
    /\ sinceRelease = <<>> /\ left = <<>> /\ age = <<>>
    /\ holder = 0 /\ held = 0

-----------------------------------------------------------------------------
(* The analysis.                                                               *)
Execution(s) == s.wcet + s.cost

\* Slot j of t preempts slot i: an earlier deadline, then an earlier place.
Above(t, j, i) ==
    /\ j # i /\ t[j].period # 0
    /\ \/ t[j].deadline < t[i].deadline
       \/ t[j].deadline = t[i].deadline /\ j < i

CeilDiv(a, b) == (a + b - 1) \div b
OneJob(r, s) == 1
Jobs(r, s) == CeilDiv(r, s.period)

Unblocked(t, i, r) ==
    Execution(t[i])
    + MapThenSumSet(LAMBDA j : Jobs(r, t[j]) * Execution(t[j]),
                    {j \in DOMAIN t : Above(t, j, i)})
\* One round: the slot's own time and the jobs above it within the previous bound r.
Round(t, i, r) ==
    Execution(t[i]) + t[i].blocking
    + MapThenSumSet(LAMBDA j : Jobs(r, t[j]) * Execution(t[j]),
                    {j \in DOMAIN t : Above(t, j, i)})

TooLong(t, i, r) == r > t[i].deadline
Bounds(t, i) ==
    LET Start == Execution(t[i]) + t[i].blocking
        R[n \in 0 .. MaxIter] ==
            IF n = 0 THEN Start
            ELSE IF TooLong(t, i, R[n - 1]) THEN R[n - 1] ELSE Round(t, i, R[n - 1])
    IN  R

\* sched_rta_response_us: the fixed point, unless it is past the deadline or not reached.
Converges(t, i) ==
    LET R == Bounds(t, i)
    IN  \E n \in 1 .. MaxIter : R[n] = R[n - 1] /\ ~TooLong(t, i, R[n])

SlotOk(s) ==
    /\ s.deadline # 0 /\ s.period # 0 /\ s.wcet # 0
    /\ s.wcet <= s.deadline

Million == 1000000
Utilisation(t) ==
    MapThenSumSet(LAMBDA i : CeilDiv(Execution(t[i]) * Million, t[i].period), DOMAIN t)

Admitted(t) ==
    /\ \A i \in DOMAIN t : SlotOk(t[i]) /\ Converges(t, i)
    /\ Utilisation(t) <= Million

KeepAll(t) == t
\* bm_mp_schedule_restore to the mark the build took.
Restore(t) == SubSeq(t, 1, Len(table))

-----------------------------------------------------------------------------
(* Filling the table and building the profile.                                 *)
Register(s) ==
    /\ ~built /\ Len(table) < MaxSlots
    /\ table' = Append(table, s)
    /\ UNCHANGED <<built, runVars>>

\* bm_mp_profile_build: the slot of the main loop is added, and taken away on a refusal.
Build ==
    /\ ~built
    /\ LET t == Append(table, Overhead)
       IN  IF Len(table) < MaxSlots /\ Admitted(t)
           THEN /\ table' = t /\ built' = TRUE
                /\ sinceRelease' = [i \in DOMAIN t |-> t[i].period]
                /\ left' = [i \in DOMAIN t |-> 0]
                /\ age' = left'
                /\ UNCHANGED <<holder, held>>
           ELSE table' = Restore(t) /\ UNCHANGED <<built, runVars>>

-----------------------------------------------------------------------------
(* The run: in one unit of time any slot whose period is over may be released; *)
(* then the job of the highest slot runs, or the one that ran before goes on,  *)
(* for no longer than the blocking time of every slot above it.                *)
Pending(l) == {i \in Slots : l[i] > 0}
MayHold(i) == i = holder /\ \A j \in Slots : Above(table, j, i) => held < table[j].blocking

Run(i, ready) ==
    LET over == {j \in Pending(ready) : Above(table, j, i)}
    IN  /\ i \in Pending(ready)
        /\ over # {} => MayHold(i)
        /\ left' = [ready EXCEPT ![i] = @ - 1]
        /\ holder' = IF ready[i] = 1 THEN 0 ELSE i
        /\ held' = IF over = {} \/ ready[i] = 1 THEN 0 ELSE held + 1

Unit ==
    /\ built
    /\ \E new \in SUBSET {i \in Slots : sinceRelease[i] >= table[i].period /\ left[i] = 0} :
         LET ready == [i \in Slots |-> IF i \in new THEN Execution(table[i]) ELSE left[i]]
         IN  /\ \/ \E i \in Slots : Run(i, ready)
                \/ Pending(ready) = {} /\ UNCHANGED <<left, holder, held>>
             /\ sinceRelease' =
                    [i \in Slots |-> IF i \in new THEN 1
                                     ELSE IF sinceRelease[i] < table[i].period
                                     THEN sinceRelease[i] + 1 ELSE sinceRelease[i]]
             /\ age' = [i \in Slots |-> IF left'[i] = 0 THEN 0
                                        ELSE IF i \in new THEN 1 ELSE age[i] + 1]
    /\ UNCHANGED <<table, built>>

Next == (\E s \in Offered : Register(s)) \/ Build \/ Unit

Spec == Init /\ [][Next]_vars

-----------------------------------------------------------------------------
(* No job of an admitted table whose deadlines lie within the periods is late, *)
(* however the jobs are released and lower slots block higher ones: no job is  *)
(* unfinished when its deadline comes (bm_mp_schedule.c:109-169, 179-256).     *)
NoneIsLate ==
    built /\ (\A i \in Slots : table[i].deadline <= table[i].period) =>
        \A i \in Slots : left[i] > 0 => age[i] < table[i].deadline

(* A refused build leaves the table as the application filled it, and only a   *)
(* built one holds the slot of the main loop (bm_mp_profile.c:107, 194-196).   *)
OverheadOnlyBuilt ==
    (\E i \in Slots : table[i] = Overhead) => built
===============================================================================
