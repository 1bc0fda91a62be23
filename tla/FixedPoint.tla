----------------------------- MODULE FixedPoint -----------------------------
(* The fixed-point loops of bm_algo_fixed.c: regulators with back-calculation, *)
(* limiters of a rate, filters of first order, windows over the last samples   *)
(* and a trapezoidal profile.  A number is an integer of F fraction bits, from *)
(* -(2^F) to 2^F - 1; F is 31 and 15 in the code, and few here.  A behaviour   *)
(* is one loop with one setting, called with one sample after the other; the   *)
(* caller may change the window or the target between two calls, and reset the *)
(* loop.                                                                       *)
EXTENDS Integers, Sequences, FiniteSets

CONSTANTS
    F,            \* fraction bits: the numbers are fractions of 2^F
    Settings,     \* the loops and what they are configured with: records
    MaxRecent     \* bound of the model: the samples remembered

VARIABLES
    setting,      \* config
    mem,          \* state
    recent,       \* the samples since the last reset, newest first
    steady        \* how many of them came with the window as it is now
vars == <<setting, mem, recent, steady>>

One == 2 ^ F
Highest == One - 1
Lowest == -One
Numbers == Lowest .. Highest

FixedPointAssumption ==
    /\ F \in Nat \ {0} /\ MaxRecent \in Nat \ {0}
    /\ \A s \in Settings : s.inputs \subseteq Numbers
-----------------------------------------------------------------------------
Abs(v) == IF v < 0 THEN -v ELSE v
Clamp(v, low, high) == IF v < low THEN low ELSE IF v > high THEN high ELSE v
Sat(v) == Clamp(v, Lowest, Highest)

\* Shifting to the right rounds down, also below 0.
Wide(a, b) == (a * b) \div One
Mul(a, b) == Sat(Wide(a, b))

\* The quotient of magnitudes, so it rounds towards 0; out of range it saturates.
Quot(num, den) ==
    LET negative == (num < 0) # (den < 0)
        scaled == (Abs(num) * One) \div Abs(den)
    IN  IF den = 0 THEN 0
        ELSE IF Abs(num) >= Abs(den) THEN IF negative THEN Lowest ELSE Highest
        ELSE IF negative THEN -scaled ELSE scaled
-----------------------------------------------------------------------------
Regulators == {"pi", "pid", "pid15", "pid2"}
Limiters == {"rate", "ramp"}
Filters == {"lpf", "envelope"}
Windows == {"avg", "rms", "median"}

\* The 16-bit build keeps the product as it is until it has been added.
Integral(i) == IF setting.algo = "pid15" THEN Wide(setting.ki, i) ELSE Mul(setting.ki, i)

\* Mutant: the derivative is left out of what is taken back.
ForgetsDerivative(i, p, d) ==
    LET s == setting
        sum == Sat(p + Integral(i) + d)
        out == Clamp(sum, s.min, s.max)
        back == Clamp(Quot(out - p, s.ki), s.imin, s.imax)
    IN  [output |-> out, integrator |-> IF s.ki # 0 /\ out # sum THEN back ELSE i]

\* Back-calculation: a sum outside the limits of the output is taken back out of the
\* integrator.  The sum is saturated before it is compared with them.
Limited(i, p, d) ==
    LET s == setting
        sum == Sat(p + Integral(i) + d)
        out == Clamp(sum, s.min, s.max)
        back == Clamp(Quot(out - p - d, s.ki), s.imin, s.imax)
    IN  [output |-> out, integrator |-> IF s.ki # 0 /\ out # sum THEN back ELSE i]

Integrated(error) ==
    Clamp(Sat(mem.integrator + Mul(error, setting.dt)), setting.imin, setting.imax)

PiStep(error) ==
    LET r == Limited(Integrated(error), Mul(setting.kp, error), 0)
    IN  [mem EXCEPT !.integrator = r.integrator, !.output = r.output]

\* The change of the measured value or of the error, through a filter of first order.
Alpha == Clamp(setting.alpha, 0, Highest)
Differentiated(raw) == Sat(mem.d + Mul(Alpha, Sat(raw - mem.d)))

PidStep(error) ==
    LET d == Differentiated(Quot(error - mem.prev, setting.dt))
        r == Limited(Integrated(error), Mul(setting.kp, error), Mul(setting.kd, d))
    IN  [integrator |-> r.integrator, output |-> r.output, prev |-> error, d |-> d]

\* The same with the wider intermediate results of the 16-bit build.
Pid15Step(error) ==
    LET i == Clamp(Sat(mem.integrator + Wide(error, setting.dt)),
                   setting.imin, setting.imax)
        d == Sat(mem.d + Wide(Alpha, Quot(error - mem.prev, setting.dt) - mem.d))
        r == Limited(i, Wide(setting.kp, error), Wide(setting.kd, d))
    IN  [integrator |-> r.integrator, output |-> r.output, prev |-> error, d |-> d]

\* Two degrees of freedom: the reference is weighted, the measurement differentiated.
Weighted(measured) == Sat(Mul(setting.b, setting.ref) - measured)
Pid2Step(measured) ==
    LET raw == Sat(-Quot(measured - mem.prev, setting.dt))
        d == Differentiated(raw)
        r == Limited(Integrated(Sat(setting.ref - measured)),
                     Mul(setting.kp, Weighted(measured)), Mul(setting.kd, d))
    IN  [integrator |-> r.integrator, output |-> r.output, prev |-> measured, d |-> d]
-----------------------------------------------------------------------------
\* Towards the target by a step at most; whether it was reached.
Limit(target, distance, up, down) ==
    CASE distance > up -> [output |-> Sat(mem.output + up), done |-> FALSE]
      [] distance < -down -> [output |-> Sat(mem.output - down), done |-> FALSE]
      [] OTHER -> [output |-> target, done |-> TRUE]

Upward == Mul(setting.up, setting.dt)
Downward == Mul(setting.down, setting.dt)

RateStep(target) == Limit(target, target - mem.output, Upward, Downward)
\* Mutant: the distance wraps where it does not fit.
WrapsDistance(target) ==
    Limit(target, ((target - mem.output + One) % (2 * One)) - One, Upward, Upward)

RampStep(target) == Limit(target, Sat(target - mem.output), Upward, Upward)

LpfStep(in) ==
    [mem EXCEPT !.output = Sat(@ + Wide(in - @, setting.alpha))]

\* The magnitude of the lowest number does not fit.
Magnitude(v) == IF v = Lowest THEN Highest ELSE Abs(v)
EnvelopeStep(in) ==
    [mem EXCEPT !.output = Sat(@ + Wide(Alpha, Magnitude(in) - @))]

\* The sum is cut where its product with alpha would not fit into the wide integer.
WideHighest == 2 * One * One - 1
\* Mutant: the sum is cut to a number.
CutToNumber(in) ==
    [prev |-> in,
     output |-> Sat(Wide(Sat(mem.output + in - mem.prev), setting.alpha))]

HpfStep(in) ==
    LET sum == mem.output + in - mem.prev
        limit == WideHighest \div Abs(setting.alpha)
        cut == IF setting.alpha = 0 THEN sum ELSE Clamp(sum, -limit, limit)
    IN  [prev |-> in, output |-> Sat(Wide(cut, setting.alpha))]
-----------------------------------------------------------------------------
\* Mutant: only the cursor is brought into the window.
CursorOnly == [mem EXCEPT !.index = IF @ >= setting.win THEN 0 ELSE @]

\* A window that became smaller since the last call.
Fitted ==
    [mem EXCEPT !.index = IF @ >= setting.win THEN 0 ELSE @,
                !.count = IF @ > setting.win THEN setting.win ELSE @]

\* At the cursor, which goes round.
Entered(in) ==
    LET m == Fitted
    IN  [m EXCEPT !.samples[m.index] = in, !.index = (@ + 1) % setting.win,
                  !.count = IF @ < setting.win THEN @ + 1 ELSE @]

Trunc(num, den) == IF num < 0 THEN -((-num) \div den) ELSE num \div den
Add(f, n) == LET sum[k \in 0 .. n] == IF k = 0 THEN 0 ELSE sum[k - 1] + f[k - 1] IN sum[n]

AvgStep(in) ==
    LET m == Entered(in)
    IN  [m EXCEPT !.output = Sat(Trunc(Add(m.samples, m.count), m.count))]

\* Behind the last one while the window fills, then at a cursor of its own.
RmsEntered(in) ==
    LET m == Fitted
    IN  IF m.count < setting.win
        THEN [m EXCEPT !.samples[m.count] = in, !.count = @ + 1]
        ELSE [m EXCEPT !.samples[m.index] = in,
                       !.index = IF @ + 1 >= setting.win THEN 0 ELSE @ + 1]

MeanRoot(squares, n) ==
    CHOOSE r \in 0 .. One : r * r * n <= squares /\ (r + 1) * (r + 1) * n > squares
RmsStep(in) ==
    LET m == RmsEntered(in)
        squares == [k \in DOMAIN m.samples |-> m.samples[k] * m.samples[k]]
    IN  [m EXCEPT !.output = Sat(MeanRoot(Add(squares, m.count), m.count))]

\* Of an even number the upper of the two in the middle.  Only odd windows of three
\* or more are taken; with another the sample goes through.
Median(f, n) ==
    CHOOSE v \in {f[k] : k \in 0 .. n - 1} :
        /\ Cardinality({k \in 0 .. n - 1 : f[k] < v}) <= n \div 2
        /\ Cardinality({k \in 0 .. n - 1 : f[k] <= v}) > n \div 2
MedianStep(in) ==
    LET m == Entered(in)
    IN  IF setting.win < 3 \/ setting.win % 2 = 0 THEN [mem EXCEPT !.output = in]
        ELSE [m EXCEPT !.output = Median(m.samples, m.count)]
-----------------------------------------------------------------------------
AccelStep == Mul(setting.accel, setting.dt)
DecelStep == Mul(setting.decel, setting.dt)

\* The way it takes to come to rest.
StopDistance ==
    Sat((Wide(mem.velocity, mem.velocity) * One) \div (2 * setting.decel))

\* Faster towards the target until it must be slowed down for; never past maxVel, and
\* never through 0 while slowing down.  side is 1 if the target lies ahead, else -1.
Hurried(side) ==
    LET along == side * mem.velocity
    IN  IF side * (mem.target - mem.position) > StopDistance \/ along < 0
        THEN side * Clamp(Sat(along + AccelStep), Lowest, setting.maxVel)
        ELSE side * Clamp(Sat(along - DecelStep), 0, Highest)

\* Mutant: it stops at the target with the speed it has.
KeepsSpeed(v) ==
    LET position == Sat(mem.position + Mul(v, setting.dt))
    IN  IF Abs(mem.target - position) <= AccelStep
        THEN [mem EXCEPT !.position = mem.target, !.velocity = v, !.done = TRUE]
        ELSE [mem EXCEPT !.position = position, !.velocity = v]

\* With less than a step to go, and not under way to it, it is there.
Moved(v) ==
    LET position == Sat(mem.position + Mul(v, setting.dt))
        left == mem.target - position
        there == \/ left >= 0 /\ v <= 0 /\ left <= AccelStep
                 \/ left <= 0 /\ v >= 0 /\ -left <= AccelStep
    IN  IF there
        THEN [mem EXCEPT !.position = mem.target, !.velocity = 0, !.done = TRUE]
        ELSE [mem EXCEPT !.position = position, !.velocity = v]

TrapezoidStep ==
    CASE mem.target = mem.position /\ mem.velocity = 0 -> [mem EXCEPT !.done = TRUE]
      [] mem.target > mem.position -> Moved(Hurried(1))
      [] mem.target < mem.position -> Moved(Hurried(-1))
      [] OTHER -> Moved(mem.velocity)
-----------------------------------------------------------------------------
RegulatorReset(out) == [integrator |-> 0, prev |-> 0, d |-> 0, output |-> out]
PiReset(out) == [integrator |-> 0, output |-> out]
RampReset(out) == [output |-> out, done |-> TRUE]
FilterReset(out) == [output |-> out]
HpfReset == [prev |-> 0, output |-> 0]
WindowReset ==
    [samples |-> [k \in 0 .. MaxRecent - 1 |-> 0], count |-> 0, index |-> 0, output |-> 0]
TrapezoidReset(at, speed) == [position |-> at, velocity |-> speed, target |-> at, done |-> TRUE]

\* The value a loop is reset to; speed is asked of a profile only.
Fresh(v, speed) ==
    CASE setting.algo = "pi" -> PiReset(v)
      [] setting.algo \in Regulators \ {"pi"} -> RegulatorReset(v)
      [] setting.algo \in Limiters -> RampReset(v)
      [] setting.algo \in Filters -> FilterReset(v)
      [] setting.algo = "hpf" -> HpfReset
      [] setting.algo \in Windows -> WindowReset
      [] setting.algo = "trapezoid" -> TrapezoidReset(v, speed)

After(v) ==
    CASE setting.algo = "pi" -> PiStep(v)
      [] setting.algo = "pid" -> PidStep(v)
      [] setting.algo = "pid15" -> Pid15Step(v)
      [] setting.algo = "pid2" -> Pid2Step(v)
      [] setting.algo = "rate" -> RateStep(v)
      [] setting.algo = "ramp" -> RampStep(v)
      [] setting.algo = "lpf" -> LpfStep(v)
      [] setting.algo = "envelope" -> EnvelopeStep(v)
      [] setting.algo = "hpf" -> HpfStep(v)
      [] setting.algo = "avg" -> AvgStep(v)
      [] setting.algo = "rms" -> RmsStep(v)
      [] setting.algo = "median" -> MedianStep(v)

Newest(n) == SubSeq(recent, 1, IF n < Len(recent) THEN n ELSE Len(recent))

\* Only loops with a memory of samples need their history for the properties.
Remembered == IF setting.algo \in Windows THEN MaxRecent - 1 ELSE 0

Sample(v) ==
    /\ setting.algo # "trapezoid"
    /\ mem' = After(v)
    /\ recent' = <<v>> \o Newest(Remembered)
    /\ steady' = IF steady < MaxRecent THEN steady + 1 ELSE steady
    /\ UNCHANGED setting

\* The profile is told its target once, and then called without a sample.
SetTarget(v) ==
    /\ setting.algo = "trapezoid"
    /\ mem' = [mem EXCEPT !.target = v, !.done = FALSE]
    /\ UNCHANGED <<setting, recent, steady>>

Profile ==
    /\ setting.algo = "trapezoid"
    /\ mem' = TrapezoidStep
    /\ UNCHANGED <<setting, recent, steady>>

SetWindow(n) ==
    /\ setting.algo \in Windows
    /\ n # setting.win
    /\ setting' = [setting EXCEPT !.win = n]
    /\ steady' = 0
    /\ UNCHANGED <<mem, recent>>

Speeds == IF setting.algo = "trapezoid" THEN setting.speeds ELSE {0}
Reset(v) ==
    /\ \E speed \in Speeds : mem' = Fresh(v, speed)
    /\ recent' = <<>>
    /\ steady' = 0
    /\ UNCHANGED setting

Init ==
    /\ setting \in Settings
    /\ mem \in {Fresh(v, speed) : v \in setting.inputs, speed \in Speeds}
    /\ recent = <<>>
    /\ steady = 0

Next ==
    \/ \E v \in setting.inputs : Sample(v) \/ SetTarget(v) \/ Reset(v)
    \/ Profile
    \/ setting.algo \in Windows /\ \E n \in setting.windows : SetWindow(n)

Spec == Init /\ [][Next]_vars
-----------------------------------------------------------------------------
\* What a step returns is a number, and so is what it remembers.
TypeOK ==
    /\ recent \in Seq(Numbers) /\ Len(recent) <= MaxRecent
    /\ steady \in 0 .. MaxRecent
    /\ \A f \in DOMAIN mem \ {"samples", "count", "index", "done"} : mem[f] \in Numbers
    /\ setting.algo \in Windows =>
          /\ mem.count \in 0 .. MaxRecent /\ mem.index \in 0 .. MaxRecent - 1
          /\ \A k \in DOMAIN mem.samples : mem.samples[k] \in Numbers

\* What the last sample adds to the output without the integrator.
Others ==
    CASE setting.algo = "pi" -> Mul(setting.kp, recent[1])
      [] setting.algo = "pid" -> Mul(setting.kp, recent[1]) + Mul(setting.kd, mem.d)
      [] setting.algo = "pid15" -> Wide(setting.kp, recent[1]) + Wide(setting.kd, mem.d)
      [] setting.algo = "pid2" ->
             Mul(setting.kp, Weighted(recent[1])) + Mul(setting.kd, mem.d)

(* No regulator winds up: after every step what it would put out is within its *)
(* limits, to one unit of rounding, unless its integrator has reached its own  *)
(* limit, so that the output leaves its limit with the first sample that asks  *)
(* for it.  Not at a limit of the output that is the end of the numbers: there *)
(* the saturated sum equals the limit and is not taken back                    *)
(* (bm_algo_fixed.c:316-335, 409-431, 869-884, 957-969).                       *)
NoWindup ==
    setting.algo \in Regulators /\ recent # <<>> =>
        LET sum == Others + Integral(mem.integrator)
        IN  /\ setting.max < Highest =>
                  sum <= setting.max \/ mem.integrator = setting.imin
            /\ setting.min > Lowest =>
                  sum >= setting.min - 1 \/ mem.integrator = setting.imax

(* A window gives the value of its last samples and of no older one: at any    *)
(* time while its length is the one it was reset with, and as many samples     *)
(* after the length has changed as the window takes, twice as many for the     *)
(* window of rms, which fills behind its cursor                                *)
(* (bm_algo_fixed.c:803-822, 1230-1258, 3686-3705).                            *)
LastOnes ==
    LET needed == IF setting.algo = "rms" THEN 2 * setting.win ELSE setting.win
        last == Newest(setting.win)
        n == Len(last)
        f == [k \in 0 .. n - 1 |-> last[k + 1]]
    IN  (/\ setting.algo \in Windows /\ recent # <<>>
         /\ steady >= needed \/ steady = Len(recent))
        => mem.output =
            CASE setting.algo = "avg" -> Trunc(Add(f, n), n)
              [] setting.algo = "rms" ->
                    Sat(MeanRoot(Add([k \in DOMAIN f |-> f[k] * f[k]], n), n))
              [] setting.algo = "median" -> Median(f, n)

(* A profile that is only ever reset to rest never runs faster than it may,    *)
(* and when it says it is done it is at rest at its target                     *)
(* (bm_algo_fixed.c:967-1008).                                                 *)
ProfileHolds ==
    setting.algo = "trapezoid" /\ Speeds = {0} =>
        /\ Abs(mem.velocity) <= setting.maxVel
        /\ mem.done => mem.position = mem.target /\ mem.velocity = 0

(* Whatever speed it was reset with (a reset says done at any speed, 914-923), *)
(* a step makes a profile no faster than it was or may be, says done only at   *)
(* rest at the target, and leaves one alone that is there                      *)
(* (bm_algo_fixed.c:948-951, 967-1008).                                        *)
ProfileArrives ==
    Profile =>
        /\ Abs(mem'.velocity) <= setting.maxVel \/ Abs(mem'.velocity) <= Abs(mem.velocity)
        /\ mem'.done => mem.done \/ (mem'.position = mem.target /\ mem'.velocity = 0)
        /\ mem.position = mem.target /\ mem.velocity = 0 =>
              mem'.position = mem.target /\ mem'.velocity = 0

(* A limiter goes towards its target by its whole step or by what is left, and *)
(* says so when it is there, although the distance may not fit into a number   *)
(* (bm_algo_fixed.c:617-628, 708-721).                                         *)
KeepsPace ==
    LET target == recent'[1]
        down == IF setting.algo = "rate" THEN Downward ELSE Upward
    IN  setting.algo \in Limiters /\ recent' # <<>> =>
            /\ mem'.output = mem.output + Clamp(target - mem.output, -down, Upward)
            /\ mem'.done <=> mem'.output = target

(* A filter moves towards its input and never past it, and stops short of it   *)
(* only below it, where what is left is less than one unit after the product   *)
(* with alpha (bm_algo_fixed.c:357-360, 1628-1632).                            *)
Approaches ==
    LET in == IF setting.algo = "lpf" THEN recent'[1] ELSE Magnitude(recent'[1])
        was == mem.output
        now == mem'.output
    IN  setting.algo \in Filters /\ recent' # <<>> =>
            /\ was <= in => was <= now /\ now <= in
            /\ was >= in => was >= now /\ now >= in
            /\ \/ now # was \/ was = in
               \/ was < in /\ (in - was) * setting.alpha < One

(* The cut that keeps the product within the wide integer changes no output:   *)
(* where it bites, the output is saturated anyway (bm_algo_fixed.c:1313-1333). *)
CutIsHarmless ==
    setting.algo = "hpf" /\ recent' # <<>> =>
        mem'.output = Sat(Wide(mem.output + recent'[1] - mem.prev, setting.alpha))
=============================================================================
