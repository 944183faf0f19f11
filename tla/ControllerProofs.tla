-------------------------- MODULE ControllerProofs --------------------------
(***************************************************************************)
(* The controller in time.  While it runs (SysTick) its delays end in      *)
(* time, for every set of delays that has none of 1 ms, every number of    *)
(* callbacks and any clock; and its clocks are right, for every length of  *)
(* the tick, every clock frequency, every width of the counters and every  *)
(* duration of a call.  Over losses of power (PowerCycle) the start and    *)
(* the settings in flash are safe, for every size of the page, of the      *)
(* settings and of the quad word, every set of bytes and of delays.  Both  *)
(* have the delays of DriverDelay in common.                               *)
(***************************************************************************)
EXTENDS SysTick, PowerCycle, TLAPS

-----------------------------------------------------------------------------
(* The delays.                                                             *)

\* No delay of 1 ms: a tick between the stores to delay.ms and to delay.callback would
\* use it up, and call what the delay before left in delay.callback.
NoShortDelay == 1 \notin Delays

\* delay.ms and the ticks since it was stored make up the time asked for; a callback
\* that is armed, or about to be, is still to be called.
IDelay ==
  /\ ms + ticks = want
  /\ pc # "arm" /\ callback # NULL => callback \in live
  /\ pc = "arm" => want >= 2 /\ (arg # NULL => arg \in live)

\* A call with a time and a callback that may be asked for.
Asked == \E n \in Delays, cb \in 0 .. MaxCalls : Call(n, cb)

DelayStep == Asked \/ Arm \/ WaitOver \/ Driver_IncTick \/ NoDelay \/ UNCHANGED delayVars

LEMMA DelayStarts == DelayInit => DelayTypeOK /\ IDelay
BY ConstantsAssumption DEF DelayInit, DelayTypeOK, IDelay, NULL

\* delay.ms never exceeds what was asked for.
LEMMA DelayTypes ==
  ASSUME DelayTypeOK, DelayStep
  PROVE  DelayTypeOK'
<1> USE ConstantsAssumption DEF DelayTypeOK, NULL
<1>1. want \in Nat
  OBVIOUS
<1>2. CASE Asked
  <2>1. PICK n \in Delays, cb \in 0 .. MaxCalls : Call(n, cb)
    BY <1>2 DEF Asked
  <2>2. n \in Nat /\ 0 \in 0 .. n /\ n \in 0 .. n /\ 0 \in 0 .. MaxCalls
    OBVIOUS
  <2>3. live' \in {{}, {cb}} /\ (cb = 0 => live' = {})
    BY <2>1 DEF Call
  <2>4. live' \subseteq 1 .. MaxCalls
    BY <2>3
  <2>5. /\ calls' \in {calls, cb} /\ ms' = n /\ ticks' = 0 /\ want' = n
        /\ callback' \in {0, callback} /\ called' \in {0, cb} /\ arg' \in {arg, cb}
        /\ pc' \in {pc, "arm"}
    BY <2>1 DEF Call
  <2> QED BY <2>2, <2>4, <2>5
<1>3. CASE Arm
  BY <1>3 DEF Arm
<1>4. CASE WaitOver
  BY <1>4 DEF WaitOver, delay
<1>5. CASE Driver_IncTick
  <2>1. ms' \in 0 .. want
    BY <1>1, <1>5 DEF Driver_IncTick, Expire, CountDown
  <2>2. ticks' \in 0 .. want
    BY <1>1, <1>5 DEF Driver_IncTick
  <2>3. /\ callback' \in {0, callback} /\ called' \in {0, callback}
        /\ live' \subseteq live
    BY <1>5 DEF Driver_IncTick, Expire, CountDown
  <2>4. UNCHANGED <<pc, arg, want, calls>> /\ 0 \in 0 .. MaxCalls
    BY <1>5 DEF Driver_IncTick
  <2>5. /\ callback' \in 0 .. MaxCalls /\ called' \in 0 .. MaxCalls
        /\ live' \subseteq 1 .. MaxCalls
    BY <2>3, <2>4
  <2> QED BY <2>1, <2>2, <2>4, <2>5
<1>6. CASE NoDelay \/ UNCHANGED delayVars
  <2>1. /\ UNCHANGED <<ms, callback, pc, arg, want, calls, live, ticks>>
        /\ called' \in {0, called}
    BY <1>6 DEF NoDelay, delayVars, delay
  <2> QED BY <2>1
<1> QED BY <1>2, <1>3, <1>4, <1>5, <1>6 DEF DelayStep

LEMMA DelayKept ==
  ASSUME NoShortDelay, DelayTypeOK, IDelay, DelayStep
  PROVE  IDelay'
<1> USE ConstantsAssumption DEF NULL
<1>1. /\ ms \in Nat /\ ticks \in Nat /\ want \in Nat /\ ms <= want /\ ticks <= want
  BY DEF DelayTypeOK
<1>2. CASE Asked
  <2>1. PICK n \in Delays, cb \in 0 .. MaxCalls : Call(n, cb)
    BY <1>2 DEF Asked
  <2>2. n \in Nat \ {1}
    BY DEF NoShortDelay
  <2> QED BY <2>1, <2>2 DEF Call, IDelay
<1>3. CASE Arm
  BY <1>3 DEF Arm, IDelay
<1>4. CASE WaitOver
  BY <1>4 DEF WaitOver, delay, IDelay
<1>5. CASE Driver_IncTick
  <2>1. ms' + ticks' = want
    BY <1>1, <1>5 DEF Driver_IncTick, Expire, CountDown, IDelay
  <2>2. pc # "arm" /\ callback' # NULL => callback' \in live'
    BY <1>5 DEF Driver_IncTick, Expire, CountDown, IDelay
  <2>3. pc = "arm" => live' = live
    BY <1>1, <1>5 DEF Driver_IncTick, Expire, CountDown, IDelay
  <2> QED BY <1>5, <2>1, <2>2, <2>3 DEF Driver_IncTick, IDelay
<1>6. CASE NoDelay \/ UNCHANGED delayVars
  BY <1>6 DEF NoDelay, delayVars, delay, IDelay
<1> QED BY <1>2, <1>3, <1>4, <1>5, <1>6 DEF DelayStep

LEMMA DelayOnTime ==
  ASSUME NoShortDelay, DelayTypeOK, IDelay
  PROVE  /\ Driver_IncTick /\ called' # NULL => called' \in live /\ ticks' >= want
         /\ WaitOver => ticks >= want
<1>1. /\ ms \in Nat /\ ticks \in Nat /\ want \in Nat
  BY ConstantsAssumption DEF DelayTypeOK
<1>2. ASSUME Driver_IncTick, called' # NULL
      PROVE  called' \in live /\ ticks' >= want
  <2>1. ms = 1 /\ called' = callback
    BY <1>2 DEF Driver_IncTick, Expire, CountDown
  <2>2. pc # "arm"
    BY <1>1, <1>2, <2>1 DEF Driver_IncTick, IDelay
  <2> QED BY <1>1, <1>2, <2>1, <2>2 DEF Driver_IncTick, IDelay
<1>3. WaitOver => ticks >= want
  BY <1>1 DEF WaitOver, IDelay
<1> QED BY <1>2, <1>3

LEMMA StepIsDelayStep ==
  ASSUME DelayTypeOK, [Next]_vars
  PROVE  DelayStep
<1>1. CASE Delay
  <2>1. PICK n \in Delays : Call(n, NULL) \/ (calls < MaxCalls /\ Call(n, calls + 1))
    BY <1>1 DEF Delay
  <2>2. NULL \in 0 .. MaxCalls /\ (calls < MaxCalls => calls + 1 \in 0 .. MaxCalls)
    BY ConstantsAssumption DEF NULL, DelayTypeOK
  <2> QED BY <2>1, <2>2 DEF DelayStep, Asked
<1>2. CASE InDelay \/ GetMicros \/ Time \/ Interrupt \/ UNCHANGED vars
  BY <1>2 DEF InDelay, GetMicros, Time, Interrupt, vars, DelayStep
<1> QED BY <1>1, <1>2 DEF Next

\* driver.c 604-616 and 3416-3438: the callback that is called is the one of the last
\* delay, and neither it nor the end of a wait comes before the time asked for.
THEOREM DelaysEndInTime ==
  ASSUME NoShortDelay
  PROVE  Spec => OnTime
<1>1. Init => DelayTypeOK /\ IDelay
  BY DelayStarts DEF Init
<1>2. DelayTypeOK /\ IDelay /\ [Next]_vars => DelayTypeOK' /\ IDelay'
  BY StepIsDelayStep, DelayTypes, DelayKept
<1>3. DelayTypeOK /\ IDelay =>
        [/\ Driver_IncTick /\ called' # NULL => called' \in live /\ ticks' >= want
         /\ WaitOver => ticks >= want]_delayVars
  BY DelayOnTime
<1> QED BY <1>1, <1>2, <1>3, PTL DEF Spec, OnTime

-----------------------------------------------------------------------------
(* Unsigned arithmetic.                                                    *)

\* Division with a remainder.
LEMMA DivMod ==
  ASSUME NEW a \in Int, NEW w \in Nat \ {0}
  PROVE  a = w * (a \div w) + (a % w) /\ a \div w \in Int /\ (a % w) \in Int /\ 0 <= (a % w) /\ (a % w) < w
OBVIOUS

\* Quotient and remainder are the only ones.
LEMMA Unique ==
  ASSUME NEW q \in Int, NEW r \in Int, NEW w \in Nat \ {0}, 0 <= r, r < w
  PROVE  (w * q + r) % w = r /\ (w * q + r) \div w = q
OBVIOUS

\* A number below the modulus.
LEMMA ModSmall ==
  ASSUME NEW w \in Nat \ {0}, NEW a \in Int, 0 <= a, a < w
  PROVE  (a % w) = a
OBVIOUS

\* A multiple of the modulus does not count, ...
LEMMA Periodic ==
  ASSUME NEW w \in Nat \ {0}, NEW q \in Int, NEW a \in Int
  PROVE  ((w * q + a) % w) = (a % w)
<1> DEFINE k == a \div w
           r == a % w
<1>1. k \in Int /\ r \in Int /\ 0 <= r /\ r < w /\ a = w * k + r
  BY DivMod
<1> HIDE DEF k, r
<1>2. w * q + a = w * (q + k) + r
  BY <1>1
<1>3. (w * (q + k) + r) % w = r
  BY <1>1, Unique
<1> QED BY <1>2, <1>3 DEF r

\* ... so that a sum
LEMMA ModAdd ==
  ASSUME NEW w \in Nat \ {0}, NEW a \in Int, NEW b \in Int
  PROVE  (((a % w) + b) % w) = ((a + b) % w)
<1> DEFINE k == a \div w
           r == a % w
<1>1. k \in Int /\ r \in Int /\ a = w * k + r
  BY DivMod
<1> HIDE DEF k, r
<1>2. a + b = w * k + (r + b)
  BY <1>1
<1>3. (w * k + (r + b)) % w = (r + b) % w
  <2>1. r + b \in Int
    BY <1>1
  <2> QED BY <1>1, <2>1, Periodic
<1> QED BY <1>2, <1>3 DEF r

\* (what it takes for a product)
LEMMA Distribute ==
  ASSUME NEW w \in Int, NEW k \in Int, NEW r \in Int, NEW m \in Int
  PROVE  (w * k + r) * m = w * (k * m) + r * m
OBVIOUS

\* and a product may be reduced first.
LEMMA ModMul ==
  ASSUME NEW w \in Nat \ {0}, NEW a \in Int, NEW m \in Int
  PROVE  (((a % w) * m) % w) = ((a * m) % w)
<1> DEFINE k == a \div w
           r == a % w
<1>1. k \in Int /\ r \in Int /\ a = w * k + r
  BY DivMod
<1> HIDE DEF k, r
<1>2. a * m = w * (k * m) + r * m
  BY <1>1, Distribute
<1>3. k * m \in Int /\ r * m \in Int
  BY <1>1
<1>4. (w * (k * m) + r * m) % w = (r * m) % w
  BY <1>3, Periodic
<1> QED BY <1>2, <1>4 DEF r

\* Division and multiplication are monotone.
LEMMA DivMono ==
  ASSUME NEW a \in Int, NEW b \in Int, NEW w \in Nat \ {0}, a <= b
  PROVE  a \div w <= b \div w
OBVIOUS

LEMMA MulMono ==
  ASSUME NEW x \in Int, NEW y \in Int, NEW w \in Nat, x <= y
  PROVE  x * w <= y * w
OBVIOUS

LEMMA Cancel ==
  ASSUME NEW x \in Int, NEW y \in Int, NEW w \in Nat \ {0}, x * w <= y * w
  PROVE  x <= y
OBVIOUS

\* A quotient is rounded down.
LEMMA RoundedDown ==
  ASSUME NEW v \in Nat, NEW f \in Nat \ {0}
  PROVE  v \div f \in Nat /\ (v \div f) * f <= v
<1> DEFINE k == v \div f
           r == v % f
<1>1. k \in Int /\ r \in Int /\ 0 <= r /\ r < f /\ v = f * k + r
  BY DivMod
<1> HIDE DEF k, r
<1>2. k \in Nat
  BY <1>1
<1>3. f * k = k * f /\ k * f \in Int
  BY <1>1
<1>4. k * f <= v
  BY <1>1, <1>3
<1> QED BY <1>2, <1>4 DEF k

\* A share of d, rounded down, is at most d.
LEMMA Share ==
  ASSUME NEW d \in Nat, NEW F \in Nat, NEW f \in Nat, NEW w \in Nat \ {0}, F * f <= w
  PROVE  ((d * F) \div w) * f <= d /\ ((d * F) \div w) \in Nat
<1> DEFINE q == (d * F) \div w
           r == (d * F) % w
<1>1. d * F \in Nat
  OBVIOUS
<1>2. q \in Int /\ r \in Int /\ 0 <= r /\ r < w /\ d * F = w * q + r
  BY <1>1, DivMod
<1> HIDE DEF q, r
<1>3. q \in Nat
  BY <1>1, <1>2
<1>4. q * w <= d * F
  BY <1>2
<1>5. (q * w) * f <= (d * F) * f
  BY <1>1, <1>3, <1>4, MulMono
<1>6. (d * F) * f = (F * f) * d
  OBVIOUS
<1>7. (F * f) * d <= w * d
  BY MulMono
<1>8. (q * w) * f = (q * f) * w
  BY <1>3
<1>9. q * f \in Int
  BY <1>3
<1>10. (q * f) * w <= d * w
  BY <1>1, <1>3, <1>5, <1>6, <1>7, <1>8
<1>11. q * f <= d
  BY <1>9, <1>10, Cancel
<1> QED BY <1>3, <1>11 DEF q

-----------------------------------------------------------------------------
(* The inductive invariant of the clocks.                                  *)

Period == MICROS * f_mcu

\* Cycles since the tick that is recorded, cycles since the timer was reloaded for a
\* tick not counted yet, and what the fraction makes of the first.
Behind == (CYCCNT - cycle_count) % WIDTH
Passed == phase + (IF pending THEN Period ELSE 0)
Part == Fraction(Behind)

\* The two clocks: the recorded tick was taken when it was due or later.
IClock == TimeTypeOK /\ Behind <= Passed

\* How far the clocks have gone since the call began.  What the ticks make of it, the
\* fraction aside, has taken the cycles it stands for, so that it cannot wrap around.
Gone == From(begun, Now)
IGone == reader # "none" => (Gone - Part) * f_mcu <= spent - Passed + 2 * Period - 1

\* An exclusive access that was not broken has loaded what belongs together.
IExclusive ==
  /\ reader = "cycles" /\ exclusive => t = uwTick
  /\ reader = "store" /\ exclusive => t = uwTick /\ cycles = cycle_count

\* What a call that has loaded both will count, and what the clocks showed at the
\* first tick after its loads.  Until that tick it reads what a call reads that nothing
\* comes between; after it, at most what they showed then.
Counted == (CYCCNT - cycles) % WIDTH
Edge == From(begun, (t + 1) * MICROS)
ILoaded ==
  reader = "count" =>
    \/ t = uwTick /\ cycles = cycle_count
    \/ /\ Counted <= spent + 2 * Period - 1
       /\ Edge <= Gone /\ Edge + Fraction(Counted) >= MICROS

IReading == IGone /\ IExclusive /\ ILoaded

-----------------------------------------------------------------------------
(* The operators.                                                          *)

LEMMA Constants ==
  /\ WIDTH \in Nat \ {0} /\ MICROS \in Nat \ {0} /\ f_mcu \in Nat \ {0}
  /\ Period \in Nat \ {0} /\ MICROS <= Period
  /\ CallCycles \in Nat /\ CallCycles + 2 * Period <= WIDTH /\ MICROS < WIDTH
<1>1. /\ MICROS \in Nat \ {0} /\ f_mcu \in Nat \ {0} /\ CallCycles \in Nat /\ WIDTH \in Nat
      /\ CallCycles + 2 * MICROS * f_mcu <= WIDTH
  BY ElapsedAssumption
<1>2. Period \in Nat /\ MICROS <= Period /\ 2 * MICROS * f_mcu = 2 * Period
  BY <1>1 DEF Period
<1> QED BY <1>1, <1>2

\* The fraction is at most a tick, and at most what the cycles stand for.
LEMMA FractionBounds ==
  ASSUME NEW d \in Nat
  PROVE  Fraction(d) \in 0 .. MICROS /\ Fraction(d) * f_mcu <= d
<1> DEFINE F == (WIDTH - 1) \div f_mcu
           q == (d * F) \div WIDTH
<1>1. F \in Nat /\ F * f_mcu <= WIDTH
  <2>1. WIDTH - 1 \in Nat /\ f_mcu \in Nat \ {0}
    BY Constants
  <2>2. F \in Nat /\ F * f_mcu <= WIDTH - 1
    BY <2>1, RoundedDown
  <2>3. F * f_mcu \in Int
    BY <2>1, <2>2
  <2> QED BY <2>2, <2>3, Constants
<1> HIDE DEF F
<1>2. q * f_mcu <= d /\ q \in Nat
  BY <1>1, Constants, Share
<1> HIDE DEF q
<1>3. Fraction(d) = IF q > MICROS THEN MICROS ELSE q
  BY DEF Fraction, q, F
<1>4. CASE q > MICROS
  <2>1. MICROS * f_mcu <= q * f_mcu
    BY <1>2, <1>4, Constants, MulMono
  <2>2. MICROS * f_mcu \in Int /\ q * f_mcu \in Int
    BY <1>2, Constants
  <2> QED BY <1>2, <1>3, <1>4, <2>1, <2>2, Constants
<1>5. CASE ~(q > MICROS)
  BY <1>2, <1>3, <1>5, Constants
<1> QED BY <1>4, <1>5

LEMMA FractionMono ==
  ASSUME NEW d \in Nat, NEW e \in Nat, d <= e
  PROVE  Fraction(d) <= Fraction(e)
<1> DEFINE F == (WIDTH - 1) \div f_mcu
           q(x) == (x * F) \div WIDTH
<1>1. F \in Nat
  BY Constants, DivMod
<1> HIDE DEF F
<1>2. d * F <= e * F /\ d * F \in Int /\ e * F \in Int
  BY <1>1, MulMono
<1>3. q(d) <= q(e) /\ q(d) \in Int /\ q(e) \in Int
  BY <1>2, Constants, DivMono, DivMod
<1> HIDE DEF q
<1>4. /\ Fraction(d) = IF q(d) > MICROS THEN MICROS ELSE q(d)
      /\ Fraction(e) = IF q(e) > MICROS THEN MICROS ELSE q(e)
  BY DEF Fraction, q, F
<1> QED BY <1>3, <1>4, Constants

LEMMA FractionZero == Fraction(0) = 0
<1>1. Fraction(0) \in 0 .. MICROS /\ Fraction(0) * f_mcu <= 0
  BY FractionBounds
<1> QED BY <1>1, Constants

\* Distances after a step of the clocks.
LEMMA FromStep ==
  ASSUME NEW a \in Int, NEW x \in Int, NEW y \in Int
  PROVE  /\ From(a, x) \in 0 .. WIDTH - 1
         /\ From(a, (x + y) % WIDTH) = (From(a, x) + y) % WIDTH
         /\ From(a, x % WIDTH) = From(a, x)
<1>1. /\ WIDTH \in Nat \ {0} /\ x + y \in Int /\ x - a \in Int /\ 0 - a \in Int
  BY Constants
<1>2. From(a, x) \in 0 .. WIDTH - 1
  BY <1>1, DivMod DEF From
<1>3. ASSUME NEW z \in Int PROVE From(a, z % WIDTH) = (z - a) % WIDTH
  <2>1. (((z % WIDTH) + (0 - a)) % WIDTH) = ((z + (0 - a)) % WIDTH)
    BY <1>1, ModAdd
  <2>2. (z % WIDTH) \in Int
    BY <1>1, DivMod
  <2>3. (z % WIDTH) + (0 - a) = (z % WIDTH) - a /\ z + (0 - a) = z - a
    BY <2>2
  <2> QED BY <2>1, <2>3 DEF From
<1>4. From(a, (x + y) % WIDTH) = ((x + y) - a) % WIDTH
  BY <1>1, <1>3
<1>5. (From(a, x) + y) % WIDTH = ((x - a) + y) % WIDTH
  BY <1>1, ModAdd DEF From
<1>6. (x + y) - a = (x - a) + y
  OBVIOUS
<1> QED BY <1>2, <1>3, <1>4, <1>5, <1>6 DEF From

-----------------------------------------------------------------------------
(* The types.                                                              *)

LEMMA Types ==
  ASSUME TimeTypeOK
  PROVE  /\ uwTick \in Nat /\ uwTick < WIDTH /\ cycle_count \in Nat /\ cycle_count < WIDTH
         /\ CYCCNT \in Nat /\ CYCCNT < WIDTH /\ t \in Nat /\ cycles \in Nat /\ begun \in Nat
         /\ phase \in Nat /\ phase < Period /\ spent \in Nat /\ spent <= CallCycles
         /\ pending \in BOOLEAN /\ exclusive \in BOOLEAN
<1>1. /\ uwTick \in 0 .. WIDTH - 1 /\ cycle_count \in 0 .. WIDTH - 1
      /\ CYCCNT \in 0 .. WIDTH - 1 /\ t \in 0 .. WIDTH - 1 /\ cycles \in 0 .. WIDTH - 1
      /\ begun \in 0 .. WIDTH - 1
      /\ phase \in 0 .. Period - 1 /\ spent \in 0 .. CallCycles
      /\ pending \in BOOLEAN /\ exclusive \in BOOLEAN
  BY DEF TimeTypeOK, Period
<1> QED BY <1>1, Constants

\* What the clocks show, from the loads of a call and now.
LEMMA Shown ==
  ASSUME TimeTypeOK, NEW c \in Nat, NEW u \in Nat
  PROVE  /\ (CYCCNT - c) % WIDTH \in Nat /\ (CYCCNT - c) % WIDTH < WIDTH
         /\ u * MICROS + Fraction((CYCCNT - c) % WIDTH) \in Nat
         /\ Micros(u, c) \in 0 .. WIDTH - 1
<1>1. CYCCNT - c \in Int /\ WIDTH \in Nat \ {0} /\ u * MICROS \in Nat
  BY Types, Constants
<1>2. (CYCCNT - c) % WIDTH \in Nat /\ (CYCCNT - c) % WIDTH < WIDTH
  BY <1>1, DivMod
<1>3. Fraction((CYCCNT - c) % WIDTH) \in 0 .. MICROS
  BY <1>2, FractionBounds
<1>4. u * MICROS + Fraction((CYCCNT - c) % WIDTH) \in Nat
  BY <1>1, <1>3, Constants
<1>5. Micros(u, c) \in 0 .. WIDTH - 1
  BY <1>1, <1>4, DivMod DEF Micros
<1> QED BY <1>2, <1>4, <1>5

LEMMA ClockTypes ==
  ASSUME TimeTypeOK
  PROVE  Behind \in Nat /\ Passed \in Nat /\ Part \in 0 .. MICROS /\ Now \in 0 .. WIDTH - 1
<1>1. Behind \in Nat
  BY Types, Shown DEF Behind
<1>2. Passed \in Nat
  BY Types, Constants DEF Passed
<1>3. Now \in 0 .. WIDTH - 1
  BY Types, Shown DEF Now
<1> QED BY <1>1, <1>2, <1>3, FractionBounds DEF Part

\* The steps of the composition, as the clocks and the readers see them.
TimeStep == Cycle \/ HAL_IncTick \/ getElapsedMicros \/ UNCHANGED timeVars

LEMMA StepIsTimeStep == ASSUME [Next]_vars PROVE TimeStep
BY DEF Next, Delay, InDelay, GetMicros, Time, Interrupt, vars, TimeStep

LEMMA TimeStarts == TimeInit => IClock /\ IReading
<1> SUFFICES ASSUME TimeInit PROVE IClock /\ IReading
  OBVIOUS
<1>1. 0 \in 0 .. WIDTH - 1 /\ 0 \in 0 .. Period - 1 /\ 0 \in 0 .. CallCycles
  BY Constants
<1>2. TimeTypeOK
  BY <1>1 DEF TimeInit, TimeTypeOK, Period
<1>3. Behind = 0
  <2>1. (0 - 0) % WIDTH = 0
    BY Constants, ModSmall
  <2> QED BY <2>1 DEF TimeInit, Behind
<1>4. Passed = 0
  BY DEF TimeInit, Passed
<1> QED BY <1>2, <1>3, <1>4 DEF TimeInit, IClock, IReading, IGone, IExclusive, ILoaded

LEMMA TimeTypes ==
  ASSUME TimeTypeOK, TimeStep
  PROVE  TimeTypeOK'
<1>1. WIDTH \in Nat \ {0}
  BY Constants
<1>2. CASE Cycle
  <2>1. CYCCNT' \in 0 .. WIDTH - 1
    <3>1. CYCCNT + 1 \in Int
      BY Types
    <3> QED BY <1>1, <1>2, <3>1, DivMod DEF Cycle
  <2>2. phase' \in 0 .. MICROS * f_mcu - 1 /\ pending' \in BOOLEAN
    <3>1. /\ phase' = (IF phase + 1 = Period THEN 0 ELSE phase + 1)
          /\ pending' \in {pending, TRUE}
      BY <1>2 DEF Cycle, Period
    <3>2. phase' \in 0 .. Period - 1
      BY <3>1, Types, Constants
    <3> QED BY <3>1, <3>2, Types DEF Period
  <2>3. spent' \in 0 .. CallCycles
    BY <1>2, Types, Constants DEF Cycle
  <2>4. UNCHANGED <<uwTick, cycle_count, reader, t, cycles, begun, exclusive>>
    BY <1>2 DEF Cycle, call
  <2> QED BY <2>1, <2>2, <2>3, <2>4 DEF TimeTypeOK
<1>3. CASE HAL_IncTick
  <2>1. uwTick' \in 0 .. WIDTH - 1
    <3>1. uwTick + 1 \in Int
      BY Types
    <3> QED BY <1>1, <1>3, <3>1, DivMod DEF HAL_IncTick
  <2>2. /\ cycle_count' \in {cycle_count, CYCCNT} /\ pending' = FALSE /\ exclusive' = FALSE
        /\ UNCHANGED <<CYCCNT, phase, reader, t, cycles, begun, spent>>
    BY <1>3 DEF HAL_IncTick, call
  <2> QED BY <2>1, <2>2 DEF TimeTypeOK
<1>4. CASE getElapsedMicros
  <2>1. Now \in 0 .. WIDTH - 1
    BY Types, Shown DEF Now
  <2>2. 0 \in 0 .. WIDTH - 1 /\ 0 \in 0 .. CallCycles
    BY Constants
  <2>3. /\ UNCHANGED <<uwTick, cycle_count, CYCCNT, phase, pending>>
        /\ t' \in {t, uwTick, 0} /\ cycles' \in {cycles, cycle_count, 0}
        /\ begun' \in {begun, Now, 0} /\ exclusive' \in {exclusive, TRUE, FALSE}
        /\ spent' \in {spent, 0}
        /\ reader' \in {"none", "again", "cycles", "store", "count"}
    BY <1>4 DEF getElapsedMicros, ReadTick, ReadCycles, StoreExclusive, ReadCount, clocks, call
  <2> QED BY <2>1, <2>2, <2>3 DEF TimeTypeOK
<1>5. CASE UNCHANGED timeVars
  BY <1>5 DEF timeVars, clocks, call, TimeTypeOK
<1> QED BY <1>2, <1>3, <1>4, <1>5 DEF TimeStep

-----------------------------------------------------------------------------
(* The steps of the clocks.                                                *)

\* A cycle: the fraction grows by a tick at most, and nothing wraps around.
LEMMA CycleMoves ==
  ASSUME IClock, Cycle
  PROVE  /\ Behind' = Behind + 1 /\ Passed' = Passed + 1
         /\ Part \in Nat /\ Part' \in Nat /\ Part <= Part' /\ Part' <= MICROS
         /\ Part' * f_mcu <= Passed'
         /\ Now' = (Now + (Part' - Part)) % WIDTH
<1>1. /\ uwTick' = uwTick /\ cycle_count' = cycle_count /\ CYCCNT' = (CYCCNT + 1) % WIDTH
      /\ (phase + 1 = Period /\ ~pending /\ phase' = 0 /\ pending')
         \/ (phase + 1 # Period /\ phase' = phase + 1 /\ pending' = pending)
  BY DEF Cycle, Period
<1>2. /\ TimeTypeOK /\ Behind <= Passed /\ Behind \in Nat
      /\ CYCCNT \in Nat /\ cycle_count \in Nat /\ uwTick \in Nat /\ WIDTH \in Nat \ {0}
      /\ phase \in Nat /\ phase < Period /\ Period \in Nat
  BY Types, Shown, Constants DEF IClock, Behind
<1>3. Passed' = Passed + 1 /\ Passed \in Nat /\ Passed + 1 < WIDTH
  <2>1. 2 * Period <= WIDTH /\ Period > 0
    BY Constants
  <2> QED BY <1>1, <1>2, <2>1 DEF Passed
<1>4. Behind' = Behind + 1
  <2>1. (CYCCNT + 1 - cycle_count) % WIDTH = Behind'
    <3>1. CYCCNT + 1 \in Int /\ 0 - cycle_count \in Int /\ CYCCNT' \in Int
      BY <1>1, <1>2, DivMod
    <3>2. (CYCCNT' + (0 - cycle_count)) % WIDTH = (CYCCNT + 1 + (0 - cycle_count)) % WIDTH
      BY <1>1, <1>2, <3>1, ModAdd
    <3>3. /\ CYCCNT' + (0 - cycle_count) = CYCCNT' - cycle_count
          /\ CYCCNT + 1 + (0 - cycle_count) = CYCCNT + 1 - cycle_count
      BY <1>2, <3>1
    <3> QED BY <1>1, <3>2, <3>3 DEF Behind
  <2>2. (CYCCNT + 1 - cycle_count) % WIDTH = (Behind + 1) % WIDTH
    <3>1. CYCCNT - cycle_count \in Int /\ CYCCNT + 1 - cycle_count = (CYCCNT - cycle_count) + 1
      BY <1>2
    <3>2. 1 \in Int
      OBVIOUS
    <3>3. (Behind + 1) % WIDTH = ((CYCCNT - cycle_count) + 1) % WIDTH
      BY <1>2, <3>1, <3>2, ModAdd DEF Behind
    <3> QED BY <3>1, <3>3
  <2>3. (Behind + 1) % WIDTH = Behind + 1
    BY <1>2, <1>3, ModSmall
  <2> QED BY <2>1, <2>2, <2>3
<1>5. /\ Part \in 0 .. MICROS /\ Part' \in 0 .. MICROS /\ Part <= Part'
      /\ Part' * f_mcu <= Behind + 1
  <2>1. Part = Fraction(Behind) /\ Part' = Fraction(Behind + 1)
    BY <1>4 DEF Part, Fraction
  <2> QED BY <1>2, <2>1, FractionBounds, FractionMono
<1>6. Now' = (Now + (Part' - Part)) % WIDTH
  <2> DEFINE n == uwTick * MICROS
  <2>1. /\ n \in Int /\ Part \in Int /\ Part' \in Int
        /\ n + Part \in Int /\ Part' - Part \in Int
    BY <1>2, <1>5, Constants
  <2>2. Now = (n + Part) % WIDTH /\ Now' = (n + Part') % WIDTH
    BY <1>1 DEF Now, Micros, Part, Behind, Fraction
  <2> HIDE DEF n
  <2>3. (Now + (Part' - Part)) % WIDTH = ((n + Part) + (Part' - Part)) % WIDTH
    BY <1>2, <2>1, <2>2, ModAdd
  <2>4. (n + Part) + (Part' - Part) = n + Part'
    BY <2>1
  <2> QED BY <2>2, <2>3, <2>4
<1>7. Part' * f_mcu <= Passed'
  <2>1. Part' * f_mcu \in Int
    BY <1>5, Constants
  <2> QED BY <1>2, <1>3, <1>5, <2>1
<1>8. Part \in Nat /\ Part' \in Nat /\ Part' <= MICROS
  BY <1>5, Constants
<1> QED BY <1>3, <1>4, <1>5, <1>6, <1>7, <1>8

\* A tick: it is counted, and the fraction starts again.
LEMMA TickMoves ==
  ASSUME CyclesRecorded, IClock, HAL_IncTick
  PROVE  /\ Behind' = 0 /\ Part' = 0 /\ Passed' \in Nat /\ Passed = Passed' + Period
         /\ Part \in Nat /\ Part <= MICROS
         /\ Now' = ((uwTick + 1) * MICROS) % WIDTH
         /\ Now' = (Now + (MICROS - Part)) % WIDTH
<1>1. /\ uwTick' = (uwTick + 1) % WIDTH /\ cycle_count' = CYCCNT /\ CYCCNT' = CYCCNT
      /\ phase' = phase /\ pending /\ pending' = FALSE
  BY DEF HAL_IncTick
<1>2. /\ TimeTypeOK /\ Behind \in Nat
      /\ CYCCNT \in Nat /\ uwTick \in Nat /\ WIDTH \in Nat \ {0}
      /\ phase \in Nat /\ Period \in Nat /\ MICROS \in Nat
  BY Types, Shown, Constants DEF IClock, Behind
<1>3. Behind' = 0
  <2>1. CYCCNT - CYCCNT = 0 /\ 0 % WIDTH = 0
    BY <1>2, ModSmall
  <2> QED BY <1>1, <2>1 DEF Behind
<1>4. Part' = 0
  BY <1>3, FractionZero DEF Part, Fraction
<1>5. Passed' \in Nat /\ Passed = Passed' + Period
  BY <1>1, <1>2 DEF Passed
<1>6. Part \in Nat /\ Part <= MICROS
  BY <1>2, FractionBounds DEF Part
<1> DEFINE n == uwTick * MICROS
<1>7. n \in Int /\ (uwTick + 1) * MICROS = n + MICROS
  BY <1>2
<1>8. Now' = (n + MICROS) % WIDTH
  <2>1. uwTick' * MICROS \in Int
    <3>1. uwTick + 1 \in Int
      BY <1>2
    <3>2. uwTick' \in Int
      BY <1>1, <1>2, <3>1, DivMod
    <3> QED BY <1>2, <3>2
  <2>2. Now' = (uwTick' * MICROS + Part') % WIDTH
    BY DEF Now, Micros, Part, Behind, Fraction
  <2>3. uwTick' * MICROS + Part' = uwTick' * MICROS
    BY <1>4, <2>1
  <2>4. (uwTick' * MICROS) % WIDTH = ((uwTick + 1) * MICROS) % WIDTH
    <3>1. uwTick + 1 \in Int /\ MICROS \in Int
      BY <1>2
    <3> QED BY <1>1, <1>2, <3>1, ModMul
  <2> QED BY <1>7, <2>2, <2>3, <2>4
<1>9. Now' = (Now + (MICROS - Part)) % WIDTH
  <2>1. Now = (n + Part) % WIDTH
    BY DEF Now, Micros, Part, Behind, Fraction
  <2>2. n + Part \in Int /\ MICROS - Part \in Int
    BY <1>2, <1>6, <1>7
  <2>3. (Now + (MICROS - Part)) % WIDTH = ((n + Part) + (MICROS - Part)) % WIDTH
    BY <1>2, <2>1, <2>2, ModAdd
  <2>4. (n + Part) + (MICROS - Part) = n + MICROS
    BY <1>2, <1>6, <1>7
  <2> QED BY <1>8, <2>3, <2>4
<1> QED BY <1>3, <1>4, <1>5, <1>6, <1>7, <1>8, <1>9

\* A step of a call moves no clock.
LEMMA CallMovesNoClock ==
  ASSUME getElapsedMicros \/ UNCHANGED timeVars
  PROVE  /\ UNCHANGED <<uwTick, cycle_count, CYCCNT, phase, pending>>
         /\ Now' = Now /\ Behind' = Behind /\ Part' = Part /\ Passed' = Passed
<1>1. UNCHANGED <<uwTick, cycle_count, CYCCNT, phase, pending>>
  BY DEF getElapsedMicros, ReadTick, ReadCycles, StoreExclusive, ReadCount, timeVars, clocks
<1> QED BY <1>1 DEF Now, Micros, Behind, Part, Fraction, Passed

LEMMA ClockKept ==
  ASSUME CyclesRecorded, IClock, TimeStep
  PROVE  IClock'
<1>1. TimeTypeOK'
  BY TimeTypes DEF IClock
<1>2. Behind \in Nat /\ Passed \in Nat /\ Behind <= Passed
  BY ClockTypes DEF IClock
<1>3. Behind' <= Passed'
  <2>1. CASE Cycle
    BY <1>2, <2>1, CycleMoves
  <2>2. CASE HAL_IncTick
    BY <2>2, TickMoves
  <2>3. CASE getElapsedMicros \/ UNCHANGED timeVars
    BY <1>2, <2>3, CallMovesNoClock
  <2> QED BY <2>1, <2>2, <2>3 DEF TimeStep
<1> QED BY <1>1, <1>3 DEF IClock

\* driver.c 1971: what the clocks show does not go back when the tick is late, and
\* never goes forward by more than a tick.
THEOREM ClocksGoForward ==
  ASSUME CyclesRecorded
  PROVE  Spec => ClocksAgree
<1>1. Init => IClock
  BY TimeStarts DEF Init
<1>2. IClock /\ [Next]_vars => IClock'
  BY StepIsTimeStep, ClockKept
<1>3. IClock /\ [Next]_vars => [From(Now, Now') <= MICROS]_timeVars
  <2> SUFFICES ASSUME IClock, TimeStep PROVE From(Now, Now') <= MICROS
    BY StepIsTimeStep
  <2>1. Now \in Int /\ WIDTH \in Nat \ {0} /\ MICROS \in Nat /\ MICROS < WIDTH
    BY Types, Shown, Constants DEF IClock, Now
  <2>2. ASSUME NEW y \in 0 .. MICROS, Now' = (Now + y) % WIDTH
        PROVE  From(Now, Now') <= MICROS
    <3>1. From(Now, Now) = 0
      <4>1. Now - Now = 0 /\ 0 % WIDTH = 0
        BY <2>1, ModSmall
      <4> QED BY <4>1 DEF From
    <3>2. From(Now, Now') = (0 + y) % WIDTH
      <4>1. y \in Int
        BY <2>1
      <4> QED BY <2>1, <2>2, <3>1, <4>1, FromStep
    <3>3. (0 + y) % WIDTH = y
      BY <2>1, ModSmall
    <3> QED BY <2>1, <3>2, <3>3
  <2>3. CASE Cycle
    <3>1. Part' - Part \in 0 .. MICROS
      BY <2>1, <2>3, CycleMoves
    <3> QED BY <2>2, <2>3, <3>1, CycleMoves
  <2>4. CASE HAL_IncTick
    <3>1. MICROS - Part \in 0 .. MICROS
      BY <2>1, <2>4, TickMoves
    <3> QED BY <2>2, <2>4, <3>1, TickMoves
  <2>5. CASE getElapsedMicros \/ UNCHANGED timeVars
    <3>1. Now' = Now
      BY <2>5, CallMovesNoClock
    <3>2. Now - Now = 0 /\ 0 % WIDTH = 0
      BY <2>1, ModSmall
    <3> QED BY <2>1, <3>1, <3>2 DEF From
  <2> QED BY <2>3, <2>4, <2>5 DEF TimeStep
<1> QED BY <1>1, <1>2, <1>3, PTL DEF Spec, ClocksAgree

-----------------------------------------------------------------------------
(* The reading.                                                            *)

LEMMA Scaled ==
  ASSUME NEW a \in Int, NEW b \in Int, NEW f \in Nat \ {0}
  PROVE  /\ a * f \in Int /\ b * f \in Int /\ (a + b) * f = a * f + b * f
         /\ a >= 0 => a <= a * f
OBVIOUS

\* What has gone, g, stays below the width w, when a cycle turns the fraction p into q
\* and when a tick turns the fraction p into a tick of m.
LEMMA CycleFits ==
  ASSUME NEW g \in Nat, NEW p \in Nat, NEW q \in Nat, NEW f \in Nat \ {0}, NEW s \in Nat,
         NEW e \in Nat, NEW r \in Nat, NEW c \in Nat, NEW w \in Nat,
         p <= q, q * f <= e + 1, (g - p) * f <= s - e + 2 * r - 1, s + 1 <= c, c + 2 * r <= w
  PROVE  q - p \in Nat /\ g + (q - p) < w
<1>1. g - p \in Int /\ (g - p) + q = g + (q - p) /\ q - p \in Nat /\ g + (q - p) \in Nat
  OBVIOUS
<1> DEFINE x == (g - p) * f
           y == q * f
           z == g + (q - p)
<1>2. x \in Int /\ y \in Int /\ z \in Nat /\ z * f \in Int /\ z * f = x + y /\ z <= z * f
  <2>1. x \in Int /\ y \in Int /\ ((g - p) + q) * f = x + y
    BY <1>1, Scaled
  <2>2. z \in Int /\ z >= 0
    BY <1>1
  <2>3. z * f \in Int /\ z <= z * f
    BY <2>2, Scaled
  <2> QED BY <1>1, <2>1, <2>3
<1>3. y <= e + 1 /\ x <= s - e + 2 * r - 1
  OBVIOUS
<1> HIDE DEF x, y, z
<1>4. z < w
  BY <1>2, <1>3
<1> QED BY <1>1, <1>4 DEF z

LEMMA TickFits ==
  ASSUME NEW g \in Nat, NEW p \in Nat, NEW m \in Nat, NEW f \in Nat \ {0}, NEW s \in Nat,
         NEW e \in Nat, NEW r \in Nat, NEW c \in Nat, NEW w \in Nat,
         p <= m, m * f = r, (g - p) * f <= s - (e + r) + 2 * r - 1, s <= c, c + 2 * r <= w
  PROVE  /\ m - p \in Nat /\ g + (m - p) < w
         /\ (g + (m - p)) * f <= s - e + 2 * r - 1
<1>1. g - p \in Int /\ (g - p) + m = g + (m - p) /\ m - p \in Nat /\ g + (m - p) \in Nat
  OBVIOUS
<1> DEFINE x == (g - p) * f
           z == g + (m - p)
           v == z * f
<1>2. x \in Int /\ z \in Nat /\ v \in Int /\ v = x + r /\ z <= v
  <2>1. x \in Int /\ ((g - p) + m) * f = x + m * f
    BY <1>1, Scaled
  <2>2. z \in Int /\ z >= 0
    BY <1>1
  <2>3. v \in Int /\ z <= v
    BY <2>2, Scaled
  <2> QED BY <1>1, <2>1, <2>3
<1>3. x <= s - (e + r) + 2 * r - 1
  OBVIOUS
<1> HIDE DEF x, v, z
<1>4. v <= s - e + 2 * r - 1 /\ z < w
  BY <1>2, <1>3
<1> QED BY <1>1, <1>4 DEF v, z

\* Differences that do not change.
LEMMA SameDifference ==
  ASSUME NEW g \in Int, NEW p \in Int, NEW q \in Int
  PROVE  (g + (q - p)) - q = g - p
OBVIOUS

LEMMA FurtherOn ==
  ASSUME NEW a \in Nat, NEW g \in Nat, NEW p \in Nat, NEW q \in Nat, a <= g, p <= q
  PROVE  a <= g + (q - p)
OBVIOUS

LEMMA ReadingTypes ==
  ASSUME TimeTypeOK
  PROVE  /\ Gone \in Nat /\ Gone < WIDTH /\ Edge \in Nat /\ Edge < WIDTH
         /\ Counted \in Nat /\ Fraction(Counted) \in Nat /\ Fraction(Counted) <= MICROS
<1>1. begun \in Int /\ Now \in Int /\ WIDTH \in Nat \ {0}
  BY Types, ClockTypes, Constants
<1>2. (t + 1) * MICROS \in Int
  BY Types, Constants
<1>3. Gone \in 0 .. WIDTH - 1
  <2>1. Now - begun \in Int
    BY <1>1
  <2> QED BY <1>1, <2>1, DivMod DEF Gone, From
<1>4. Edge \in 0 .. WIDTH - 1
  <2>1. (t + 1) * MICROS - begun \in Int
    BY <1>1, <1>2
  <2> QED BY <1>1, <2>1, DivMod DEF Edge, From
<1>5. Counted \in Nat
  BY Types, Shown DEF Counted
<1> QED BY <1>1, <1>3, <1>4, <1>5, FractionBounds, Constants

\* The clocks go forward by y, without wrapping around what has gone.
LEMMA GoneStep ==
  ASSUME TimeTypeOK, NEW y \in Nat, begun' = begun, Now' = (Now + y) % WIDTH, Gone + y < WIDTH
  PROVE  Gone' = Gone + y
<1>1. begun \in Int /\ Now \in Int /\ WIDTH \in Nat \ {0} /\ y \in Int /\ Gone \in Nat
  BY Types, ClockTypes, ReadingTypes, Constants
<1>2. Gone' = (Gone + y) % WIDTH
  BY <1>1, FromStep DEF Gone
<1> QED BY <1>1, <1>2, ModSmall

\* While a call is running, a cycle ...
LEMMA CycleGone ==
  ASSUME IClock, IGone, Cycle, reader # "none"
  PROVE  /\ Gone' = Gone + (Part' - Part)
         /\ spent' = spent + 1 /\ spent' <= CallCycles
         /\ IGone'
<1>1. /\ TimeTypeOK /\ Gone \in Nat /\ Part \in Nat /\ Part' \in Nat /\ Part <= Part'
      /\ Passed \in Nat /\ Passed' = Passed + 1 /\ Part' * f_mcu <= Passed'
      /\ Now' = (Now + (Part' - Part)) % WIDTH
  BY ClockTypes, ReadingTypes, CycleMoves DEF IClock
<1>2. /\ spent \in Nat /\ spent' = spent + 1 /\ spent' <= CallCycles
      /\ begun' = begun /\ reader' = reader
  BY <1>1, Types, Constants DEF Cycle, call
<1>3. /\ (Gone - Part) * f_mcu <= spent - Passed + 2 * Period - 1
      /\ Period \in Nat /\ f_mcu \in Nat \ {0} /\ CallCycles \in Nat /\ WIDTH \in Nat
      /\ CallCycles + 2 * Period <= WIDTH
  BY Constants DEF IGone
<1>4. Part' - Part \in Nat /\ Gone + (Part' - Part) < WIDTH
  <2>1. /\ Part' * f_mcu <= Passed + 1 /\ spent + 1 <= CallCycles
    BY <1>1, <1>2
  <2> QED BY <1>1, <1>2, <1>3, <2>1, CycleFits
<1>5. Gone' = Gone + (Part' - Part)
  BY <1>1, <1>2, <1>4, GoneStep
<1>6. IGone'
  <2>1. Gone' - Part' = Gone - Part
    <3>1. Gone \in Int /\ Part \in Int /\ Part' \in Int
      BY <1>1
    <3>2. (Gone + (Part' - Part)) - Part' = Gone - Part
      BY <3>1, SameDifference
    <3> QED BY <1>5, <3>2
  <2>2. spent' - Passed' = spent - Passed
    BY <1>1, <1>2
  <2> QED BY <1>3, <2>1, <2>2 DEF IGone, Period
<1> QED BY <1>2, <1>5, <1>6

\* ... and a tick move the clocks forward, and not around.
LEMMA TickGone ==
  ASSUME CyclesRecorded, IClock, IGone, HAL_IncTick, reader # "none"
  PROVE  /\ Gone' = Gone + (MICROS - Part)
         /\ spent' = spent
         /\ IGone'
<1>1. /\ TimeTypeOK /\ Gone \in Nat /\ Part \in Nat /\ Part' = 0 /\ Part <= MICROS
      /\ Passed' \in Nat /\ Passed = Passed' + Period
      /\ Now' = (Now + (MICROS - Part)) % WIDTH
  BY ReadingTypes, TickMoves DEF IClock
<1>2. spent \in Nat /\ spent <= CallCycles /\ spent' = spent /\ begun' = begun /\ reader' = reader
  BY <1>1, Types DEF HAL_IncTick, call
<1>3. /\ (Gone - Part) * f_mcu <= spent - Passed + 2 * Period - 1
      /\ Period \in Nat /\ f_mcu \in Nat \ {0} /\ CallCycles \in Nat /\ WIDTH \in Nat
      /\ CallCycles + 2 * Period <= WIDTH /\ MICROS \in Nat
  BY Constants DEF IGone
<1>4. /\ MICROS - Part \in Nat /\ Gone + (MICROS - Part) < WIDTH
      /\ (Gone + (MICROS - Part)) * f_mcu <= spent - Passed' + 2 * Period - 1
  <2>1. MICROS * f_mcu = Period
    BY DEF Period
  <2> QED BY <1>1, <1>2, <1>3, <2>1, TickFits
<1>5. Gone' = Gone + (MICROS - Part)
  BY <1>1, <1>2, <1>4, GoneStep
<1>6. IGone'
  <2>1. Gone' - Part' = Gone + (MICROS - Part)
    <3>1. Gone' \in Int
      BY <1>1, <1>4, <1>5
    <3> QED BY <1>1, <1>5, <3>1
  <2> QED BY <1>2, <1>4, <2>1 DEF IGone, Period
<1> QED BY <1>2, <1>5, <1>6

LEMMA ReadingKept ==
  ASSUME CyclesRecorded, IClock, IReading, TimeStep
  PROVE  IReading'
<1>1. CASE Cycle /\ reader = "none"
  BY <1>1 DEF Cycle, IReading, IGone, IExclusive, ILoaded
<1>2. CASE Cycle /\ reader # "none"
  <2>1. /\ Gone' = Gone + (Part' - Part) /\ spent' = spent + 1 /\ spent' <= CallCycles
        /\ IGone'
    BY <1>2, CycleGone DEF IReading
  <2>2. /\ UNCHANGED <<uwTick, cycle_count, reader, t, cycles, begun, exclusive>>
        /\ CYCCNT' = (CYCCNT + 1) % WIDTH
    BY <1>2 DEF Cycle, call
  <2>3. /\ TimeTypeOK /\ Gone \in Nat /\ Part \in Nat /\ Part' \in Nat /\ Part <= Part'
        /\ Edge \in Nat /\ Counted \in Nat /\ spent \in Nat
    BY <1>2, Types, ReadingTypes, CycleMoves DEF IClock
  <2>4. ILoaded'
    <3>1. SUFFICES ASSUME reader = "count", Counted <= spent + 2 * Period - 1,
                          Edge <= Gone, Edge + Fraction(Counted) >= MICROS
                   PROVE  /\ Counted' <= spent' + 2 * Period - 1
                          /\ Edge' <= Gone' /\ Edge' + Fraction(Counted') >= MICROS
      BY <2>2 DEF IReading, ILoaded, Period, Fraction
    <3>2. Counted' = Counted + 1
      <4>1. CYCCNT \in Int /\ cycles \in Nat /\ WIDTH \in Nat \ {0}
        BY <2>3, Types, Constants
      <4>2. Counted + 1 < WIDTH
        BY <2>1, <2>3, <3>1, Constants
      <4>3. CYCCNT + 1 \in Int /\ 0 - cycles \in Int /\ CYCCNT' \in Int /\ 1 \in Int
            /\ CYCCNT - cycles \in Int
        <5>1. CYCCNT + 1 \in Int /\ 0 - cycles \in Int /\ 1 \in Int /\ CYCCNT - cycles \in Int
          BY <4>1
        <5> QED BY <2>2, <4>1, <5>1, DivMod
      <4>4. (CYCCNT' + (0 - cycles)) % WIDTH = ((CYCCNT + 1) + (0 - cycles)) % WIDTH
        BY <2>2, <4>1, <4>3, ModAdd
      <4>5. /\ CYCCNT' + (0 - cycles) = CYCCNT' - cycles
            /\ (CYCCNT + 1) + (0 - cycles) = (CYCCNT - cycles) + 1
        BY <4>1, <4>3
      <4>6. ((CYCCNT - cycles) + 1) % WIDTH = (Counted + 1) % WIDTH
        BY <4>1, <4>3, ModAdd DEF Counted
      <4>7. (Counted + 1) % WIDTH = Counted + 1
        BY <2>3, <4>1, <4>2, ModSmall
      <4>8. Counted' = (CYCCNT' - cycles) % WIDTH
        BY <2>2 DEF Counted
      <4> QED BY <4>4, <4>5, <4>6, <4>7, <4>8
    <3>3. Edge' = Edge
      BY <2>2 DEF Edge, From
    <3>4. Fraction(Counted) <= Fraction(Counted + 1)
      BY <2>3, FractionMono
    <3>5. /\ Fraction(Counted) \in Nat /\ Fraction(Counted + 1) \in Nat /\ MICROS \in Nat
          /\ Period \in Nat
      BY <2>3, FractionBounds, Constants
    <3>6. Counted' <= spent' + 2 * Period - 1
      BY <2>1, <2>3, <3>1, <3>2, <3>5
    <3>7. Edge <= Gone'
      <4>1. Edge <= Gone + (Part' - Part)
        BY <2>3, <3>1, FurtherOn
      <4> QED BY <2>1, <4>1
    <3>8. Edge + Fraction(Counted + 1) >= MICROS
      BY <2>3, <3>1, <3>4, <3>5
    <3> QED BY <3>2, <3>3, <3>6, <3>7, <3>8
  <2>5. IExclusive'
    BY <2>2 DEF IReading, IExclusive
  <2> QED BY <2>1, <2>4, <2>5 DEF IReading
<1>3. CASE HAL_IncTick /\ reader = "none"
  BY <1>3 DEF HAL_IncTick, call, IReading, IGone, IExclusive, ILoaded
<1>4. CASE HAL_IncTick /\ reader # "none"
  <2>1. /\ Gone' = Gone + (MICROS - Part) /\ spent' = spent /\ IGone'
    BY <1>4, TickGone DEF IReading
  <2>2. /\ uwTick' = (uwTick + 1) % WIDTH /\ exclusive' = FALSE
        /\ UNCHANGED <<CYCCNT, reader, t, cycles, begun>>
    BY <1>4 DEF HAL_IncTick, call
  <2>3. /\ TimeTypeOK /\ Gone \in Nat /\ Part \in Nat /\ Part <= MICROS
        /\ Edge \in Nat /\ Counted \in Nat /\ spent \in Nat /\ MICROS \in Nat
        /\ Period \in Nat
    BY <1>4, Types, ReadingTypes, TickMoves, Constants DEF IClock
  <2>4. /\ Edge' = Edge /\ Counted' = Counted
        /\ Fraction(Counted') = Fraction(Counted)
    BY <2>2 DEF Edge, From, Counted
  <2>5. ILoaded'
    <3>1. CASE reader = "count" /\ t = uwTick /\ cycles = cycle_count
      <4>1. Counted = Behind /\ Fraction(Counted) = Part
        BY <3>1 DEF Counted, Behind, Part
      <4>2. Behind <= 2 * Period - 1
        <5>1. Behind <= Passed /\ phase \in Nat /\ phase < Period /\ pending \in BOOLEAN
          BY <2>3, Types DEF IClock
        <5> QED BY <2>3, <4>1, <5>1 DEF Passed
      <4>3. Edge = Gone'
        <5>1. Now' = ((uwTick + 1) * MICROS) % WIDTH
          BY <1>4, TickMoves
        <5>2. begun \in Int /\ (uwTick + 1) * MICROS \in Int /\ 0 \in Int
          BY <2>3, Types
        <5>3. From(begun, Now') = From(begun, (uwTick + 1) * MICROS)
          BY <5>1, <5>2, FromStep
        <5> QED BY <2>2, <3>1, <5>3 DEF Gone, Edge
      <4>4. Counted <= spent + 2 * Period - 1
        BY <2>3, <4>1, <4>2
      <4>5. Edge + Part >= MICROS
        BY <2>1, <2>3, <4>3
      <4>6. Edge <= Gone'
        BY <2>3, <4>3
      <4> QED BY <2>1, <2>4, <4>1, <4>4, <4>5, <4>6 DEF ILoaded, Period
    <3>2. CASE /\ reader = "count" /\ Counted <= spent + 2 * Period - 1
               /\ Edge <= Gone /\ Edge + Fraction(Counted) >= MICROS
      <4>1. Edge <= Gone'
        BY <2>1, <2>3, <3>2
      <4> QED BY <2>1, <2>4, <3>2, <4>1 DEF ILoaded, Period
    <3>3. CASE reader # "count"
      BY <2>2, <3>3 DEF ILoaded
    <3> QED BY <3>1, <3>2, <3>3 DEF IReading, ILoaded
  <2>6. IExclusive'
    BY <2>2 DEF IExclusive
  <2> QED BY <2>1, <2>5, <2>6 DEF IReading
<1>5. CASE getElapsedMicros
  <2>1. /\ UNCHANGED <<uwTick, cycle_count, CYCCNT, phase, pending>>
        /\ Now' = Now /\ Part' = Part /\ Passed' = Passed
    BY <1>5, CallMovesNoClock
  <2>2. CASE ReadTick
    <3>1. IGone'
      <4>1. CASE reader = "none"
        <5>1. begun' = Now /\ spent' = 0
          BY <2>2, <4>1 DEF ReadTick
        <5>2. Now \in Int /\ Part \in Nat /\ Passed \in Nat /\ WIDTH \in Nat \ {0}
              /\ f_mcu \in Nat \ {0} /\ Period \in Nat
          BY ClockTypes, Constants DEF IClock
        <5>3. Gone' = 0
          <6>1. Now - Now = 0 /\ 0 % WIDTH = 0
            BY <5>2, ModSmall
          <6> QED BY <2>1, <5>1, <6>1 DEF Gone, From
        <5>4. Passed <= 2 * Period - 1
          <6>1. phase \in Nat /\ phase < Period /\ pending \in BOOLEAN
            BY Types DEF IClock
          <6> QED BY <5>2, <6>1 DEF Passed
        <5>5. (0 - Part) * f_mcu <= 0
          BY <5>2, MulMono
        <5>6. 0 <= 0 - Passed + 2 * Period - 1
          BY <5>2, <5>4
        <5>7. (0 - Part) * f_mcu \in Int
          BY <5>2
        <5>8. (0 - Part) * f_mcu <= 0 - Passed + 2 * Period - 1
          BY <5>2, <5>5, <5>6, <5>7
        <5> QED BY <2>1, <5>1, <5>3, <5>8 DEF IGone, Period
      <4>2. CASE reader = "again"
        BY <2>1, <2>2, <4>2 DEF ReadTick, IReading, IGone, Gone, From, Period
      <4> QED BY <2>2, <4>1, <4>2 DEF ReadTick
    <3> QED BY <2>1, <2>2, <3>1 DEF ReadTick, IReading, IExclusive, ILoaded
  <2>3. CASE ReadCycles \/ StoreExclusive
    <3>1. IGone'
      BY <2>1, <2>3 DEF ReadCycles, StoreExclusive, call, IReading, IGone, Gone, From, Period
    <3>2. IExclusive' /\ ILoaded'
      BY <2>1, <2>3 DEF ReadCycles, StoreExclusive, call, IReading, IExclusive, ILoaded
    <3> QED BY <3>1, <3>2 DEF IReading
  <2>4. CASE ReadCount
    BY <2>4 DEF ReadCount, IReading, IGone, IExclusive, ILoaded
  <2> QED BY <1>5, <2>2, <2>3, <2>4 DEF getElapsedMicros
<1>6. CASE UNCHANGED timeVars
  <2>1. /\ UNCHANGED <<uwTick, cycle_count, CYCCNT, reader, t, cycles, begun, spent, exclusive>>
        /\ Now' = Now /\ Part' = Part /\ Passed' = Passed
    BY <1>6, CallMovesNoClock DEF timeVars, clocks, call
  <2> QED BY <2>1 DEF IReading, IGone, Gone, From, Period, IExclusive, ILoaded, Counted, Edge,
                      Fraction
<1> QED BY <1>1, <1>2, <1>3, <1>4, <1>5, <1>6 DEF TimeStep

\* driver.c 1960-1966: a call of getElapsedMicros returns a time between its beginning
\* and its end, wherever ticks come between its loads and however many.
THEOREM ReadsThePresent ==
  ASSUME CyclesRecorded
  PROVE  Spec => ReadingIsOfNow
<1>1. Init => IClock /\ IReading
  BY TimeStarts DEF Init
<1>2. IClock /\ IReading /\ [Next]_vars => IClock' /\ IReading'
  BY StepIsTimeStep, ClockKept, ReadingKept
<1>3. IClock /\ IReading =>
        [ReadCount => From(begun, Micros(t, cycles)) <= From(begun, Now)]_timeVars
  <2> SUFFICES ASSUME TimeTypeOK, ILoaded, reader = "count"
               PROVE  From(begun, Micros(t, cycles)) <= Gone
    BY DEF IClock, IReading, ReadCount, Gone
  <2>1. Gone \in Nat /\ Edge \in Nat /\ Edge < WIDTH /\ WIDTH \in Nat \ {0} /\ MICROS \in Nat
        /\ Fraction(Counted) \in Nat /\ Fraction(Counted) <= MICROS
    BY ReadingTypes, Constants
  <2>2. CASE t = uwTick /\ cycles = cycle_count
    BY <2>1, <2>2 DEF Gone, Now
  <2>3. CASE Edge <= Gone /\ Edge + Fraction(Counted) >= MICROS
    <3> DEFINE x == (t + 1) * MICROS
               y == Fraction(Counted) - MICROS
    <3>1. begun \in Int /\ x \in Int /\ y \in Int /\ t * MICROS + Fraction(Counted) = x + y
      BY <2>1, Types
    <3>2. Micros(t, cycles) = (x + y) % WIDTH
      BY <3>1 DEF Micros, Counted
    <3>3. From(begun, x) = Edge
      BY DEF Edge
    <3>4. From(begun, Micros(t, cycles)) = (Edge + y) % WIDTH
      <4> HIDE DEF x, y
      <4> QED BY <3>1, <3>2, <3>3, FromStep
    <3>5. Edge + y \in Int /\ 0 <= Edge + y /\ Edge + y < WIDTH /\ Edge + y <= Gone
      BY <2>1, <2>3
    <3>6. (Edge + y) % WIDTH = Edge + y
      <4> HIDE DEF y
      <4> QED BY <2>1, <3>5, ModSmall
    <3> QED BY <3>4, <3>5, <3>6
  <2> QED BY <2>2, <2>3 DEF ILoaded
<1> QED BY <1>1, <1>2, <1>3, PTL DEF Spec, ReadingIsOfNow

\* The variables of both modules stay in their ranges, with recorded cycles or without.
THEOREM SysTickTypes == Spec => []TypeOK
<1>1. Init => TypeOK
  BY DelayStarts, TimeStarts DEF Init, TypeOK, IClock
<1>2. TypeOK /\ [Next]_vars => TypeOK'
  BY StepIsDelayStep, DelayTypes, StepIsTimeStep, TimeTypes DEF TypeOK
<1> QED BY <1>1, <1>2, PTL DEF Spec
-----------------------------------------------------------------------------
(* The settings in flash, over losses of power.                            *)

\* A save that is under way has unlocked the flash, and begins where the page does.
IUnlocked ==
  /\ Nvs!Running => ~locked
  /\ save \in {"erase", "eraseAgain"} => address = 0

\* While a page is programmed its bytes up to the address are those of the settings
\* in RAM, and those behind it are erased.
IProgram ==
  save = "program" =>
    /\ \A o \in Nvs!Offset : o < address => o \in Nvs!Area /\ flash[o] = source[o]
    /\ \A a \in Nvs!Area : a >= address => a \in erased

\* An image that was reported saved is in the flash, and given up with the first
\* step that changes the flash.
IKept ==
  /\ save \in {"eraseAgain", "program", "failed"} => kept = Nvs!NONE
  /\ kept # Nvs!NONE => \A o \in Nvs!Offset : o \in Nvs!Area /\ flash[o] = kept[o]

INvs == Nvs!TypeOK /\ IUnlocked /\ IProgram /\ IKept

LEMMA NvsStarts == Nvs!Init => INvs
<1> SUFFICES ASSUME Nvs!Init PROVE INvs
  OBVIOUS
<1> USE LifeAssumption DEF Nvs!SizesFit
<1>1. Nvs!TypeOK
  BY DEF Nvs!Init, Nvs!TypeOK, Nvs!Image, Nvs!NONE
<1>2. IUnlocked /\ IProgram /\ IKept
  BY DEF Nvs!Init, Nvs!Running, IUnlocked, IProgram, IKept
<1> QED BY <1>1, <1>2 DEF INvs

\* Reading the settings, changing them, and a save that finds nothing to write.
LEMMA RamStep ==
  ASSUME INvs, Nvs!Start \/ Nvs!Change \/ Nvs!Unchanged
  PROVE  INvs'
<1> USE LifeAssumption DEF Nvs!SizesFit
<1>1. /\ UNCHANGED <<flash, erased, locked, address>>
      /\ save' = "idle" /\ source' \in Nvs!Image
  <2>1. CASE Nvs!Start
    BY <2>1 DEF Nvs!Start, Nvs!memcpy_from_flash
  <2>2. CASE Nvs!Change
    <3>1. PICK o \in Nvs!Offset, b \in Bytes : source' = [source EXCEPT ![o] = b]
      BY <2>2 DEF Nvs!Change
    <3>2. source' \in Nvs!Image
      BY <3>1 DEF INvs, Nvs!TypeOK, Nvs!Image
    <3> QED BY <2>2, <3>2 DEF Nvs!Change
  <2>3. CASE Nvs!Unchanged
    BY <2>3 DEF Nvs!Unchanged, INvs, Nvs!TypeOK
  <2> QED BY <2>1, <2>2, <2>3
<1>2. \/ kept' = kept
      \/ kept' = Nvs!NONE
      \/ kept' = source /\ \A o \in Nvs!Offset : o \in Nvs!Area /\ flash[o] = source[o]
  BY DEF Nvs!Start, Nvs!Change, Nvs!Unchanged
<1>3. Nvs!TypeOK'
  BY <1>1, <1>2 DEF INvs, Nvs!TypeOK
<1>4. IUnlocked' /\ IProgram' /\ IKept'
  BY <1>1, <1>2 DEF INvs, IUnlocked, IProgram, IKept, Nvs!Running
<1> QED BY <1>3, <1>4 DEF INvs

\* The erasure.
LEMMA EraseStep ==
  ASSUME INvs, Nvs!Unlock \/ Nvs!Erase \/ Nvs!EraseAgain
  PROVE  INvs'
<1> USE LifeAssumption DEF Nvs!SizesFit
<1>1. CASE Nvs!Unlock
  <2>1. UNCHANGED <<flash, erased, source, kept>> /\ save = "idle"
        /\ \/ locked' = FALSE /\ save' = "erase" /\ address' = 0
           \/ UNCHANGED <<locked, save, address>>
    BY <1>1 DEF Nvs!Unlock
  <2>2. 0 \in 0 .. NvsSize + Quad
    OBVIOUS
  <2>3. Nvs!TypeOK'
    BY <2>1, <2>2 DEF INvs, Nvs!TypeOK
  <2>4. IUnlocked' /\ IProgram' /\ IKept'
    BY <2>1 DEF INvs, IUnlocked, IProgram, IKept, Nvs!Running
  <2> QED BY <2>3, <2>4 DEF INvs
<1>2. CASE Nvs!Erase \/ Nvs!EraseAgain
  <2>1. /\ UNCHANGED <<locked, source, address>> /\ kept' = Nvs!NONE
        /\ save' \in {"program", "eraseAgain", "failed"}
        /\ save' = "program" => flash' = [a \in Nvs!Area |-> FF] /\ erased' = Nvs!Area
        /\ \/ UNCHANGED <<flash, erased>>
           \/ flash' = [a \in Nvs!Area |-> FF] /\ erased' = Nvs!Area
           \/ flash' = [a \in Nvs!Area |-> TORN] /\ erased' = {}
        /\ ~locked /\ address = 0
    BY <1>2 DEF Nvs!Erase, Nvs!EraseAgain, Nvs!EraseDone, Nvs!EraseFailed, INvs, IKept,
                IUnlocked, Nvs!Running
  <2>2. Nvs!TypeOK'
    BY <2>1 DEF INvs, Nvs!TypeOK
  <2>3. IUnlocked' /\ IKept'
    BY <2>1 DEF IUnlocked, IKept
  <2>4. IProgram'
    BY <2>1, LifeAssumption DEF IProgram, Nvs!Area, Nvs!Offset
  <2> QED BY <2>2, <2>3, <2>4 DEF INvs
<1> QED BY <1>1, <1>2

\* A turn of the loop.
LEMMA ProgramStep ==
  ASSUME INvs, Nvs!Program
  PROVE  INvs'
<1> USE LifeAssumption DEF Nvs!SizesFit
<1> DEFINE quad == Nvs!QuadAt(address)
<1>1. /\ save = "program" /\ address \in Nat /\ address < NvsSize
      /\ UNCHANGED <<locked, source, kept>> /\ kept = Nvs!NONE /\ ~locked
      /\ erased' = erased \ quad
      /\ quad = address .. address + Quad - 1
  BY DEF Nvs!Program, Nvs!QuadAt, INvs, Nvs!TypeOK, IKept, IUnlocked, Nvs!Running
<1>2. CASE /\ quad \subseteq Nvs!Area
           /\ flash' = [a \in Nvs!Area |->
                          IF a \in quad THEN Nvs!Qbuf(address)[a] ELSE flash[a]]
           /\ address' = address + Quad /\ save' = save
  <2>1. \A a \in quad : /\ Nvs!Qbuf(address)[a] \in Bytes
                        /\ a < NvsSize => Nvs!Qbuf(address)[a] = source[a]
    BY <1>1 DEF Nvs!Qbuf, INvs, Nvs!TypeOK, Nvs!Image, Nvs!Offset
  <2>2. flash' \in [Nvs!Area -> Bytes \cup {TORN}]
    BY <1>2, <2>1 DEF INvs, Nvs!TypeOK
  <2>3. address' \in 0 .. NvsSize + Quad
    BY <1>1, <1>2
  <2>4. Nvs!TypeOK'
    BY <1>1, <1>2, <2>2, <2>3 DEF INvs, Nvs!TypeOK
  <2>5. IUnlocked' /\ IKept'
    BY <1>1, <1>2 DEF IUnlocked, IKept
  <2>6. ASSUME NEW o \in Nvs!Offset, o < address'
        PROVE  o \in Nvs!Area /\ flash'[o] = source[o]
    <3>1. CASE o < address
      <4>1. o \in Nvs!Area /\ flash[o] = source[o]
        BY <1>1, <3>1 DEF INvs, IProgram
      <4>2. o \notin quad
        BY <1>1, <3>1 DEF Nvs!Offset
      <4> QED BY <1>2, <4>1, <4>2
    <3>2. CASE o >= address
      <4>1. o \in quad /\ o < NvsSize
        BY <1>1, <1>2, <2>6, <3>2 DEF Nvs!Offset
      <4> QED BY <1>2, <2>1, <4>1
    <3> QED BY <1>1, <3>1, <3>2 DEF Nvs!Offset
  <2>7. ASSUME NEW a \in Nvs!Area, a >= address'
        PROVE  a \in erased'
    <3>1. a >= address /\ a \notin quad
      BY <1>1, <1>2, <2>7 DEF Nvs!Area
    <3> QED BY <1>1, <3>1 DEF INvs, IProgram
  <2>8. IProgram'
    BY <1>1, <2>6, <2>7 DEF IProgram
  <2> QED BY <2>4, <2>5, <2>8 DEF INvs
<1>3. CASE /\ flash' = [a \in Nvs!Area |-> IF a \in quad THEN TORN ELSE flash[a]]
           /\ save' = "failed" /\ address' = address
  BY <1>1, <1>3
  DEF INvs, Nvs!TypeOK, IUnlocked, IProgram, IKept
<1> QED BY <1>2, <1>3 DEF Nvs!Program

\* The end of a save.
LEMMA EndStep ==
  ASSUME INvs, Nvs!Saved \/ Nvs!Failed
  PROVE  INvs'
<1> USE LifeAssumption DEF Nvs!SizesFit
<1>1. /\ UNCHANGED <<flash, erased, source, address>> /\ save' = "idle" /\ locked' = TRUE
      /\ kept' = kept \/ kept' = source
  BY DEF Nvs!Saved, Nvs!Failed
<1>2. kept' # Nvs!NONE => \A o \in Nvs!Offset : o \in Nvs!Area /\ flash[o] = kept'[o]
  <2>1. CASE Nvs!Saved
    <3>1. kept' = source /\ save = "program" /\ address >= NvsSize /\ address \in Nat
      BY <2>1 DEF Nvs!Saved, INvs, Nvs!TypeOK
    <3>2. \A o \in Nvs!Offset : o < address
      BY <3>1 DEF Nvs!Offset
    <3> QED BY <3>1, <3>2 DEF INvs, IProgram
  <2>2. CASE Nvs!Failed
    BY <2>2 DEF Nvs!Failed, INvs, IKept
  <2> QED BY <2>1, <2>2
<1>3. Nvs!TypeOK'
  BY <1>1 DEF INvs, Nvs!TypeOK
<1>4. IUnlocked' /\ IProgram' /\ IKept'
  BY <1>1, <1>2 DEF IUnlocked, IProgram, IKept, Nvs!Running
<1> QED BY <1>3, <1>4 DEF INvs

\* The power goes.
LEMMA LossStep ==
  ASSUME INvs, Nvs!PowerLoss
  PROVE  INvs'
<1> USE LifeAssumption DEF Nvs!SizesFit
<1>1. /\ save' = "off" /\ locked' = TRUE /\ address' = 0 /\ source' = source
      /\ 0 \in 0 .. NvsSize + Quad
  BY DEF Nvs!PowerLoss
<1>2. \/ UNCHANGED <<flash, erased, kept>>
      \/ /\ \/ flash' = [a \in Nvs!Area |-> TORN]
            \/ flash' = [a \in Nvs!Area |->
                           IF a \in Nvs!QuadAt(address) THEN TORN ELSE flash[a]]
         /\ erased' \subseteq erased
         /\ kept' = Nvs!NONE
  BY DEF Nvs!PowerLoss, INvs, IKept
<1>3. Nvs!TypeOK'
  BY <1>1, <1>2 DEF INvs, Nvs!TypeOK
<1>4. IKept'
  BY <1>1, <1>2 DEF INvs, IKept
<1>5. IUnlocked' /\ IProgram'
  BY <1>1 DEF IUnlocked, IProgram, Nvs!Running
<1> QED BY <1>3, <1>4, <1>5 DEF INvs

LEMMA NvsStep ==
  ASSUME INvs, [LifeNext]_allVars
  PROVE  INvs'
<1>1. CASE Nvs!Next
  BY <1>1, RamStep, EraseStep, ProgramStep, EndStep, LossStep
  DEF Nvs!Next, Nvs!memcpy_to_flash
<1>2. CASE UNCHANGED nvs
  BY <1>2
  DEF nvs, INvs, Nvs!TypeOK, IUnlocked, IProgram, IKept, Nvs!Running
<1>3. Nvs!Next \/ UNCHANGED nvs
  BY DEF LifeNext, StartUp, Core, SysTickInterrupt, ReadSettings, Settings, PowerLoss, allVars,
         Nvs!Next
<1> QED BY <1>1, <1>2, <1>3

\* flash.c 45, 52-53 and 59-103: the image of a save that returned true is what every
\* later start reads.
THEOREM SavedIsKept == Life => SavedIsRead
<1>1. PowerOn => INvs
  BY NvsStarts DEF PowerOn
<1>2. INvs /\ [LifeNext]_allVars => [ReadSettings /\ kept # Nvs!NONE => source' = kept]_allVars
  <2> SUFFICES ASSUME INvs, ReadSettings, kept # Nvs!NONE
               PROVE  source' = kept
    OBVIOUS
  <2>1. kept \in Nvs!Image /\ source' \in Nvs!Image
    BY DEF ReadSettings, Nvs!Start, Nvs!memcpy_from_flash, INvs, Nvs!TypeOK
  <2>2. ASSUME NEW o \in Nvs!Offset
        PROVE  source'[o] = kept[o]
    <3>1. o \in Nvs!Area /\ flash[o] = kept[o] /\ flash[o] # TORN
      BY <2>1, LifeAssumption DEF INvs, IKept, Nvs!Image, Nvs!SizesFit
    <3>2. source'[o] \in Nvs!ReadByte(o)
      BY DEF ReadSettings, Nvs!Start, Nvs!memcpy_from_flash
    <3> QED BY <3>1, <3>2 DEF Nvs!ReadByte
  <2> QED BY <2>1, <2>2 DEF Nvs!Image
<1> QED BY <1>1, <1>2, NvsStep, PTL DEF Life, SavedIsRead

\* flash.c 76-88: a quad word is programmed, unlocked, once after an erasure.
THEOREM ProgrammedOnce == Life => ErasedFirst
<1>1. PowerOn => INvs
  BY NvsStarts DEF PowerOn
<1>2. INvs /\ [LifeNext]_allVars =>
        [save = "program" /\ save' = "program"
         => ~locked /\ Nvs!QuadAt(address) \subseteq erased]_(Nvs!vars)
  <2> SUFFICES ASSUME INvs, [LifeNext]_allVars, ~UNCHANGED nvs,
                      save = "program", save' = "program"
               PROVE  ~locked /\ Nvs!QuadAt(address) \subseteq erased
    BY DEF Nvs!vars, nvs
  <2>1. Nvs!Program /\ Nvs!QuadAt(address) \subseteq Nvs!Area
    BY DEF LifeNext, StartUp, Core, SysTickInterrupt, ReadSettings, Settings, PowerLoss, allVars,
           Nvs!memcpy_to_flash, Nvs!Unlock, Nvs!Erase, Nvs!EraseAgain, Nvs!Program, Nvs!Saved,
           Nvs!Failed, Nvs!Start, Nvs!Change, Nvs!Unchanged, Nvs!PowerLoss
  <2>2. ASSUME NEW a \in Nvs!QuadAt(address)
        PROVE  a \in erased
    <3>1. a \in Nvs!Area /\ a >= address
      BY <2>1 DEF Nvs!QuadAt, INvs, Nvs!TypeOK
    <3> QED BY <3>1 DEF INvs, IProgram
  <2> QED BY <2>2 DEF INvs, IUnlocked, Nvs!Running
<1> QED BY <1>1, <1>2, NvsStep, PTL DEF Life, ErasedFirst, Nvs!ErasedFirst

-----------------------------------------------------------------------------
(* The start, over losses of power.                                        *)

\* The types of the variables of Boot.
IBootTypes ==
  /\ at \in {"reset", "clocks", "gpio", "init", "settings", "wait", "configure", "triac", "run"}
  /\ clocked \subseteq Peripheral
  /\ nvic \subseteq {"LPUART1", "TIM5"}
  /\ ticking \in BOOLEAN /\ vddio2 \in BOOLEAN /\ claimed \in BOOLEAN
  /\ init_ok \in BOOLEAN /\ rxneie \in BOOLEAN /\ IOInitDone \in BOOLEAN

\* What the stages of the start have left behind: the clocks that are on, whether
\* the stream can still be had, and whether settings_changed may act.
IStages ==
  /\ at \notin {"reset", "clocks"} => vddio2
  /\ at \notin {"reset", "clocks", "gpio"} => {"GPIO", "PortG"} \subseteq clocked
  /\ at \in {"reset", "clocks", "gpio", "init"} => ~claimed
  /\ at \in {"configure", "triac", "run"} => "TIM5" \in clocked
  /\ IOInitDone => at \in {"triac", "run"}
  /\ init_ok => "LPUART1" \in clocked
  /\ claimed => init_ok

IBoot == IBootTypes /\ IStages /\ ClockedBeforeUse /\ OneHolder

\* The stream is given to a user who asks when nobody holds it.
LEMMA GiveStream ==
  ASSUME IBoot, "PortG" \in clocked, serialInit
  PROVE  /\ claimed' = TRUE /\ held' = 1 /\ init_ok' = TRUE /\ rxneie' = TRUE
         /\ clocked' \in {clocked, clocked \cup {"LPUART1"}} /\ "LPUART1" \in clocked'
         /\ vddio2' \in {vddio2, TRUE}
         /\ nvic' \subseteq nvic \cup {"LPUART1"}
         /\ written' \subseteq clocked' /\ ("PortG" \in written' => vddio2')
<1>1. held = 0 /\ claimed' = TRUE /\ held' = held + 1 /\ init_ok' = TRUE /\ rxneie' = TRUE
  BY DEF serialInit, serialSetBaudRate, Claimable, IBoot, OneHolder
<1>2. CASE init_ok
  BY <1>1, <1>2 DEF serialInit, IBoot, IStages
<1>3. CASE ~init_ok
  BY <1>1, <1>3 DEF serialInit
<1> QED BY <1>2, <1>3

\* The stages up to the connection of the stream.
LEMMA MainStep ==
  ASSUME IBoot, HAL_Init \/ SystemClocks \/ MX_GPIO_Init \/ driver_init
  PROVE  IBoot' /\ UNCHANGED delayVars
<1> USE DEF IBoot, IBootTypes, IStages, ClockedBeforeUse, OneHolder, Peripheral
<1>1. CASE HAL_Init
  BY <1>1 DEF HAL_Init, At
<1>2. CASE SystemClocks
  BY <1>2 DEF SystemClocks, At
<1>3. CASE MX_GPIO_Init
  BY <1>3 DEF MX_GPIO_Init, At
<1>4. CASE driver_init
  <2>1. /\ serialInit /\ at = "init" /\ at' = "settings" /\ "PortG" \in clocked
        /\ UNCHANGED <<delayVars, ticking, IOInitDone>>
    BY <1>4 DEF driver_init, Connect, Claimable
  <2> QED BY <2>1, GiveStream
<1> QED BY <1>1, <1>2, <1>3, <1>4

\* driver_setup.
LEMMA SetupStep ==
  ASSUME IBoot, driver_setup \/ SetupOutputs \/ SetupSettings \/ SetupTriac
  PROVE  IBoot'
<1> USE DEF IBoot, IBootTypes, IStages, ClockedBeforeUse, OneHolder, Peripheral
<1>1. CASE driver_setup
  BY <1>1 DEF driver_setup, At
<1>2. CASE SetupOutputs
  BY <1>2 DEF SetupOutputs, At
<1>3. CASE SetupSettings
  BY <1>3 DEF SetupSettings, settings_changed, At
<1>4. CASE SetupTriac
  <2>1. PICK adc \in {{}, {"ADC1"}} : /\ clocked' = clocked \cup {"GPIO", "I2C2"} \cup adc
                                     /\ written' = {"GPIO", "I2C2"} \cup adc
    BY <1>4 DEF SetupTriac
  <2>2. /\ at = "triac" /\ at' = "run"
        /\ UNCHANGED <<ticking, vddio2, claimed, init_ok, rxneie, nvic, IOInitDone, held>>
    BY <1>4 DEF SetupTriac, At
  <2> QED BY <2>1, <2>2
<1> QED BY <1>1, <1>2, <1>3, <1>4

\* The users of the stream, settings that are announced, the wait and the interrupt.
LEMMA CoreStep ==
  ASSUME IBoot, CoreNext \/ InWait \/ SysTick
  PROVE  IBoot'
<1> USE DEF IBoot, IBootTypes, IStages, ClockedBeforeUse, OneHolder, Peripheral
<1>1. CASE Open
  <2>1. /\ serialInit /\ at = "run" /\ "PortG" \in clocked
        /\ UNCHANGED <<at, ticking, IOInitDone>>
    BY <1>1 DEF Open
  <2> QED BY <2>1, GiveStream
<1>2. CASE uart_release
  <2>1. /\ at = "run" /\ claimed' = FALSE /\ held' = 0 /\ written' = {}
        /\ UNCHANGED <<at, ticking, clocked, vddio2, init_ok, rxneie, nvic, IOInitDone>>
    BY <1>2 DEF uart_release
  <2> QED BY <2>1
<1>3. CASE SettingsChanged
  BY <1>3 DEF SettingsChanged, settings_changed
<1>4. CASE InWait \/ SysTick
  <2>1. /\ written' = {}
        /\ UNCHANGED <<at, ticking, clocked, vddio2, claimed, init_ok, rxneie, nvic,
                       IOInitDone, held>>
    BY <1>4 DEF InWait, SysTick, Quiet
  <2> QED BY <2>1
<1> QED BY <1>1, <1>2, <1>3, <1>4 DEF CoreNext

LEMMA BootStarts == BootInit => IBoot /\ DelayTypeOK
<1> SUFFICES ASSUME BootInit PROVE IBoot /\ DelayTypeOK
  OBVIOUS
<1>1. IBoot
  BY DEF BootInit, IBoot, IBootTypes, IStages, ClockedBeforeUse, OneHolder, Peripheral
<1>2. DelayTypeOK
  BY ConstantsAssumption DEF BootInit, DelayInit, DelayTypeOK, NULL
<1> QED BY <1>1, <1>2

LEMMA BootStep ==
  ASSUME IBoot, DelayTypeOK, [LifeNext]_allVars
  PROVE  IBoot' /\ DelayTypeOK'
<1>1. CASE HAL_Init \/ SystemClocks \/ MX_GPIO_Init \/ driver_init
  BY <1>1, MainStep, DelayTypes DEF DelayStep
<1>2. CASE driver_setup \/ SetupOutputs \/ SetupSettings \/ SetupTriac
  <2>1. SetupDelay \in Delays /\ NULL \in 0 .. MaxCalls
    BY BootAssumption, ConstantsAssumption DEF NULL
  <2>2. Asked \/ UNCHANGED delayVars
    BY <1>2, <2>1 DEF driver_setup, SetupOutputs, SetupSettings, SetupTriac, Asked
  <2> QED BY <1>2, <2>2, SetupStep, DelayTypes DEF DelayStep
<1>3. CASE CoreNext \/ InWait \/ SysTick
  <2>1. DelayStep
    BY <1>3 DEF CoreNext, Open, uart_release, SettingsChanged, InWait, SysTick, DelayStep
  <2> QED BY <1>3, <2>1, CoreStep, DelayTypes
<1>4. CASE UNCHANGED startVars
  <2>1. UNCHANGED delayVars /\ UNCHANGED bootVars
    BY <1>4 DEF startVars
  <2>2. IBoot'
    BY <2>1 DEF bootVars, IBoot, IBootTypes, IStages, ClockedBeforeUse, OneHolder
  <2> QED BY <2>1, <2>2, DelayTypes DEF DelayStep
<1>5. CASE PowerLoss
  <2>1. IBoot'
    BY <1>5
    DEF PowerLoss, IBoot, IBootTypes, IStages, ClockedBeforeUse, OneHolder, Peripheral
  <2>2. DelayTypeOK'
    BY <1>5, ConstantsAssumption DEF PowerLoss, DelayTypeOK, NULL
  <2> QED BY <2>1, <2>2
<1> QED BY <1>1, <1>2, <1>3, <1>4, <1>5
        DEF LifeNext, StartUp, MainNext, Core, SysTickInterrupt, ReadSettings, Settings, allVars

LEMMA BootTypes == IBoot /\ DelayTypeOK => BootTypeOK /\ ClockedBeforeUse /\ OneHolder
BY DEF IBoot, IBootTypes, ClockedBeforeUse, OneHolder, BootTypeOK

\* BUILD.md 56-57, main.c 532-549, serial.c 764-843, driver.c 1998-2030 and 2591: the
\* start, the stream and the settings write no register without a clock, whenever
\* settings are announced and the power goes.
THEOREM ClocksFirst == Life => []ClockedBeforeUse
<1>1. PowerOn => IBoot /\ DelayTypeOK
  BY BootStarts DEF PowerOn
<1> QED BY <1>1, BootStep, BootTypes, PTL DEF Life

\* serial.c 566-574 and 791-843: one user at a time holds the stream.
THEOREM StreamHasOneHolder == Life => []OneHolder
<1>1. PowerOn => IBoot /\ DelayTypeOK
  BY BootStarts DEF PowerOn
<1> QED BY <1>1, BootStep, BootTypes, PTL DEF Life

\* The variables stay in their ranges: the start never ends in the branch of
\* driver_init in which the stream is taken (driver.c 2878-2934).
THEOREM LifeTypes == Life => []LifeTypeOK
<1>1. PowerOn => IBoot /\ DelayTypeOK /\ INvs
  BY BootStarts, NvsStarts DEF PowerOn
<1>2. IBoot /\ DelayTypeOK /\ INvs => LifeTypeOK
  BY BootTypes DEF LifeTypeOK, INvs
<1> QED BY <1>1, <1>2, BootStep, NvsStep, PTL DEF Life
=============================================================================
