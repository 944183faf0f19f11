---------------------------- MODULE ElapsedTime -----------------------------
(***************************************************************************)
(* The clocks of the controller and hal.get_micros, getElapsedMicros of    *)
(* driver.c.  The tick counter uwTick and the cycle counter CYCCNT are two *)
(* clocks: the SysTick handler notes the cycles at which it counted a      *)
(* tick, and the reader adds the cycles since then to the ticks.  The      *)
(* handler may be late, and may come between any two loads of the reader,  *)
(* which tries again when the exclusive store tells it so.                 *)
(*                                                                         *)
(* Nothing in the repository defines or sets cycle_count, which driver.c   *)
(* declares extern: that the HAL sets it with the tick is CyclesRecorded.  *)
(* The module SysTick composes these actions with the delays.              *)
(***************************************************************************)
EXTENDS Integers

CONSTANTS
  MICROS,          \* microseconds in a tick, 1000 in the code
  f_mcu,           \* cycles in a microsecond
  WIDTH,           \* values of an unsigned integer, 2^32 in the code
  CallCycles,      \* bound on the cycles a call takes, interrupts included
  CyclesRecorded   \* does the tick interrupt set cycle_count?

ASSUME ElapsedAssumption ==
  /\ MICROS \in Nat \ {0} /\ f_mcu \in Nat \ {0} /\ CallCycles \in Nat
  /\ WIDTH \in Nat /\ CallCycles + 2 * MICROS * f_mcu <= WIDTH
  /\ CyclesRecorded \in BOOLEAN

VARIABLES
  uwTick, cycle_count,
  CYCCNT,
  phase,           \* cycles since the SysTick timer was reloaded
  pending,         \* the SysTick interrupt
  reader,          \* where getElapsedMicros is
  t, cycles,       \* its locals ms and cycles
  exclusive,       \* the exclusive monitor of the processor
  spent,           \* history: cycles since the call began
  begun            \* history: what the clocks showed when it began

clocks   == <<uwTick, cycle_count, CYCCNT, phase, pending>>
call     == <<t, cycles, begun>>
timeVars == <<clocks, reader, call, exclusive, spent>>

TimeInit ==
  /\ uwTick = 0 /\ cycle_count = 0 /\ CYCCNT = 0 /\ phase = 0 /\ pending = FALSE
  /\ reader = "none" /\ t = 0 /\ cycles = 0 /\ exclusive = FALSE
  /\ spent = 0 /\ begun = 0

-----------------------------------------------------------------------------
(* The clocks.                                                             *)

\* A cycle.  The timer interrupts every MICROS microseconds, never a whole tick late.
Cycle ==
  /\ reader # "none" => spent < CallCycles
  /\ IF phase + 1 = MICROS * f_mcu
     THEN ~pending /\ phase' = 0 /\ pending' = TRUE
     ELSE phase' = phase + 1 /\ UNCHANGED pending
  /\ CYCCNT' = (CYCCNT + 1) % WIDTH
  /\ spent' = IF reader = "none" THEN 0 ELSE spent + 1
  /\ UNCHANGED <<uwTick, cycle_count, reader, call, exclusive>>

\* HAL_IncTick, and the end of the exclusive access that every interrupt is.
HAL_IncTick ==
  /\ pending
  /\ pending' = FALSE
  /\ uwTick' = (uwTick + 1) % WIDTH
  /\ cycle_count' = IF CyclesRecorded THEN CYCCNT ELSE cycle_count
  /\ exclusive' = FALSE
  /\ UNCHANGED <<CYCCNT, phase, reader, call, spent>>

-----------------------------------------------------------------------------
(* getElapsedMicros.                                                       *)

\* Mutant: a late tick does not stop the fraction.
Fraction_Unclipped(delta) == (delta * ((WIDTH - 1) \div f_mcu)) \div WIDTH

\* The fraction of a tick, at most a tick: cycles2us_factor is 0xFFFFFFFF / f_mcu.
Fraction(delta) ==
  LET frac == (delta * ((WIDTH - 1) \div f_mcu)) \div WIDTH
  IN  IF frac > MICROS THEN MICROS ELSE frac

\* ms * 1000 and the sum are computed in unsigned integers.
Micros(ticks_, cycles_) ==
  (ticks_ * MICROS + Fraction((CYCCNT - cycles_) % WIDTH)) % WIDTH

\* What the clocks show: the result of a call nothing comes between.
Now == Micros(uwTick, cycle_count)

\* LDREX, and ms = uwTick.
ReadTick ==
  /\ reader \in {"none", "again"}
  /\ begun' = IF reader = "none" THEN Now ELSE begun
  /\ spent' = IF reader = "none" THEN 0 ELSE spent
  /\ t' = uwTick /\ exclusive' = TRUE
  /\ reader' = "cycles"
  /\ UNCHANGED <<clocks, cycles>>

ReadCycles ==
  /\ reader = "cycles"
  /\ cycles' = cycle_count
  /\ reader' = "store"
  /\ UNCHANGED <<clocks, t, begun, exclusive, spent>>

\* Mutant: the result of the exclusive store is not looked at.
StoreExclusive_Ignored ==
  /\ reader = "store"
  /\ reader' = "count" /\ exclusive' = FALSE
  /\ UNCHANGED <<clocks, call, spent>>

\* STREX fails when an interrupt came since LDREX.
StoreExclusive ==
  /\ reader = "store"
  /\ reader' = (IF exclusive THEN "count" ELSE "again") /\ exclusive' = FALSE
  /\ UNCHANGED <<clocks, call, spent>>

\* DWT->CYCCNT is read, and the result computed: Micros(t, cycles).
ReadCount ==
  /\ reader = "count"
  /\ reader' = "none"
  /\ t' = 0 /\ cycles' = 0 /\ begun' = 0 /\ spent' = 0
  /\ UNCHANGED <<clocks, exclusive>>

getElapsedMicros == ReadTick \/ ReadCycles \/ StoreExclusive \/ ReadCount

-----------------------------------------------------------------------------
(* Properties, of the specification SysTick composes with these actions.   *)

TimeTypeOK ==
  /\ {uwTick, cycle_count, CYCCNT, t, cycles, begun} \subseteq 0 .. WIDTH - 1
  /\ phase \in 0 .. MICROS * f_mcu - 1 /\ spent \in 0 .. CallCycles
  /\ {pending, exclusive} \subseteq BOOLEAN
  /\ reader \in {"none", "again", "cycles", "store", "count"}

\* The unsigned distance from one reading to a later one.
From(a, b) == (b - a) % WIDTH

\* A call returns a time between its beginning and its end, wherever the tick
\* interrupt comes between its loads (driver.c 1960-1966), ...
ReadingIsOfNow ==
  [][ReadCount => From(begun, Micros(t, cycles)) <= From(begun, Now)]_timeVars

\* ... and what the clocks show does not go back when the tick is late
\* (driver.c 1971), apart from the wrap-around, nor forward by more than a tick.
ClocksAgree == [][From(Now, Now') <= MICROS]_timeVars
=============================================================================
