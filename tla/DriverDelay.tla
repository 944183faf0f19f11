----------------------------- MODULE DriverDelay -----------------------------
(***************************************************************************)
(* driver_delay (driver.c) and the SysTick interrupt that counts it down.  *)
(* A delay without a callback blocks the caller, one with a callback       *)
(* returns at once; both use the one variable delay.  The interrupt comes  *)
(* between any two instructions of the foreground, also between the stores *)
(* to delay.ms and to delay.callback, though not twice there: it comes     *)
(* every millisecond.  A callback asks for no delay of its own.  The       *)
(* module SysTick composes these actions with the clocks, Boot with the    *)
(* start.                                                                  *)
(***************************************************************************)
EXTENDS Naturals

CONSTANTS
  Delays,      \* the times that are asked for, in ms
  MaxCalls     \* bound on the delays with a callback

ASSUME ConstantsAssumption ==
  /\ Delays \subseteq Nat /\ MaxCalls \in Nat

NULL == 0      \* callbacks are numbered 1, 2, ... as they are passed

VARIABLES
  ms, callback,  \* delay
  pc, arg, want, \* the foreground, and the arguments of driver_delay
  calls,         \* callbacks passed so far
  live,          \* history: the callbacks that are to be called, at most one
  called,        \* history: the callback called in this step, or NULL
  ticks          \* history: interrupts since delay.ms was stored

delay     == <<ms, callback>>
delayVars == <<delay, pc, arg, want, calls, live, called, ticks>>

\* delay.ms starts at 1, to be counted down by the first interrupt.
DelayInit ==
  /\ ms = 1 /\ callback = NULL
  /\ pc = "idle" /\ arg = NULL /\ want = 1
  /\ calls = 0 /\ live = {} /\ called = NULL /\ ticks = 0

-----------------------------------------------------------------------------
(* The foreground.                                                         *)

\* Called with a time and a callback; the time 0 calls it at once.  A new delay
\* replaces the one before.
Call(n, cb) ==
  /\ pc = "idle"
  /\ calls' = IF cb = NULL THEN calls ELSE cb
  /\ ms' = n
  /\ ticks' = 0 /\ want' = n
  /\ IF n = 0
     THEN /\ callback' = NULL /\ called' = cb /\ live' = {}
          /\ UNCHANGED <<pc, arg>>
     ELSE /\ arg' = cb /\ pc' = "arm"
          /\ live' = IF cb = NULL THEN {} ELSE {cb}
          /\ called' = NULL
          /\ UNCHANGED callback

\* delay.callback = callback; without one the caller waits.
Arm ==
  /\ pc = "arm"
  /\ callback' = arg
  /\ pc' = IF arg = NULL THEN "wait" ELSE "idle"
  /\ called' = NULL
  /\ UNCHANGED <<ms, arg, want, calls, live, ticks>>

\* while(delay.ms) is left.
WaitOver ==
  /\ pc = "wait"
  /\ ms = 0
  /\ pc' = "idle"
  /\ called' = NULL
  /\ UNCHANGED <<delay, arg, want, calls, live, ticks>>

\* A step of something else.
NoDelay == called' = NULL /\ UNCHANGED <<delay, pc, arg, want, calls, live, ticks>>

-----------------------------------------------------------------------------
(* The interrupt.                                                          *)

\* Mutant: the callback stays, and a count that is already zero expires again.
Expire_Again ==
  /\ ms <= 1
  /\ called' = callback /\ live' = live \ {callback}
  /\ ms' = 0
  /\ UNCHANGED callback

\* Mutant: the count that expires is forgotten, not called.
Expire_Silent ==
  /\ ms = 1
  /\ ms' = 0 /\ callback' = NULL /\ called' = NULL
  /\ UNCHANGED live

\* The count reaches zero: the callback is called, if there is one.
Expire ==
  /\ ms = 1
  /\ ms' = 0 /\ callback' = NULL
  /\ called' = callback /\ live' = live \ {callback}

CountDown ==
  /\ ms # 1
  /\ ms' = IF ms = 0 THEN 0 ELSE ms - 1
  /\ called' = NULL
  /\ UNCHANGED <<callback, live>>

\* Mutant: SysTick_Handler counts HAL time only, as if the call were missing.
Driver_IncTick_Missing ==
  /\ called' = NULL
  /\ ticks' = IF ticks < want THEN ticks + 1 ELSE ticks
  /\ UNCHANGED <<delay, calls, live, pc, arg, want>>

\* SysTick_Handler calls Driver_IncTick.  Ticks past the time asked for are not
\* told apart.
Driver_IncTick ==
  /\ pc = "arm" => ticks = 0
  /\ Expire \/ CountDown
  /\ ticks' = IF ticks < want THEN ticks + 1 ELSE ticks
  /\ UNCHANGED <<pc, arg, want, calls>>

-----------------------------------------------------------------------------
(* Properties, of the specification SysTick composes with these actions.   *)

\* The counter stays below the longest time asked for.
DelayTypeOK ==
  /\ ms \in 0 .. want /\ callback \in 0 .. MaxCalls
  /\ pc \in {"idle", "arm", "wait"} /\ arg \in 0 .. MaxCalls
  /\ want \in Delays \cup {1} /\ calls \in 0 .. MaxCalls
  /\ live \subseteq 1 .. MaxCalls /\ called \in 0 .. MaxCalls /\ ticks \in 0 .. want

\* A callback that no later delay replaces is called, ...
CallbackComes == \A k \in 1 .. MaxCalls : k \in live ~> k \notin live

\* ... once, not before its time, and not after it was replaced; a wait is not
\* cut short either.
OnTime ==
  [][/\ Driver_IncTick /\ called' # NULL => called' \in live /\ ticks' >= want
     /\ WaitOver => ticks >= want]_delayVars
=============================================================================
