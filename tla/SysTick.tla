------------------------------ MODULE SysTick -------------------------------
(***************************************************************************)
(* The running controller and its one interval timer: the foreground calls *)
(* driver_delay and getElapsedMicros, one after the other, and             *)
(* SysTick_Handler comes between any two steps of theirs.  It moves both   *)
(* the clocks (ElapsedTime) and the delay (DriverDelay).                   *)
(***************************************************************************)
EXTENDS DriverDelay, ElapsedTime

vars == <<delayVars, timeVars>>

Init == DelayInit /\ TimeInit

\* A delay that blocks, or one with a callback.
Delay ==
  /\ reader = "none"
  /\ \E n \in Delays : Call(n, NULL) \/ (calls < MaxCalls /\ Call(n, calls + 1))
  /\ UNCHANGED timeVars

InDelay == (Arm \/ WaitOver) /\ UNCHANGED timeVars

\* The core asks for the time.
GetMicros == pc = "idle" /\ getElapsedMicros /\ NoDelay

InGetMicros == reader # "none" /\ GetMicros

Time == Cycle /\ NoDelay

\* SysTick_Handler: the HAL's tick first, Driver_IncTick second.
Interrupt == HAL_IncTick /\ Driver_IncTick

Next == Delay \/ InDelay \/ GetMicros \/ Time \/ Interrupt

Spec == Init /\ [][Next]_vars

\* Time passes, the timer interrupts, and a call that has begun goes on.  Nobody need
\* ask for a delay or for the time.
FairSpec ==
  Spec /\ WF_vars(InDelay) /\ WF_vars(InGetMicros) /\ WF_vars(Time) /\ WF_vars(Interrupt)

-----------------------------------------------------------------------------
\* The variables of the two modules stay in their ranges.
TypeOK == DelayTypeOK /\ TimeTypeOK
=============================================================================
