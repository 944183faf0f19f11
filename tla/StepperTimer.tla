---------------------------- MODULE StepperTimer ----------------------------
(***************************************************************************)
(* The step pulses (driver.c): TIM5 counts down from ARR and wraps with    *)
(* UIF; the update interrupt calls the core, which asks for a pulse; the   *)
(* compare channels CC1 and CC2 of the same timer end the pulse and start  *)
(* a delayed one.  The handler moves CNT up when a pulse would not fit     *)
(* into what is left of the period.  The handler has NVIC priority 0; the  *)
(* foreground wakes the timer, stops it and changes the settings, and its  *)
(* accesses to DIER are steps of their own.                                *)
(*                                                                         *)
(* Pins are modelled by their logical level: step is the set of axes whose *)
(* step output is active, dir the set of axes whose direction is reversed. *)
(* Units are ticks of the timer.                                           *)
(***************************************************************************)
EXTENDS Integers, FiniteSetsExt

CONSTANTS
  Axes,
  T_OFF,        \* step_pulse.t_off: from the start of a pulse to its end
  T_OFF_MIN,    \* step_pulse.t_off_min: from its end to the next interrupt
  T_ON,         \* step_pulse.t_on when pulses are delayed
  T_MIN_PERIOD, \* step_pulse.t_min_period
  Periods,      \* what the core asks for with cycles_per_tick
  WAKE,         \* f_step_timer / 500
  LATENCY,      \* bound on the ticks between a request and its handler
  WakeEarly     \* may the timer be woken while a pulse is in flight?

ASSUME ConstantsAssumption ==
  /\ T_OFF \in Nat \ {0} /\ T_OFF_MIN \in Nat \ {0} /\ T_ON \in Nat \ {0}
  /\ T_MIN_PERIOD \in Nat \ {0} /\ Periods \subseteq Nat /\ Periods # {}
  /\ WAKE \in Nat \ {0} /\ LATENCY \in Nat /\ WakeEarly \in BOOLEAN

VARIABLES
  cnt, arr, ccr1, ccr2,          \* CNT, ARR (preloaded), CCR1, CCR2
  sr, dier,                      \* SR and DIER, as sets of flag names
  cen,                           \* CR1.CEN
  step, dir,                     \* the outputs
  out,                           \* step_pulse.out
  delayed,                       \* hal.stepper.pulse_start is the delayed version
  pc, load,                      \* the foreground; DIER between load and store
  late,                          \* ticks for which the interrupt has been pending
  high, low, setup,              \* history: ticks since the pulse began and ended, and
                                 \* since the direction changed, none counted too far
  squeezed,                      \* history: the period was over before the pulse
  asked                          \* history: axes whose delayed pulse is still owed

counter == <<cnt, arr, ccr1, ccr2, cen>>
flags   == <<sr, dier>>
pins    == <<step, dir>>
fore    == <<pc, load, delayed>>
history == <<high, low, setup, squeezed>>
vars    == <<counter, flags, pins, out, fore, late, history, asked>>

t_on_off_min  == T_OFF + T_OFF_MIN
t_dly_off_min == T_ON + t_on_off_min

Init ==
  /\ cnt = 0 /\ arr = 0 /\ ccr1 = 0 /\ ccr2 = 0 /\ cen = FALSE
  /\ sr = {} /\ dier = {}
  /\ step = {} /\ dir = {} /\ out = {}
  /\ delayed \in BOOLEAN
  /\ pc = "idle" /\ load = {} /\ late = 0
  /\ high = T_OFF /\ low = T_OFF_MIN /\ setup = T_ON /\ squeezed = FALSE
  /\ asked = {}

-----------------------------------------------------------------------------
(* The timer.                                                              *)

Pending == sr \cap dier # {}

UpTo(limit, t) == IF t < limit THEN t + 1 ELSE limit

\* One tick: CNT goes down, or takes ARR and sets UIF; a channel whose compare
\* register is reached sets its flag.
Tick ==
  /\ cen
  /\ Pending => late < LATENCY
  /\ late' = IF Pending THEN late + 1 ELSE 0
  /\ cnt' = IF cnt = 0 THEN arr ELSE cnt - 1
  /\ sr' = sr \cup (IF cnt = 0 THEN {"UIF"} ELSE {})
              \cup (IF cnt' = ccr1 THEN {"CC1"} ELSE {})
              \cup (IF cnt' = ccr2 THEN {"CC2"} ELSE {})
  /\ high' = UpTo(T_OFF, high) /\ low' = UpTo(T_OFF_MIN, low)
  /\ setup' = UpTo(T_ON, setup)
  /\ UNCHANGED <<arr, ccr1, ccr2, cen, dier, pins, out, fore, squeezed, asked>>

-----------------------------------------------------------------------------
(* The pulses.                                                             *)

\* stepper_step_out and stepper_dir_out write the pins of all axes.
stepper_step_out(s) ==
  /\ step' = s
  /\ high' = IF step = {} /\ s # {} THEN 0 ELSE high
  /\ low' = IF step # {} /\ s = {} THEN 0 ELSE low

stepper_dir_out(d) == dir' = d /\ setup' = IF d # dir THEN 0 ELSE setup

\* CNT, moved up if the period is over or less than room is left of it.
Room(over, room) == IF over \/ cnt < room THEN room ELSE cnt

\* Mutant: a compare flag of an earlier turn of the counter is left set.
_stepper_step_out_KeepsSR(s, over, enabled) ==
  /\ stepper_step_out(s)
  /\ cnt' = Room(over, t_on_off_min)
  /\ ccr1' = cnt' - T_OFF
  /\ sr' = sr \ {"UIF"}
  /\ dier' = enabled \cup {"CC1"}

\* Mutant: the pulse is measured from where CNT was before it was moved.
_stepper_step_out_OldCount(s, over, enabled) ==
  /\ stepper_step_out(s)
  /\ cnt' = Room(over, t_on_off_min)
  /\ ccr1' = cnt - T_OFF
  /\ sr' = {}
  /\ dier' = enabled \cup {"CC1"}

\* _stepper_step_out: pins on, CC1 armed for their end.  A difference below zero
\* stands for its 32-bit complement, which CNT does not reach.
_stepper_step_out(s, over, enabled) ==
  /\ stepper_step_out(s)
  /\ cnt' = Room(over, t_on_off_min)
  /\ ccr1' = cnt' - T_OFF
  /\ sr' = {}
  /\ dier' = enabled \cup {"CC1"}

\* The direction pins of the axes in d change.
NewDir(d) == (dir \ d) \cup (d \ dir)

\* A pulse with nothing to wait for: stepperPulseStart, and what is left of
\* stepperPulseStartDelayed without a changed axis that steps.
PulseNow(s, d, enabled) ==
  /\ stepper_dir_out(NewDir(d))
  /\ IF s # {} THEN _stepper_step_out(s, FALSE, enabled)
               ELSE /\ sr' = {} /\ dier' = enabled
                    /\ UNCHANGED <<cnt, ccr1, step, high, low>>
  /\ UNCHANGED <<ccr2, out, asked>>

\* Mutant: the delay is set up without making room for it.
PulseLater_NoRoom(s, d, enabled) ==
  /\ stepper_dir_out(NewDir(d))
  /\ out' = s /\ asked' = s
  /\ cnt' = cnt
  /\ ccr2' = cnt' - T_ON
  /\ sr' = {}
  /\ dier' = enabled \cup {"CC2"}
  /\ UNCHANGED <<ccr1, step, high, low>>

\* Mutant: a compare flag of an earlier turn of the counter is left set.
PulseLater_KeepsSR(s, d, enabled) ==
  /\ stepper_dir_out(NewDir(d))
  /\ out' = s /\ asked' = s
  /\ cnt' = Room(FALSE, t_dly_off_min)
  /\ ccr2' = cnt' - T_ON
  /\ sr' = sr \ {"UIF"}
  /\ dier' = enabled \cup {"CC2"}
  /\ UNCHANGED <<ccr1, step, high, low>>

\* stepperPulseStartDelayed, an axis that steps has changed direction: the pins
\* wait in step_pulse.out, CC2 is armed for their start.
PulseLater(s, d, enabled) ==
  /\ stepper_dir_out(NewDir(d))
  /\ out' = s /\ asked' = s
  /\ cnt' = Room(FALSE, t_dly_off_min)
  /\ ccr2' = cnt' - T_ON
  /\ sr' = {}
  /\ dier' = enabled \cup {"CC2"}
  /\ UNCHANGED <<ccr1, step, high, low>>

\* hal.stepper.pulse_start for a step of the axes s and a new direction of d.
PulseStart(s, d, enabled) ==
  IF delayed /\ s \cap d # {} THEN PulseLater(s, d, enabled) ELSE PulseNow(s, d, enabled)

-----------------------------------------------------------------------------
(* STEPPER_TIMER_IRQHandler.                                               *)

Handler == late' = 0 /\ UNCHANGED <<cen, fore>>

\* CC2 comes first: the delayed pulse starts.
DelayOver ==
  /\ "CC2" \in sr \cap dier
  /\ _stepper_step_out(out, "UIF" \in sr, dier \ {"CC2"})
  /\ asked' = {}
  /\ Handler
  /\ UNCHANGED <<arr, ccr2, dir, out, setup, squeezed>>

\* Mutant: no gap is kept behind the pulse.
PulseOver_NoGap ==
  /\ "CC1" \in sr \cap dier /\ "CC2" \notin sr \cap dier
  /\ stepper_step_out({})
  /\ cnt' = cnt
  /\ squeezed' = ("UIF" \in sr)
  /\ sr' = sr \ {"CC1"} /\ dier' = dier \ {"CC1"}
  /\ Handler
  /\ UNCHANGED <<arr, ccr1, ccr2, dir, out, setup, asked>>

\* Then CC1: the pulse ends.  UIF, if it is set, stays set.
PulseOver ==
  /\ "CC1" \in sr \cap dier /\ "CC2" \notin sr \cap dier
  /\ stepper_step_out({})
  /\ cnt' = Room("UIF" \in sr, T_OFF_MIN)
  /\ squeezed' = ("UIF" \in sr)
  /\ sr' = sr \ {"CC1"} /\ dier' = dier \ {"CC1"}
  /\ Handler
  /\ UNCHANGED <<arr, ccr1, ccr2, dir, out, setup, asked>>

\* stepperCyclesPerTick, the period of the next segment.
SetPeriod(p) == arr' = IF p < T_MIN_PERIOD THEN T_MIN_PERIOD ELSE p

\* Then UIF: hal.stepper.interrupt_callback.  The core starts a pulse, or none,
\* and may load a new segment; SR was cleared before.
Callback ==
  /\ "UIF" \in sr \cap dier /\ {"CC1", "CC2"} \cap sr \cap dier = {}
  /\ \E s, d \in SUBSET Axes : PulseStart(s, d, dier)
  /\ UNCHANGED arr \/ \E p \in Periods : SetPeriod(p)
  /\ Handler
  /\ UNCHANGED squeezed

\* The callback finds no segment: it starts the pulse of the last one and calls
\* hal.stepper.go_idle(false), which leaves the channels armed.
LastCallback ==
  /\ "UIF" \in sr \cap dier /\ {"CC1", "CC2"} \cap sr \cap dier = {}
  /\ \E s, d \in SUBSET Axes : PulseStart(s, d, dier \ {"UIF"})
  /\ Handler
  /\ UNCHANGED <<arr, squeezed>>

-----------------------------------------------------------------------------
(* The foreground.                                                         *)

At(label) == pc = label /\ ~Pending

\* Mutant: the counter is not started.
stepperWakeUp_NoStart ==
  /\ At("idle")
  /\ "UIF" \notin dier
  /\ WakeEarly \/ (step = {} /\ asked = {})
  /\ arr' = WAKE /\ cnt' = WAKE
  /\ sr' = {} /\ dier' = {"UIF"}
  /\ UNCHANGED <<ccr1, ccr2, cen, pins, out, fore, late, history, asked>>

\* stepperWakeUp: EGR sets UIF with the reload, SR = 0 forgets it, and the
\* assignment to DIER disarms both channels.  The core wakes a stopped timer only.
stepperWakeUp ==
  /\ At("idle")
  /\ "UIF" \notin dier
  /\ WakeEarly \/ (step = {} /\ asked = {})
  /\ arr' = WAKE /\ cnt' = WAKE
  /\ sr' = {} /\ dier' = {"UIF"}
  /\ cen' = TRUE
  /\ UNCHANGED <<ccr1, ccr2, pins, out, fore, late, history, asked>>

\* stepperGoIdle(true), on a reset and in settings_changed: DIER is read, ...
GoIdleLoad ==
  /\ At("idle")
  /\ load' = dier
  /\ pc' = "store"
  /\ UNCHANGED <<counter, flags, pins, out, delayed, late, history, asked>>

\* ... written without UIE, ...
GoIdleStore ==
  /\ At("store")
  /\ dier' = load \ {"UIF"}
  /\ pc' = "clear"
  /\ UNCHANGED <<counter, sr, pins, out, load, delayed, late, history, asked>>

\* ... and the pins are cleared.  settings_changed chooses the pulse version after.
GoIdleClear ==
  /\ At("clear")
  /\ stepper_dir_out({}) /\ stepper_step_out({})
  /\ asked' = {}
  /\ pc' = "idle"
  /\ delayed' \in BOOLEAN
  /\ UNCHANGED <<counter, flags, out, load, late, squeezed>>

-----------------------------------------------------------------------------
Next ==
  \/ Tick
  \/ DelayOver \/ PulseOver \/ Callback \/ LastCallback
  \/ stepperWakeUp
  \/ GoIdleLoad \/ GoIdleStore \/ GoIdleClear

Spec == Init /\ [][Next]_vars

\* Time goes on, a pending interrupt is taken, go_idle goes on.
FairSpec ==
  /\ Spec
  /\ WF_vars(Tick)
  /\ WF_vars(DelayOver \/ PulseOver \/ Callback \/ LastCallback)
  /\ WF_vars(GoIdleStore \/ GoIdleClear)

-----------------------------------------------------------------------------
(* Properties.                                                             *)

Channel == {"UIF", "CC1", "CC2"}

\* The registers stay in their ranges; in particular no compare value is negative.
TypeOK ==
  /\ cnt \in Nat /\ arr \in Nat /\ ccr1 \in Nat /\ ccr2 \in Nat
  /\ sr \subseteq Channel /\ dier \subseteq Channel /\ load \subseteq Channel
  /\ cen \in BOOLEAN /\ delayed \in BOOLEAN /\ squeezed \in BOOLEAN
  /\ step \subseteq Axes /\ dir \subseteq Axes /\ out \subseteq Axes /\ asked \subseteq Axes
  /\ pc \in {"idle", "store", "clear"} /\ late \in 0 .. LATENCY
  /\ high \in 0 .. T_OFF /\ low \in 0 .. T_OFF_MIN /\ setup \in 0 .. T_ON

\* A pulse that a stop does not cut lasts as long as the setting says, however
\* little of the period was left when it began and whatever the latency.
PulseWidth ==
  [][step # {} /\ step' = {} => high >= T_OFF \/ pc = "clear"]_vars

\* A pulse that a stop has given up begins all the same.
Stray == DelayOver /\ asked = {}

\* Every pulse the core asks for is an edge of its own: when it asks, the pins are
\* low and the delayed pulse before has begun; and before a pulse they are low for
\* the minimum time, unless the handler was so late that the period was over before
\* the pulse in front of it.
PulseGap ==
  [][/\ Callback \/ LastCallback => step = {} /\ asked = {}
     /\ step = {} /\ step' # {} => low >= T_OFF_MIN \/ squeezed \/ Stray]_vars

\* The pins of a delayed pulse rise T_ON after the direction has changed, and the
\* direction does not change while they are active.
DirIsStable ==
  [][/\ DelayOver => setup >= T_ON \/ Stray
     /\ dir' # dir => step = {} \/ pc = "clear"]_vars

\* A pulse ends, and a delayed one begins or is given up by a stop.
PulseEnds == (step # {} ~> step = {}) /\ (asked # {} ~> asked = {})

\* While the timer runs, the core is called again and again.
CoreIsCalled ==
  []<>("UIF" \notin dier) \/ []<><<Callback \/ LastCallback>>_vars

\* "Disables stepper driver interrupts" (driver.c 1166): a delayed pulse that was
\* still to begin when go_idle(true) cleared the pins does not begin after it.
StaysClear == [][~Stray]_vars
=============================================================================
