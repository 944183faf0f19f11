----------------------------- MODULE LimitInputs -----------------------------
(***************************************************************************)
(* The limit switches (driver.c): the EXTI lines that latch their edges,   *)
(* the NVIC vectors of those lines, the handler EXTI9_5_IRQHandler, the    *)
(* enabling and masking of the lines by limitsEnable, and the set-up of    *)
(* the lines in settings_changed.  A switch may change between any two     *)
(* steps.  The vectors have NVIC priority 2, so the handler is one step    *)
(* and the foreground makes none while it is pending.  The vectors and     *)
(* exti_irqn are not in the repository: every line has a vector of its     *)
(* own, as the loops of settings_changed that disable them show, and all   *)
(* of them lead to this handler.                                           *)
(***************************************************************************)
EXTENDS Naturals, FiniteSets

CONSTANTS
  Axis,           \* the axes with a limit switch, one entry of inputpin each
  First,          \* the axis of inputpin[0]
  Pin,            \* pin and EXTI line of each axis
  Bit,            \* bit of each axis in axes_signals_t
  ShiftedInput,   \* LIMIT_INMODE is a shift, as in uno_q_cnc_map.h, not GPIO_BITBAND
  PullupSettings  \* values of settings.limits.disable_pullup

ASSUME ConstantsAssumption ==
  /\ IsFiniteSet(Axis) /\ First \in Axis
  /\ Pin \in [Axis -> 5 .. 9] /\ Bit \in [Axis -> 0 .. 7]
  /\ \A a \in Axis : Pin[First] <= Pin[a]
  /\ \A a, b \in Axis : Pin[a] = Pin[b] \/ Bit[a] = Bit[b] => a = b
  /\ ShiftedInput \in BOOLEAN /\ PullupSettings \subseteq SUBSET Axis

VARIABLES
  high,          \* the axes whose input is at a high level
  invert, disable_pullup, hard_enabled,  \* settings.limits
  irq_mode,      \* input->mode.irq_mode
  rtsr, ftsr,    \* EXTI: lines that latch a rising and a falling edge
  imr,           \* EXTI: lines that are not masked
  pend,          \* EXTI: lines with a latched edge (RPR1, FPR1)
  nvic,          \* lines whose vector is enabled
  pc,            \* where settings_changed is
  homing,        \* the cycle of the last limitsEnable
  alarm,         \* history: this step called hal.limits.interrupt_callback
  owed           \* history: axes whose switch was hit and that owe a callback

settings == <<invert, disable_pullup, hard_enabled>>
exti     == <<irq_mode, rtsr, ftsr, imr, pend, nvic>>
vars     == <<high, settings, exti, pc, homing, alarm, owed>>

SymDiff(S, T) == (S \ T) \cup (T \ S)

\* The switches that are hit: high, or low where the setting inverts the input.
Triggered == SymDiff(high, invert)

\* After driver_init, with any settings and any switches.
Init ==
  /\ high \in SUBSET Axis /\ invert \in SUBSET Axis
  /\ disable_pullup \in PullupSettings /\ hard_enabled \in BOOLEAN
  /\ irq_mode = [a \in Axis |-> "none"]
  /\ rtsr = {} /\ ftsr = {} /\ imr = {} /\ pend = {} /\ nvic = {}
  /\ pc = "setup" /\ homing = {} /\ alarm = FALSE /\ owed = {}

-----------------------------------------------------------------------------
(* A switch, and the edge detector, which latches with or without the mask. *)

Enabled(a) == pc = "idle" /\ hard_enabled /\ a \notin homing

Switch(a) ==
  /\ high' = SymDiff(high, {a})
  /\ pend' = IF a \in (IF a \in high THEN ftsr ELSE rtsr) THEN pend \cup {a} ELSE pend
  /\ owed' = IF Enabled(a) /\ a \in SymDiff(high', invert) THEN owed \cup {a} ELSE owed \ {a}
  /\ alarm' = FALSE
  /\ UNCHANGED <<settings, irq_mode, rtsr, ftsr, imr, nvic, pc, homing>>

-----------------------------------------------------------------------------
(* The interrupt.                                                          *)

Pending == pend \cap imr \cap nvic # {}

\* limitsGetState, as the set of its bits.  A shifted read takes the low eight
\* bits of the port as they are.
limitsGetState ==
  IF ShiftedInput
  THEN SymDiff({Pin[a] : a \in {b \in high : Pin[b] < 8}}, {Bit[a] : a \in invert})
  ELSE {Bit[a] : a \in Triggered}

\* Mutant: the level is not looked at again.
core_pin_debounce_NoCheck(a) ==
  /\ alarm' = (limitsGetState # {})
  /\ imr' = imr \cup {a}

\* core_pin_debounce: the level must still be the one after the edge, and some bit
\* of the state set.  The line is unmasked in any case.
core_pin_debounce(a) ==
  /\ alarm' = /\ (a \in high) = (irq_mode[a] # "falling")
              /\ limitsGetState # {}
  /\ imr' = imr \cup {a}

\* The axis core_pin_irq serves: that of the lowest pin of ifg.
Lowest(ifg) == CHOOSE a \in ifg : \A b \in ifg : Pin[a] <= Pin[b]

\* EXTI9_5_IRQHandler: every latched edge is cleared, masked lines included, and
\* one of them is served.
EXTI9_5_IRQHandler ==
  /\ Pending
  /\ pend' = {}
  /\ core_pin_debounce(Lowest(pend))
  /\ owed' = IF alarm' THEN {} ELSE owed
  /\ UNCHANGED <<high, settings, irq_mode, rtsr, ftsr, nvic, pc, homing>>

-----------------------------------------------------------------------------
(* Enabling and masking.                                                   *)

At(label) == pc = label /\ ~Pending

\* gpio_irq_enable for each line: the edge of its mode and no mask, or the mask.
gpio_irq_enable(enabled) ==
  /\ rtsr' = (rtsr \ enabled) \cup {a \in enabled : irq_mode[a] = "rising"}
  /\ ftsr' = (ftsr \ enabled) \cup {a \in enabled : irq_mode[a] = "falling"}
  /\ imr' = enabled

\* Mutant: the axes of the homing cycle stay enabled.
limitsEnable_NotHoming(on, cycle) == gpio_irq_enable(IF on THEN Axis ELSE {})

\* limitsEnable.
limitsEnable(on, cycle) == gpio_irq_enable(IF on THEN Axis \ cycle ELSE {})

\* hal.limits.enable, called by the core when a homing cycle begins and ends.
HomingEnable(cycle) ==
  /\ At("idle")
  /\ limitsEnable(hard_enabled, cycle)
  /\ homing' = cycle
  /\ alarm' = FALSE
  /\ owed' = owed \ cycle
  /\ UNCHANGED <<high, settings, irq_mode, pend, nvic, pc>>

-----------------------------------------------------------------------------
(* settings_changed, the part that sets up the lines.                      *)

\* A setting is written: every vector is disabled first.
SettingsBegin ==
  /\ At("idle")
  /\ invert' \in SUBSET Axis /\ disable_pullup' \in PullupSettings
  /\ hard_enabled' \in BOOLEAN
  /\ nvic' = {}
  /\ pc' = "setup"
  /\ alarm' = FALSE /\ owed' = {}
  /\ UNCHANGED <<high, irq_mode, rtsr, ftsr, imr, pend, homing>>

\* limit_fei: the axes that interrupt on a falling edge.
FallingEdge == SymDiff(disable_pullup, invert)

\* Mutant: the edge does not follow the setting.
EdgeOf_AlwaysRising(a) == "rising"

EdgeOf(a) == IF a \in FallingEdge THEN "falling" ELSE "rising"

\* HAL_GPIO_Init sets the edges and unmasks every line, whatever hard_enabled
\* says; latched edges are cleared; of the vectors of the lines 5 to 9 the one of
\* input->pin is enabled, input being where the loop over inputpin has ended.
SettingsPins ==
  /\ At("setup")
  /\ irq_mode' = [a \in Axis |-> EdgeOf(a)]
  /\ rtsr' = {a \in Axis : EdgeOf(a) = "rising"}
  /\ ftsr' = {a \in Axis : EdgeOf(a) = "falling"}
  /\ imr' = Axis
  /\ pend' = {}
  /\ nvic' = {First}
  /\ pc' = "enable"
  /\ alarm' = FALSE
  /\ UNCHANGED <<high, settings, homing, owed>>

\* hal.limits.enable(hard_enabled, {0}).
SettingsEnable ==
  /\ At("enable")
  /\ limitsEnable(hard_enabled, {})
  /\ homing' = {}
  /\ pc' = "idle"
  /\ alarm' = FALSE
  /\ UNCHANGED <<high, settings, irq_mode, pend, nvic, owed>>

-----------------------------------------------------------------------------
Next ==
  \/ \E a \in Axis : Switch(a)
  \/ EXTI9_5_IRQHandler
  \/ \E cycle \in SUBSET Axis : HomingEnable(cycle)
  \/ SettingsBegin \/ SettingsPins \/ SettingsEnable

Spec == Init /\ [][Next]_vars

\* A pending interrupt is taken and settings_changed goes on.
FairSpec ==
  /\ Spec
  /\ WF_vars(EXTI9_5_IRQHandler)
  /\ WF_vars(SettingsPins \/ SettingsEnable)

-----------------------------------------------------------------------------
(* Properties.                                                             *)

\* The registers stay in their ranges, and a line latches one edge at most.
TypeOK ==
  /\ high \subseteq Axis /\ invert \subseteq Axis /\ disable_pullup \in PullupSettings
  /\ hard_enabled \in BOOLEAN /\ alarm \in BOOLEAN
  /\ irq_mode \in [Axis -> {"none", "rising", "falling"}]
  /\ rtsr \subseteq Axis /\ ftsr \subseteq Axis /\ rtsr \cap ftsr = {}
  /\ imr \subseteq Axis /\ pend \subseteq Axis /\ nvic \subseteq {First}
  /\ pc \in {"idle", "setup", "enable"} /\ homing \subseteq Axis /\ owed \subseteq Axis

\* A callback finds the switch of the axis hit: an edge that was latched under the
\* mask, in a homing cycle or before, and a bounce, raise no alarm afterwards.
AlarmIsTrue == alarm => First \in Triggered

\* With hard limits off, and for an axis in its homing cycle, there is no callback.
QuietWhenMasked == [][alarm' /\ pc = "idle" => Enabled(First)]_vars

\* When the switch of the first axis is hit while hard limits are on, the core is
\* called, unless it is released or masked before.
FirstLimitFires == First \in owed ~> First \notin owed

\* "Enable pin interrupt" (driver.c 1994), after "Enable/disable limit pins
\* interrupt" (1419): the same for every axis.
EveryLimitFires == \A a \in Axis : a \in owed ~> a \notin owed

\* "Each bitfield bit indicates an axis limit, where triggered is 1 and not
\* triggered is 0." (driver.c 1447).
StateNamesAxes == limitsGetState = {Bit[a] : a \in Triggered}

\* "Enable/disable limit pins interrupt" (driver.c 1419): no callback while hard
\* limits are off, settings_changed included.
OffMeansOff == alarm => hard_enabled
=============================================================================
