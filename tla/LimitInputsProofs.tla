-------------------------- MODULE LimitInputsProofs --------------------------
(***************************************************************************)
(* The limit interrupt calls the core for a switch that is hit, and never  *)
(* while it is masked, for every set of axes, every order of their pins    *)
(* and both ways in which the inputs are read, as long as the pull-up of   *)
(* the first input stays on.                                               *)
(***************************************************************************)
EXTENDS LimitInputs, TLAPS

\* The condition of AlarmsAreTrue: the edge limit_fei selects is the one at which the
\* switch is hit only for an input with its pull-up.
FirstPulledUp == \A pullups \in PullupSettings : First \notin pullups

\* While the vector of the first line is enabled the edge and the level follow the
\* present settings.
IEdge == nvic # {} => irq_mode[First] = EdgeOf(First)

\* Between two calls of settings_changed the first line is masked when it should be.
IMask == pc = "idle" => (First \in imr => Enabled(First))

IInv == TypeOK /\ IEdge /\ IMask

-----------------------------------------------------------------------------
\* The handler serves the first axis: only its vector is enabled, and its pin is the
\* lowest.
LEMMA ServesFirst ==
  ASSUME TypeOK, Pending
  PROVE  Lowest(pend) = First /\ First \in imr /\ nvic # {}
<1>1. First \in pend /\ First \in imr /\ nvic # {}
  BY DEF TypeOK, Pending
<1>2. ASSUME NEW a \in pend, \A b \in pend : Pin[a] <= Pin[b]
      PROVE  a = First
  <2>1. a \in Axis /\ First \in Axis /\ Pin[a] \in 5 .. 9 /\ Pin[First] \in 5 .. 9
    BY ConstantsAssumption DEF TypeOK
  <2>2. Pin[a] <= Pin[First] /\ Pin[First] <= Pin[a]
    BY <1>1, <1>2, <2>1, ConstantsAssumption
  <2>3. Pin[a] = Pin[First]
    BY <2>1, <2>2
  <2> QED BY <2>1, <2>3, ConstantsAssumption
<1>3. \A b \in pend : Pin[First] <= Pin[b]
  BY ConstantsAssumption DEF TypeOK
<1> QED BY <1>1, <1>2, <1>3 DEF Lowest

\* Enabling the lines keeps the registers in their ranges.
LEMMA LinesEnabled ==
  ASSUME TypeOK, NEW enabled \in SUBSET Axis, gpio_irq_enable(enabled)
  PROVE  /\ rtsr' \subseteq Axis /\ ftsr' \subseteq Axis /\ rtsr' \cap ftsr' = {}
         /\ imr' = enabled
<1>1. /\ rtsr' = (rtsr \ enabled) \cup {a \in enabled : irq_mode[a] = "rising"}
      /\ ftsr' = (ftsr \ enabled) \cup {a \in enabled : irq_mode[a] = "falling"}
      /\ imr' = enabled
  BY DEF gpio_irq_enable
<1> QED BY <1>1 DEF TypeOK

LEMMA InitInv == Init => IInv
BY ConstantsAssumption DEF Init, IInv, TypeOK, IEdge, IMask

LEMMA StepInv ==
  ASSUME IInv, [Next]_vars
  PROVE  IInv'
<1> USE ConstantsAssumption DEF IInv
<1>1. ASSUME NEW a \in Axis, Switch(a)
      PROVE  IInv'
  <2>1. /\ high' \subseteq Axis /\ pend' \subseteq Axis /\ owed' \subseteq Axis
        /\ alarm' = FALSE
        /\ UNCHANGED <<invert, disable_pullup, hard_enabled, irq_mode, rtsr, ftsr, imr, nvic,
                       pc, homing>>
    BY <1>1 DEF Switch, SymDiff, TypeOK, settings
  <2> QED BY <2>1 DEF TypeOK, IEdge, IMask, EdgeOf, FallingEdge, Enabled
<1>2. CASE EXTI9_5_IRQHandler
  <2>1. /\ pend' = {} /\ imr' = imr \cup {First} /\ First \in imr
        /\ alarm' \in BOOLEAN /\ owed' \in {owed, {}}
        /\ UNCHANGED <<high, invert, disable_pullup, hard_enabled, irq_mode, rtsr, ftsr, nvic,
                       pc, homing>>
    BY <1>2, ServesFirst DEF EXTI9_5_IRQHandler, core_pin_debounce, settings
  <2> QED BY <2>1 DEF TypeOK, IEdge, IMask, EdgeOf, FallingEdge, Enabled
<1>3. ASSUME NEW cycle \in SUBSET Axis, HomingEnable(cycle)
      PROVE  IInv'
  <2> DEFINE on == IF hard_enabled THEN Axis \ cycle ELSE {}
  <2>1. /\ gpio_irq_enable(on) /\ homing' = cycle /\ alarm' = FALSE /\ owed' \subseteq owed
        /\ pc' = "idle"
        /\ UNCHANGED <<high, invert, disable_pullup, hard_enabled, irq_mode, pend, nvic>>
    BY <1>3 DEF HomingEnable, limitsEnable, settings, At
  <2>2. on \in SUBSET Axis
    OBVIOUS
  <2> HIDE DEF on
  <2>3. /\ rtsr' \subseteq Axis /\ ftsr' \subseteq Axis /\ rtsr' \cap ftsr' = {} /\ imr' = on
    BY <2>1, <2>2, LinesEnabled
  <2>4. TypeOK' /\ IEdge'
    BY <2>1, <2>2, <2>3 DEF TypeOK, IEdge, EdgeOf, FallingEdge
  <2>5. IMask'
    BY <2>1, <2>3 DEF IMask, Enabled, on
  <2> QED BY <2>4, <2>5
<1>4. CASE SettingsBegin
  BY <1>4 DEF SettingsBegin, TypeOK, IEdge, IMask
<1>5. CASE SettingsPins
  <2>1. \A a \in Axis : EdgeOf(a)' = EdgeOf(a) /\ EdgeOf(a) \in {"rising", "falling"}
    BY <1>5 DEF SettingsPins, settings, EdgeOf, FallingEdge
  <2>2. TypeOK'
    BY <1>5, <2>1 DEF SettingsPins, TypeOK, settings
  <2>3. IEdge' /\ IMask'
    BY <1>5, <2>1 DEF SettingsPins, IEdge, IMask
  <2> QED BY <2>2, <2>3
<1>6. CASE SettingsEnable
  <2> DEFINE on == IF hard_enabled THEN Axis \ {} ELSE {}
  <2>1. /\ gpio_irq_enable(on) /\ homing' = {} /\ alarm' = FALSE /\ pc' = "idle"
        /\ UNCHANGED <<high, invert, disable_pullup, hard_enabled, irq_mode, pend, nvic, owed>>
    BY <1>6 DEF SettingsEnable, limitsEnable, settings
  <2>2. on \in SUBSET Axis
    OBVIOUS
  <2> HIDE DEF on
  <2>3. /\ rtsr' \subseteq Axis /\ ftsr' \subseteq Axis /\ rtsr' \cap ftsr' = {} /\ imr' = on
    BY <2>1, <2>2, LinesEnabled
  <2>4. TypeOK' /\ IEdge'
    BY <2>1, <2>2, <2>3 DEF TypeOK, IEdge, EdgeOf, FallingEdge
  <2>5. IMask'
    BY <2>1, <2>3 DEF IMask, Enabled, on
  <2> QED BY <2>4, <2>5
<1>7. CASE UNCHANGED vars
  BY <1>7 DEF vars, settings, exti, TypeOK, IEdge, IMask, EdgeOf, FallingEdge, Enabled
<1> QED BY <1>1, <1>2, <1>3, <1>4, <1>5, <1>6, <1>7 DEF Next

\* A callback: the switch of the first axis is hit, and its line was not masked.
LEMMA AlarmStep ==
  ASSUME IInv, [Next]_vars, alarm', ~UNCHANGED vars
  PROVE  /\ First \in imr
         /\ UNCHANGED <<high, invert>>
         /\ FirstPulledUp => First \in Triggered
<1>1. EXTI9_5_IRQHandler
  BY DEF Next, Switch, HomingEnable, SettingsBegin, SettingsPins, SettingsEnable
<1>2. /\ First \in imr /\ nvic # {} /\ UNCHANGED <<high, invert>>
      /\ (First \in high) = (irq_mode[First] # "falling")
  BY <1>1, ServesFirst DEF EXTI9_5_IRQHandler, core_pin_debounce, IInv, settings
<1>3. irq_mode[First] = EdgeOf(First)
  BY <1>2 DEF IInv, IEdge
<1>4. ASSUME FirstPulledUp
      PROVE  First \in Triggered
  <2>1. First \notin disable_pullup
    BY <1>4 DEF FirstPulledUp, IInv, TypeOK
  <2>2. EdgeOf(First) = "falling" <=> First \in invert
    BY <2>1 DEF EdgeOf, FallingEdge, SymDiff
  <2> QED BY <1>2, <1>3, <2>2 DEF Triggered, SymDiff
<1> QED BY <1>2, <1>4

\* The registers stay in their ranges, and no line latches both edges.
THEOREM LimitTypes == Spec => []TypeOK
<1>1. IInv => TypeOK
  BY DEF IInv
<1> QED BY <1>1, InitInv, StepInv, PTL DEF Spec

\* driver.c 3164-3188 and 3350-3356: a callback finds the switch of the first axis hit,
\* whatever was latched under the mask.
THEOREM AlarmsAreTrue ==
  ASSUME FirstPulledUp
  PROVE  Spec => []AlarmIsTrue
<1>1. Init => AlarmIsTrue
  BY DEF Init, AlarmIsTrue
<1>2. IInv /\ AlarmIsTrue /\ [Next]_vars => AlarmIsTrue'
  <2> SUFFICES ASSUME IInv, AlarmIsTrue, [Next]_vars, alarm'
               PROVE  First \in Triggered'
    BY DEF AlarmIsTrue
  <2>1. CASE UNCHANGED vars
    BY <2>1 DEF AlarmIsTrue, vars, settings, Triggered
  <2>2. CASE ~UNCHANGED vars
    BY <2>2, AlarmStep DEF Triggered
  <2> QED BY <2>1, <2>2
<1> QED BY <1>1, <1>2, InitInv, StepInv, PTL DEF Spec

\* driver.c 1419-1443 and 1979-1996: outside settings_changed there is no callback while
\* hard limits are off or the first axis is in its homing cycle.
THEOREM MaskedIsQuiet == Spec => QuietWhenMasked
<1>1. IInv /\ [Next]_vars => [alarm' /\ pc = "idle" => Enabled(First)]_vars
  <2> SUFFICES ASSUME IInv, Next, ~UNCHANGED vars, alarm', pc = "idle"
               PROVE  Enabled(First)
    OBVIOUS
  <2>1. First \in imr
    BY AlarmStep
  <2> QED BY <2>1 DEF IInv, IMask
<1> QED BY <1>1, InitInv, StepInv, PTL DEF Spec, QuietWhenMasked
=============================================================================
