---------------------------- MODULE TriacProofs -----------------------------
(***************************************************************************)
(* The safety of the heater switch for every set of temperatures and of P  *)
(* words, every modulus of the tick counter and every sampling interval    *)
(* shorter than one turn of it, with resets that preempt the transfers and *)
(* without.                                                                *)
(***************************************************************************)
EXTENDS Triac, TLAPS

\* A level that is about to be sent is the one the dimmer should have, unless a reset
\* has come since.
SendingOK ==
  sending # NoLevel =>
    /\ running
    /\ IF s_enabled THEN sending = s_level ELSE sending = 0 \/ crossed

\* The switch and the dimmer, with their types.
SwitchOK ==
  /\ s_enabled \in BOOLEAN /\ s_level \in Level /\ dimmer \in Level
  /\ i2c_error \in BOOLEAN
  /\ sending \in Level \cup {NoLevel} /\ crossed \in BOOLEAN
  /\ SendingOK
  /\ DimmerFollows

\* The rest of the status, the temperature and the clock.  The wrapped difference
\* of two ticks is the true age.
FanOK == fan_on \in BOOLEAN /\ overheat \in BOOLEAN /\ OverheatFan
RestOK ==
  /\ init_error \in BOOLEAN /\ temp \in Temps /\ running \in BOOLEAN
  /\ adc \in {"ready", "failed", "unset"} /\ halted \in BOOLEAN
ClockOK ==
  /\ tick \in 0 .. TickMod - 1 /\ s_last_sensor_tick \in 0 .. TickMod - 1
  /\ age \in 0 .. MaxAge
  /\ Elapsed = age

\* The inductive invariant.
IInv == SwitchOK /\ FanOK /\ RestOK /\ ClockOK

-----------------------------------------------------------------------------
(* What a step leaves alone stays in order.                                *)

LEMMA SameSwitch ==
  ASSUME SwitchOK, UNCHANGED <<switch, output, i2c_error, running>>
  PROVE  SwitchOK'
BY DEF SwitchOK, SendingOK, DimmerFollows, switch, output

LEMMA SameFan ==
  ASSUME FanOK, UNCHANGED fan_on, UNCHANGED overheat
  PROVE  FanOK'
BY DEF FanOK, OverheatFan

LEMMA SameClock ==
  ASSUME ClockOK, UNCHANGED clock
  PROVE  ClockOK'
BY DEF ClockOK, clock, Elapsed

LEMMA SameRest ==
  ASSUME RestOK, UNCHANGED init_error, UNCHANGED board, temp' \in Temps
  PROVE  RestOK'
BY DEF RestOK, board

-----------------------------------------------------------------------------
(* The helpers of triac_control.c.                                         *)

\* Whatever the transfer does, the dimmer keeps a level, and it has the level
\* that was sent unless the error is noted.
LEMMA SendLevel ==
  ASSUME NEW l \in Level, dimmer \in Level, dimmerlink_set_level(l)
  PROVE  dimmer' \in Level /\ i2c_error' \in BOOLEAN /\ (~i2c_error' => dimmer' = l)
BY DEF dimmerlink_set_level

\* The call of the foreground that sends what the switch will then ask for.
LEMMA TransmitLevel ==
  ASSUME SwitchOK, running, sending = NoLevel, UNCHANGED running, NEW l \in Level,
         Transmit(l), s_enabled' \in BOOLEAN, s_level' \in Level,
         l = IF s_enabled' THEN s_level' ELSE 0
  PROVE  SwitchOK'
<1>1. 0 \in Level /\ l # NoLevel
  BY DEF Level, NoLevel, TRIAC_LEVEL_MAX
<1>2. CASE ResetPreempts
  <2>1. sending' = l /\ crossed' = FALSE /\ UNCHANGED <<dimmer, i2c_error>>
    BY <1>2 DEF Transmit
  <2> QED BY <1>1, <2>1 DEF SwitchOK, SendingOK, DimmerFollows
<1>3. CASE ~ResetPreempts
  <2>1. dimmerlink_set_level(l) /\ UNCHANGED <<sending, crossed>>
    BY <1>3 DEF Transmit
  <2>2. dimmer' \in Level /\ i2c_error' \in BOOLEAN /\ (~i2c_error' => dimmer' = l)
    BY <2>1, SendLevel DEF SwitchOK
  <2> QED BY <2>1, <2>2 DEF SwitchOK, SendingOK, DimmerFollows
<1> QED BY <1>2, <1>3

\* triac_set_level keeps the switch, the stored level and the dimmer in step,
\* when the switch stays as it is or the stored level is sent again.
LEMMA SetLevel ==
  ASSUME NEW l \in Nat, SwitchOK, Free, UNCHANGED running,
         s_enabled' = s_enabled \/ s_enabled' = TRUE,
         triac_set_level(l)
  PROVE  SwitchOK'
<1>1. s_level' \in Level
  BY DEF triac_set_level, Level, TRIAC_LEVEL_MAX
<1>2. CASE s_enabled' = TRUE
  <2>1. Transmit(s_level')
    BY <1>2 DEF triac_set_level
  <2> QED BY <1>1, <1>2, <2>1, TransmitLevel DEF Free
<1>3. CASE s_enabled' = FALSE
  <2>1. UNCHANGED <<output, i2c_error>> /\ s_enabled = FALSE
    BY <1>3 DEF triac_set_level, SwitchOK
  <2> QED BY <1>1, <1>3, <2>1 DEF SwitchOK, SendingOK, DimmerFollows, Free, output
<1> QED BY <1>2, <1>3 DEF SwitchOK

LEMMA Disable ==
  ASSUME SwitchOK, Free, UNCHANGED running, triac_disable
  PROVE  SwitchOK' /\ s_enabled' = FALSE
<1>1. s_enabled' = FALSE /\ s_level' = s_level /\ Transmit(0)
  BY DEF triac_disable
<1>2. 0 \in Level
  BY DEF Level, TRIAC_LEVEL_MAX
<1> QED BY <1>1, <1>2, TransmitLevel DEF SwitchOK, Free

\* The transfer that was begun.
LEMMA SendStep ==
  ASSUME SwitchOK, Send
  PROVE  SwitchOK'
<1>1. /\ sending \in Level /\ sending' = NoLevel /\ dimmerlink_set_level(sending)
      /\ UNCHANGED <<s_enabled, s_level, running, crossed>>
  BY DEF Send, SwitchOK, switch, board
<1>2. dimmer' \in Level /\ i2c_error' \in BOOLEAN /\ (~i2c_error' => dimmer' = sending)
  BY <1>1, SendLevel DEF SwitchOK
<1>3. DimmerFollows'
  BY <1>1, <1>2 DEF SwitchOK, SendingOK, DimmerFollows, Send
<1> QED BY <1>1, <1>2, <1>3 DEF SwitchOK, SendingOK

\* A reset disables, and is noted when there is a level still to be sent.
LEMMA ResetStep ==
  ASSUME SwitchOK, Reset
  PROVE  SwitchOK'
<1>1. /\ s_enabled' = FALSE /\ dimmerlink_set_level(0) /\ crossed' = (sending > 0)
      /\ running /\ UNCHANGED <<s_level, sending, running>>
  BY DEF Reset, board
<1>2. 0 \in Level /\ (sending # NoLevel /\ ~(sending > 0) => sending = 0)
  BY DEF Level, TRIAC_LEVEL_MAX, NoLevel, SwitchOK
<1>3. dimmer' \in Level /\ i2c_error' \in BOOLEAN /\ (~i2c_error' => dimmer' = 0)
  BY <1>1, <1>2, SendLevel DEF SwitchOK
<1>4. crossed' \in BOOLEAN
  BY <1>1
<1>5. SendingOK'
  BY <1>1, <1>2 DEF SendingOK
<1>6. DimmerFollows'
  BY <1>1, <1>3 DEF DimmerFollows
<1> QED BY <1>1, <1>3, <1>4, <1>5, <1>6 DEF SwitchOK

\* The stop of a bad reading keeps the switch in step with the dimmer.
LEMMA Stop ==
  ASSUME SwitchOK, Free, UNCHANGED running, overheat \in BOOLEAN, StopOnce
  PROVE  SwitchOK' /\ overheat' = TRUE
<1>1. CASE overheat = TRUE
  BY <1>1, SameSwitch DEF StopOnce
<1>2. CASE overheat = FALSE
  BY <1>2, Disable DEF StopOnce
<1> QED BY <1>1, <1>2

\* A P word that passes validation gives a level.
LEMMA LevelOfRange ==
  ASSUME NEW p \in PWords \cup {NoPWord}, InRange(p)
  PROVE  LevelOf(p) \in Level
<1>1. CASE p = NoPWord
  BY <1>1 DEF LevelOf, Level, TRIAC_LEVEL_MAX, TRIAC_LEVEL_SAFE_DFLT
<1>2. CASE p # NoPWord
  <2>1. p \in Int /\ p >= 0 /\ p <= 1000
    BY <1>2, ConstantsAssumption DEF InRange, TRIAC_LEVEL_MAX
  <2>2. p \div 10 \in 0 .. 100
    BY <2>1
  <2> QED BY <1>2, <2>2 DEF LevelOf, Level, TRIAC_LEVEL_MAX
<1> QED BY <1>1, <1>2

-----------------------------------------------------------------------------
(* The invariant.                                                          *)

LEMMA InitInv == Init => IInv
<1> SUFFICES ASSUME Init PROVE IInv
  OBVIOUS
<1>1. SwitchOK
  <2>1. /\ s_enabled = FALSE /\ i2c_error = FALSE /\ s_level = 0 /\ dimmer = 0
        /\ sending = NoLevel /\ crossed = FALSE /\ running = FALSE
    BY DEF Init
  <2>2. 0 \in Level
    BY DEF Level, TRIAC_LEVEL_MAX
  <2> QED BY <2>1, <2>2, Zenon DEF SwitchOK, SendingOK, DimmerFollows
<1>2. ClockOK
  BY ConstantsAssumption DEF Init, ClockOK, Elapsed
<1>3. FanOK
  BY DEF Init, FanOK, OverheatFan
<1>4. RestOK
  BY DEF Init, RestOK
<1> QED BY <1>1, <1>2, <1>3, <1>4 DEF IInv

\* Taking the tick of a sample.
LEMMA SampleClock ==
  ASSUME ClockOK, tick' = tick, s_last_sensor_tick' = tick, age' = 0
  PROVE  ClockOK'
<1>1. tick \in 0 .. TickMod - 1 /\ 0 \in 0 .. MaxAge
  BY ConstantsAssumption DEF ClockOK
<1>2. Elapsed' = 0
  BY <1>1, ConstantsAssumption DEF Elapsed
<1> QED BY <1>1, <1>2 DEF ClockOK

LEMMA SampleInv ==
  ASSUME IInv, RealtimePass
  PROVE  IInv'
<1>1. ClockOK'
  BY SampleClock DEF IInv, RealtimePass
<1>2. RestOK'
  BY SameRest DEF IInv, RestOK, RealtimePass
<1>3. SwitchOK' /\ FanOK'
  <2> Free /\ UNCHANGED running
    BY DEF RealtimePass, board
  <2>1. CASE SampleFailed
    BY <2>1, Stop DEF IInv, FanOK, OverheatFan, SampleFailed
  <2>2. ASSUME NEW reading \in adc_read, SampleHot(reading)
        PROVE  SwitchOK' /\ FanOK'
    <3>1. fan_on' = TRUE
      BY <2>2 DEF SampleHot, IInv, FanOK, OverheatFan
    <3> QED BY <2>2, <3>1, Stop DEF IInv, FanOK, OverheatFan, SampleHot
  <2>3. ASSUME NEW reading \in adc_read, SampleCool(reading)
        PROVE  SwitchOK' /\ FanOK'
    <3>1. fan_on' \in BOOLEAN
      <4>1. CASE fan_on
        BY <2>3, <4>1 DEF SampleCool
      <4>2. CASE ~fan_on
        BY <2>3, <4>2 DEF SampleCool
      <4> QED BY <4>1, <4>2
    <3>2. overheat' = FALSE /\ UNCHANGED <<switch, output, i2c_error>>
      BY <2>3 DEF SampleCool
    <3>3. SwitchOK'
      BY <3>2, SameSwitch DEF IInv
    <3>4. FanOK'
      BY <3>1, <3>2 DEF FanOK, OverheatFan
    <3> QED BY <3>3, <3>4
  <2> QED BY <2>1, <2>2, <2>3 DEF RealtimePass, triac_update_sensors
<1> QED BY <1>1, <1>2, <1>3 DEF IInv

LEMMA ExecuteInv ==
  ASSUME NEW code \in MCode, IInv, Execute(code)
  PROVE  IInv'
<1>1. ClockOK' /\ FanOK' /\ RestOK'
  BY SameClock, SameFan, SameRest DEF Execute, IInv, RestOK
<1>2. SwitchOK'
  <2> Free /\ UNCHANGED running
    BY DEF Execute, board
  <2>1. CASE UNCHANGED s_enabled /\ triac_set_level(0)
    BY <2>1, SetLevel DEF IInv
  <2>2. ASSUME NEW p \in PWords \cup {NoPWord}, InRange(p),
               UNCHANGED s_enabled, triac_set_level(LevelOf(p))
        PROVE  SwitchOK'
    <3>1. LevelOf(p) \in Nat
      BY <2>2, LevelOfRange DEF Level, TRIAC_LEVEL_MAX
    <3> QED BY <2>2, <3>1, SetLevel DEF IInv
  <2>3. CASE triac_enable
    <3>1. s_level \in Nat
      BY DEF IInv, SwitchOK, Level, TRIAC_LEVEL_MAX
    <3> QED BY <2>3, <3>1, SetLevel DEF triac_enable, IInv
  <2>4. CASE triac_disable
    BY <2>4, Disable DEF IInv
  <2>5. CASE UNCHANGED <<switch, output, i2c_error>>
    BY <2>5, SameSwitch DEF IInv
  <2> QED BY <2>1, <2>2, <2>3, <2>4, <2>5 DEF Execute
<1> QED BY <1>1, <1>2 DEF IInv

\* A step that touches nothing but the history.
LEMMA SameInv ==
  ASSUME IInv, UNCHANGED <<switch, status, board, output, temp, clock>>
  PROVE  IInv'
<1>1. UNCHANGED fan_on /\ UNCHANGED overheat /\ UNCHANGED i2c_error /\ UNCHANGED init_error
      /\ UNCHANGED running
  BY DEF status, board
<1> QED BY <1>1, SameSwitch, SameFan, SameClock, SameRest DEF IInv, RestOK

LEMMA StepInv ==
  ASSUME IInv, [Next]_vars
  PROVE  IInv'
<1>1. CASE Boot
  <2>1. 0 \in Level
    BY DEF Level, TRIAC_LEVEL_MAX
  <2>2. SwitchOK'
    <3>1. /\ s_enabled' = FALSE /\ s_level' = 0 /\ ~running /\ running' = TRUE
          /\ UNCHANGED <<sending, crossed>> /\ dimmerlink_set_level(0)
      BY <1>1 DEF Boot, triac_init
    <3>2. dimmer' \in Level /\ i2c_error' \in BOOLEAN /\ (~i2c_error' => dimmer' = 0)
      BY <2>1, <3>1, SendLevel DEF IInv, SwitchOK
    <3>3. sending = NoLevel
      BY <3>1 DEF IInv, SwitchOK, SendingOK
    <3> QED BY <2>1, <3>1, <3>2, <3>3 DEF IInv, SwitchOK, SendingOK, DimmerFollows
  <2>3. ClockOK'
    BY <1>1, SampleClock DEF Boot, IInv
  <2>4. FanOK'
    BY <1>1 DEF Boot, triac_init, gpio_init, FanOK, OverheatFan
  <2>5. RestOK'
    BY <1>1 DEF Boot, triac_init, adc_init, i2c_init, IInv, RestOK
  <2> QED BY <2>2, <2>3, <2>4, <2>5 DEF IInv
<1>0. CASE Restart
  <2>1. 0 \in Level
    BY DEF Level, TRIAC_LEVEL_MAX
  <2>2. SwitchOK'
    BY <1>0, <2>1 DEF Restart, IInv, SwitchOK, SendingOK, DimmerFollows
  <2>3. ClockOK'
    BY <1>0, ConstantsAssumption DEF Restart, ClockOK, Elapsed
  <2>4. FanOK' /\ RestOK'
    BY <1>0 DEF Restart, FanOK, OverheatFan, IInv, RestOK
  <2> QED BY <2>2, <2>3, <2>4 DEF IInv
<1>2. ASSUME NEW code \in MCode, Reject(code)
      PROVE  IInv'
  BY <1>2, SameInv DEF Reject
<1>3. ASSUME NEW code \in MCode, Execute(code)
      PROVE  IInv'
  BY <1>3, ExecuteInv
<1>4. CASE Reset
  BY <1>4, ResetStep, SameFan, SameClock, SameRest DEF Reset, IInv, RestOK
<1>10. CASE Send
  BY <1>10, SendStep, SameFan, SameClock, SameRest DEF Send, IInv, RestOK
<1>5. CASE RealtimePass
  BY <1>5, SampleInv
<1>6. CASE Tick
  <2>1. ClockOK'
    BY <1>6, ConstantsAssumption DEF Tick, IInv, ClockOK, Elapsed
  <2>2. UNCHANGED fan_on /\ UNCHANGED overheat /\ UNCHANGED i2c_error /\ UNCHANGED init_error
        /\ UNCHANGED running
    BY <1>6 DEF Tick, status, board
  <2> QED BY <1>6, <2>1, <2>2, SameSwitch, SameFan, SameRest DEF Tick, IInv, RestOK
<1>7. CASE Warm
  <2>1. UNCHANGED fan_on /\ UNCHANGED overheat /\ UNCHANGED i2c_error /\ UNCHANGED init_error
        /\ UNCHANGED running
    BY <1>7 DEF Warm, status, board
  <2> QED BY <1>7, <2>1, SameSwitch, SameFan, SameClock, SameRest DEF Warm, IInv, RestOK
<1>8. CASE Fault
  <2>1. UNCHANGED fan_on /\ UNCHANGED overheat /\ UNCHANGED i2c_error /\ UNCHANGED init_error
    BY <1>8 DEF Fault, status
  <2>2. RestOK'
    BY <1>8, <2>1 DEF Fault, IInv, RestOK
  <2>3. ClockOK'
    BY <1>8, SampleClock DEF Fault, IInv
  <2> QED BY <1>8, <2>1, <2>2, <2>3, SameSwitch, SameFan DEF Fault, IInv
<1>9. CASE UNCHANGED vars
  BY <1>9, SameInv DEF vars
<1> QED BY <1>0, <1>1, <1>2, <1>3, <1>4, <1>5, <1>6, <1>7, <1>8, <1>9, <1>10 DEF Next

LEMMA Invariance == Spec => []IInv
<1>1. Init => IInv
  BY InitInv
<1>2. IInv /\ [Next]_vars => IInv'
  BY StepInv
<1> QED BY <1>1, <1>2, PTL DEF Spec

-----------------------------------------------------------------------------
\* The variables stay in their ranges: no P word drives the level out of its own, and
\* the tick difference is the true age (triac_control.c 126-227, triac_mcodes.c 30-45).
THEOREM TriacTypes == Spec => []TypeOK
<1>1. IInv => TypeOK
  BY DEF IInv, SwitchOK, FanOK, RestOK, ClockOK, TypeOK
<1> QED BY <1>1, Invariance, PTL

\* The agreement of the switch and the dimmer from triac_init on (triac_control.c
\* 192-227), with the one exception of a reset between test and transfer (210-211), and
\* the fan that runs as long as the overheat state (230-273).
THEOREM SwitchSafe == Spec => [](DimmerFollows /\ OverheatFan)
<1>1. IInv => DimmerFollows /\ OverheatFan
  BY DEF IInv, SwitchOK, FanOK, RestOK, ClockOK
<1> QED BY <1>1, Invariance, PTL

\* triac_control.c 240-243 and 250-252: entering the overheat state disables.
THEOREM EnteringStops == Spec => OverheatStops
<1>1. IInv /\ [Next]_vars => [overheat' /\ ~overheat => ~s_enabled']_vars
  <2> SUFFICES ASSUME IInv, Next, overheat', ~overheat
               PROVE  s_enabled' = FALSE
    BY DEF vars
  <2>1. RealtimePass
    BY DEF Next, Restart, Boot, triac_init, gpio_init, Reject, Execute, Reset, Fault, Send,
           Tick, Warm, status
  <2>2. StopOnce
    BY <2>1 DEF RealtimePass, triac_update_sensors, SampleFailed, SampleHot, SampleCool
  <2> QED BY <2>2 DEF StopOnce, triac_disable
<1> QED BY <1>1, Invariance, PTL DEF OverheatStops, Spec

\* No sample, reset or restart makes the dimmer brighter or is about to, between test and
\* transfer (triac_control.c 206-227, triac_mcodes.c 85-135).
THEOREM OnlyByCommand == Spec => OnlyCommandsRaise
<1>1. IInv /\ [Next]_vars =>
        [/\ dimmer' > dimmer => Execute(811) \/ Execute(814) \/ dimmer' = sending
         /\ sending' # sending /\ sending' > 0 => Execute(811) \/ Execute(814)]_vars
  <2> SUFFICES ASSUME IInv, Next,
                      \/ dimmer' > dimmer /\ dimmer' # sending
                      \/ sending' # sending /\ sending' > 0
               PROVE  Execute(811) \/ Execute(814)
    BY DEF vars
  <2>1. dimmer \in Nat
    BY DEF IInv, SwitchOK, Level, TRIAC_LEVEL_MAX
  <2>2. ~Transmit(0) /\ ~UNCHANGED output
    BY <2>1 DEF Transmit, dimmerlink_set_level, output
  <2>3. ~triac_disable
    BY <2>2 DEF triac_disable
  <2>4. ~StopOnce
    BY <2>2, <2>3 DEF StopOnce
  <2>5. ~(dimmerlink_set_level(0) /\ UNCHANGED sending) /\ ~Send /\ ~Restart
    BY <2>1 DEF dimmerlink_set_level, Send, Restart, NoLevel
  <2>6. PICK code \in MCode : Execute(code)
    BY <2>2, <2>3, <2>4, <2>5 DEF Next, Boot, triac_init, Reject, Reset, RealtimePass,
                                  triac_update_sensors, SampleFailed, SampleHot, SampleCool,
                                  Fault, Tick, Warm
  <2>7. ~triac_set_level(0)
    BY <2>2 DEF triac_set_level, TRIAC_LEVEL_MAX
  <2> QED BY <2>2, <2>3, <2>6, <2>7 DEF Execute
<1> QED BY <1>1, Invariance, PTL DEF OnlyCommandsRaise, Spec

\* triac_mcodes.c 35-37: the unsigned difference keeps the samples apart through
\* every wrap-around of the tick.
THEOREM WrapIsHarmless == Spec => SamplesApart
<1>1. IInv /\ [Next]_vars =>
        [s_last_sensor_tick' # s_last_sensor_tick /\ event' # "boot"
           => age >= SENSOR_UPDATE_MS]_vars
  BY DEF Next, Restart, Boot, Reject, Execute, Reset, RealtimePass, Fault, Send, Tick, Warm,
         clock, vars, IInv, ClockOK
<1> QED BY <1>1, Invariance, PTL DEF SamplesApart, Spec
=============================================================================
