------------------------------- MODULE Triac --------------------------------
(***************************************************************************)
(* The TRIAC heater of the board: triac_control.c, the M-codes and hooks   *)
(* of triac_mcodes.c, and the DimmerLink module behind the I2C bus.        *)
(*                                                                         *)
(* The M-codes and passes of the realtime loop are calls of one thread,    *)
(* the foreground.  A reset is not: the core calls its hooks from the      *)
(* interrupts that receive the reset character (serial.c 849) or serve a   *)
(* limit switch (driver.c 3177).  So a foreground call has two steps, what *)
(* it tests and stores, and the transfer to the dimmer (Send), and a reset *)
(* may come between them.  One that comes within the transfer finds the    *)
(* bus busy: it leaves what a failed one before the transfer leaves.  At   *)
(* any other place it is like one before or behind a step.                 *)
(*                                                                         *)
(* A restart of the controller clears its statics at once (Restart), but   *)
(* the dimmer hears of it only when triac_init has its turn (Boot).  Until *)
(* then no hook is registered.  What is shared with the outside is the     *)
(* dimmer, which keeps its level when a command is lost and over a restart,*)
(* the temperature, and a tick counter that wraps around.                  *)
(***************************************************************************)
EXTENDS Integers

CONSTANTS
  Temps,       \* readings of the temperature channel
  PWords,      \* P words of M811 in tenths
  NoPWord,     \* M811 without a P word
  TickMod,     \* values of HAL_GetTick, 2^32 in the code
  SENSOR_UPDATE_MS,
  MaxAge,      \* bound on the ticks between two passes of the realtime loop
  ResetPreempts  \* a reset may come between test and transfer (else both are a step)

TRIAC_LEVEL_MAX         == 100
TRIAC_LEVEL_SAFE_DFLT   == 10
TRIAC_TEMP_FAN_ON_ADC   == 1240
TRIAC_TEMP_FAN_OFF_ADC  == 1000
TRIAC_TEMP_OVERHEAT_ADC == 2480

ASSUME ConstantsAssumption ==
  /\ Temps \subseteq 0 .. 4095 /\ Temps # {}
  /\ PWords \subseteq Int /\ NoPWord \notin PWords
  /\ TickMod \in Nat /\ SENSOR_UPDATE_MS \in Nat \ {0} /\ MaxAge \in Nat
  /\ SENSOR_UPDATE_MS <= MaxAge /\ MaxAge < TickMod
  /\ ResetPreempts \in BOOLEAN

Level == 0 .. TRIAC_LEVEL_MAX
NoLevel == -1
MCode == 810 .. 816

VARIABLES
  s_enabled, s_level,           \* the switch and the stored level
  fan_on, overheat, i2c_error,  \* s_status
  init_error,
  running,                      \* triac_mcodes_register has been there
  adc,                          \* s_hadc1: "ready", "failed", or "unset" as at reset
  halted,                       \* the processor is in HardFault_Handler
  dimmer,                       \* the level the DimmerLink outputs
  sending,                      \* the level the foreground is about to send, or NoLevel
  crossed,                      \* history: a reset came before the last one was sent
  temp,                         \* the temperature now
  tick, s_last_sensor_tick,     \* HAL_GetTick and the tick of the last sample
  age,                          \* ticks since the last sample, not wrapped
  event                         \* history: what the last step was or answered

switch == <<s_enabled, s_level>>
status == <<fan_on, overheat, i2c_error, init_error>>
board  == <<running, adc, halted>>
output == <<dimmer, sending, crossed>>
clock  == <<tick, s_last_sensor_tick, age>>
vars   == <<switch, status, board, output, temp, clock, event>>

\* The foreground is between two calls.
Free == running /\ ~halted /\ sending = NoLevel

-----------------------------------------------------------------------------
(* The helpers of triac_control.c.                                         *)

\* dimmerlink_set_level: the command arrives, or the transfer fails, before or
\* after the dimmer has taken the level.  i2c_error tells the last transfer only.
dimmerlink_set_level(level) ==
  \/ dimmer' = level /\ i2c_error' = FALSE
  \/ dimmer' \in {dimmer, level} /\ i2c_error' = TRUE

\* The foreground's call of it: begun here, and made by Send.
Transmit(level) ==
  IF ResetPreempts
  THEN sending' = level /\ crossed' = FALSE /\ UNCHANGED <<dimmer, i2c_error>>
  ELSE dimmerlink_set_level(level) /\ UNCHANGED <<sending, crossed>>

\* Mutant: the level is sent to a disabled output, too.
triac_set_level_Always(level) ==
  /\ s_level' = IF level > TRIAC_LEVEL_MAX THEN TRIAC_LEVEL_MAX ELSE level
  /\ Transmit(s_level')

\* triac_set_level clamps, stores, and sends only when the output is enabled.
triac_set_level(level) ==
  /\ s_level' = IF level > TRIAC_LEVEL_MAX THEN TRIAC_LEVEL_MAX ELSE level
  /\ IF s_enabled' THEN Transmit(s_level') ELSE UNCHANGED <<output, i2c_error>>

triac_enable == s_enabled' = TRUE /\ triac_set_level(s_level)

triac_disable == s_enabled' = FALSE /\ Transmit(0) /\ UNCHANGED s_level

\* The rest of the call.
Send ==
  /\ sending # NoLevel
  /\ dimmerlink_set_level(sending)
  /\ sending' = NoLevel
  /\ event' = "none"
  /\ UNCHANGED <<switch, fan_on, overheat, init_error, board, crossed, temp, clock>>

-----------------------------------------------------------------------------
(* The start.                                                              *)

\* gpio_init and the clearing of s_status: the fan's pin goes low.
gpio_init == fan_on' = FALSE /\ overheat' = FALSE

\* What i2c_init may answer.
i2c_init == BOOLEAN

\* Three HAL calls, of which any may fail; the first two come before Instance is set.
adc_init == adc' \in {"ready", "failed", "unset"}

\* The power comes, or the controller restarts: the statics are cleared, a call is
\* cut off, and the dimmer outputs what it was told before.
Restart ==
  /\ s_enabled' = FALSE /\ s_level' = 0
  /\ fan_on' = FALSE /\ overheat' = FALSE /\ i2c_error' = FALSE /\ init_error' = FALSE
  /\ running' = FALSE /\ adc' = "unset" /\ halted' = FALSE
  /\ sending' = NoLevel /\ crossed' = FALSE
  /\ tick' = 0 /\ s_last_sensor_tick' = 0 /\ age' = 0
  /\ event' = "boot"
  /\ UNCHANGED <<dimmer, temp>>

triac_init ==
  /\ gpio_init
  /\ adc_init
  /\ \E i2c_ok \in i2c_init : init_error' = ~(i2c_ok /\ adc' = "ready")
  /\ dimmerlink_set_level(0)
  /\ s_enabled' = FALSE /\ s_level' = 0

\* triac_mcodes_register, at the end of driver_setup, which has waited for 100 ms.  The
\* reset hook is registered behind the transfer of triac_init.
Boot ==
  /\ ~running /\ running' = TRUE
  /\ triac_init
  /\ s_last_sensor_tick' = tick /\ age' = 0
  /\ event' = "boot"
  /\ UNCHANGED <<halted, sending, crossed, temp, tick>>

\* The first start, with a dimmer that powers up at 0.
Init ==
  /\ s_enabled = FALSE /\ s_level = 0
  /\ fan_on = FALSE /\ overheat = FALSE /\ i2c_error = FALSE /\ init_error = FALSE
  /\ running = FALSE /\ adc = "unset" /\ halted = FALSE
  /\ dimmer = 0 /\ sending = NoLevel /\ crossed = FALSE
  /\ temp \in Temps
  /\ tick = 0 /\ s_last_sensor_tick = 0 /\ age = 0
  /\ event = "boot"

-----------------------------------------------------------------------------
(* M-codes: triac_mcode_check, triac_mcode_validate, triac_mcode_execute.  *)

\* The codes triac_mcode_check accepts.
Supported == {810, 811, 814, 815, 816}

\* The level M811 sets: a P word is cut to an integer, none is the safe default.
LevelOf(p) == IF p = NoPWord THEN TRIAC_LEVEL_SAFE_DFLT ELSE p \div 10

\* Mutant: only the upper limit is tested.
InRange_NoLowerLimit(p) == p = NoPWord \/ p <= 10 * TRIAC_LEVEL_MAX

InRange(p) == p = NoPWord \/ (p >= 0 /\ p <= 10 * TRIAC_LEVEL_MAX)

\* A code or a P word that is not accepted changes nothing.
Reject(code) ==
  /\ Free
  /\ \/ code \notin Supported /\ event' = "unsupported"
     \/ code = 811 /\ (\E p \in PWords : ~InRange(p)) /\ event' = "out of range"
  /\ UNCHANGED <<switch, status, board, output, temp, clock>>

\* triac_mcode_execute, on a block that triac_mcode_validate has let through.
Execute(code) ==
  /\ Free
  /\ code \in Supported
  /\ event' = "executed"
  /\ \/ code = 810 /\ UNCHANGED s_enabled /\ triac_set_level(0)
     \/ /\ code = 811 /\ UNCHANGED s_enabled
        /\ \E p \in PWords \cup {NoPWord} : InRange(p) /\ triac_set_level(LevelOf(p))
     \/ code = 814 /\ triac_enable
     \/ code = 815 /\ triac_disable
     \/ code = 816 /\ UNCHANGED <<switch, output, i2c_error>>
  /\ UNCHANGED <<fan_on, overheat, init_error, board, temp, clock>>

-----------------------------------------------------------------------------
\* triac_on_reset with triac_disable, in an interrupt: at any moment once the hook is
\* registered.  A foreground that has made its test will send its level all the same.
Reset ==
  /\ running /\ ~halted
  /\ s_enabled' = FALSE
  /\ dimmerlink_set_level(0)
  /\ crossed' = (sending > 0)
  /\ event' = "none"
  /\ UNCHANGED <<s_level, sending, fan_on, overheat, init_error, board, temp, clock>>

\* Mutant: the state is entered and the output left on.
StopOnce_KeepsOutput ==
  /\ overheat' = TRUE
  /\ UNCHANGED <<switch, output, i2c_error>>

\* The output goes off on the first bad reading only.
StopOnce ==
  /\ overheat' = TRUE
  /\ IF overheat THEN UNCHANGED <<switch, output, i2c_error>> ELSE triac_disable

\* triac_update_sensors: one of the two conversions failed.
SampleFailed ==
  /\ fan_on' = TRUE
  /\ StopOnce

\* adc_read of the temperature channel.  What the HAL converts with a handle that was
\* not set up is anything, if it comes back at all.
adc_read == IF adc = "ready" THEN {temp} ELSE Temps

\* The reading is at or above the overheat threshold.
SampleHot(reading) ==
  /\ reading >= TRIAC_TEMP_OVERHEAT_ADC
  /\ fan_on' = (fan_on \/ ~overheat)
  /\ StopOnce

\* Mutant: the output comes back by itself when the heater has cooled down.
SampleCool_Resumes(reading) ==
  /\ reading < TRIAC_TEMP_OVERHEAT_ADC
  /\ overheat' = FALSE
  /\ fan_on' = IF fan_on THEN reading >= TRIAC_TEMP_FAN_OFF_ADC
                         ELSE reading >= TRIAC_TEMP_FAN_ON_ADC
  /\ IF overheat THEN triac_enable ELSE UNCHANGED <<switch, output, i2c_error>>

\* The reading is below it: the fan follows the temperature with hysteresis.
SampleCool(reading) ==
  /\ reading < TRIAC_TEMP_OVERHEAT_ADC
  /\ overheat' = FALSE
  /\ fan_on' = IF fan_on THEN reading >= TRIAC_TEMP_FAN_OFF_ADC
                         ELSE reading >= TRIAC_TEMP_FAN_ON_ADC
  /\ UNCHANGED <<switch, output, i2c_error>>

\* Mutant: a wrapped tick counts as due.
Elapsed_WrapIsDue == IF tick >= s_last_sensor_tick THEN tick - s_last_sensor_tick
                                                   ELSE SENSOR_UPDATE_MS

\* Mutant: the comparison now >= s_last_sensor_tick + SENSOR_UPDATE_MS.
Elapsed_NoWrap == tick - s_last_sensor_tick

\* now - s_last_sensor_tick in the unsigned arithmetic of the counter.
Elapsed == IF tick >= s_last_sensor_tick THEN tick - s_last_sensor_tick
                                         ELSE tick + TickMod - s_last_sensor_tick

\* triac_update_sensors.
triac_update_sensors ==
  \/ SampleFailed
  \/ \E reading \in adc_read : SampleHot(reading) \/ SampleCool(reading)

\* Mutant: the tick is stored after the message, so the message finds a sample due.
RealtimePass_TickLast ==
  /\ Free /\ Elapsed >= SENSOR_UPDATE_MS
  /\ triac_update_sensors
  /\ IF overheat' THEN UNCHANGED <<s_last_sensor_tick, age>>
                  ELSE s_last_sensor_tick' = tick /\ age' = 0
  /\ event' = IF overheat' THEN "overheat report" ELSE "none"
  /\ UNCHANGED <<init_error, board, temp, tick>>

\* triac_realtime_handler, in a pass of the realtime loop that finds a sample due.
\* With overheat set it reports "TRIAC OVERHEAT - output disabled", when the output has
\* been sent its 0.  The fan, set behind that transfer, is set here: no reset looks at it.
RealtimePass ==
  /\ Free /\ Elapsed >= SENSOR_UPDATE_MS
  /\ s_last_sensor_tick' = tick /\ age' = 0
  /\ triac_update_sensors
  /\ event' = IF overheat' THEN "overheat report" ELSE "none"
  /\ UNCHANGED <<init_error, board, temp, tick>>

\* The same pass, when adc_init has left s_hadc1.Instance NULL: the HAL may use the
\* address 0 for the ADC, and HardFault_Handler does not return.
Fault ==
  /\ Free /\ Elapsed >= SENSOR_UPDATE_MS
  /\ adc = "unset"
  /\ halted' = TRUE
  /\ s_last_sensor_tick' = tick /\ age' = 0
  /\ event' = "none"
  /\ UNCHANGED <<switch, status, running, adc, output, temp, tick>>

Tick ==
  /\ ~halted /\ age < MaxAge
  /\ tick' = IF tick + 1 = TickMod THEN 0 ELSE tick + 1
  /\ age' = age + 1
  /\ event' = "none"
  /\ UNCHANGED <<switch, status, board, output, temp, s_last_sensor_tick>>

Warm ==
  /\ temp' \in Temps \ {temp}
  /\ event' = "none"
  /\ UNCHANGED <<switch, status, board, output, clock>>

-----------------------------------------------------------------------------
Next ==
  \/ Restart \/ Boot
  \/ \E code \in MCode : Reject(code) \/ Execute(code)
  \/ Reset
  \/ RealtimePass \/ Fault
  \/ Send
  \/ Tick
  \/ Warm

Spec == Init /\ [][Next]_vars

\* Time goes on, a transfer comes to its end, and the realtime loop runs between the
\* commands, however many there are.  A command, a reset, a restart or a change of
\* temperature may never come.
FairSpec == Spec /\ WF_vars(Tick) /\ WF_vars(Send) /\ SF_vars(RealtimePass)

-----------------------------------------------------------------------------
(* Properties.                                                             *)

\* The variables of triac_control.c stay in their ranges.
TypeOK ==
  /\ s_enabled \in BOOLEAN /\ s_level \in Level
  /\ fan_on \in BOOLEAN /\ overheat \in BOOLEAN
  /\ i2c_error \in BOOLEAN /\ init_error \in BOOLEAN
  /\ running \in BOOLEAN /\ adc \in {"ready", "failed", "unset"} /\ halted \in BOOLEAN
  /\ dimmer \in Level /\ sending \in Level \cup {NoLevel} /\ crossed \in BOOLEAN
  /\ temp \in Temps
  /\ tick \in 0 .. TickMod - 1 /\ s_last_sensor_tick \in 0 .. TickMod - 1
  /\ age \in 0 .. MaxAge

\* Between two calls, unless the last transfer failed: the dimmer outputs the stored
\* level when the output is enabled, and nothing when it is not - over disables,
\* overheats, failures and level changes while disabled, and again as soon as
\* triac_init has followed a restart.  One case is excepted: a reset that came between
\* the test and the transfer of a level leaves the dimmer on.
DimmerFollows ==
  running /\ sending = NoLevel /\ ~i2c_error
    => IF s_enabled THEN dimmer = s_level ELSE dimmer = 0 \/ crossed

\* While the overheat state lasts, however it was entered, the fan runs (proved with
\* DimmerFollows).
OverheatFan == overheat => fan_on

\* Entering the overheat state switches the output off (triac_control.c 236:
\* fail-safe, fan forced on and output stopped).
OverheatStops == [][overheat' /\ ~overheat => ~s_enabled']_vars

\* No call but an explicit M811 or M814 raises what the dimmer outputs: no sample,
\* reset, restart or lost transfer does.  What rises in a step of its own is what such
\* a command was about to send.
OnlyCommandsRaise ==
  [][/\ dimmer' > dimmer => Execute(811) \/ Execute(814) \/ dimmer' = sending
     /\ sending' # sending /\ sending' > 0 => Execute(811) \/ Execute(814)]_vars

\* Two samples are SENSOR_UPDATE_MS apart, across the wrap-around of the tick.
SamplesApart == [][s_last_sensor_tick' # s_last_sensor_tick /\ event' # "boot"
                     => age >= SENSOR_UPDATE_MS]_vars

\* A temperature that stays too high is noticed: the fan ends up running for good,
\* unless the set-up of the ADC has failed.
HotIsNoticed ==
  <>[](temp >= TRIAC_TEMP_OVERHEAT_ADC /\ event # "boot" /\ adc = "ready")
    => <>[](overheat /\ fan_on)

\* "TRIAC OVERHEAT - output disabled" (triac_mcodes.c 40): when it is reported,
\* the output is disabled.
ReportIsTrue == event = "overheat report" => ~s_enabled

\* Only while the output is enabled is a level really sent to the DimmerLink
\* (triac_control.h 91-92).
SentWhenEnabled == [][Send /\ sending > 0 => s_enabled]_vars

\* "M811 20V  M812 30V  M813 40V" (triac_control.h 26): the codes the header
\* lists are accepted.
ListedCodesRun == event # "unsupported"
=============================================================================
