# A formal model of the grblHAL driver for the STM32U585

This directory models the driver that runs grblHAL on the STM32U585 of the
Arduino UNO Q with a heater driven by a TRIAC: TLA+ modules translated from the
source in `src/`, TLC configurations that check them on small instances, and
TLAPS proofs of the results that matter most. File names without a directory
below are those of `src/Src`; the number behind one is a line.

Contents: 1 the system, 2 the modules, 3 what the runs check, 4 bounds,
5 fairness, 6 proofs, 7 disagreements found, 8 what is not modelled,
9 the plan.

## 1. The system

One program on one core. The grblHAL core (not part of this repository) owns
the main loop and calls the driver through the table `hal`; the driver owns the
interrupts and calls the core back. There is one foreground thread and there
are interrupts, with the priorities

| interrupt | priority | set in |
|---|---|---|
| TIM5, step pulses | 0 | driver.c, `driver_setup` |
| LPUART1, stream | 1 | serial.c, `serialInit` |
| EXTI, limit switches and inputs | 2 | driver.c, `settings_changed` |
| SysTick, delays | HAL default | `Core/Src/stm32u5xx_it.c` |

Hardly any state shared between the two sides is locked: what keeps it right is
the order of the stores. That is why most of the models are about interleaving.
The core is on both sides, too: a reset that is asked for by a character (serial.c
849) or by a limit switch (driver.c 3177) runs in that interrupt, and with it the
reset hook of the heater, which transfers over I2C.

### Inventory

| component | state | operations | interacts with | what makes it correct |
|---|---|---|---|---|
| transmit (serial.c) | ring `txbuf`, CR1.TXEIE and TE, TDR, shifter | `serialPutC`, `serialWriteS`, `serialWrite`, `serialTxFlush`, `serialTxCount`, `serialSetBaudRate`, `serialSetFormat`, `serialDisable`, transmit half of `UART0_IRQHandler` | the core's reports write; a blocking write calls the core's realtime loop; `triac_mcodes.c` reports from inside that loop | a bounded queue; no stale slot is sent; the ring drains; a change of the rate cuts nothing off |
| receive (serial.c) | ring `rxbuf`, RDR, RXNE, ORE, CR1.RXNEIE | receive half of the handler, `serialGetC`, `serialRxFlush`, `serialRxCancel`, `serialRxFree`, `serialDisable`, `serialSetBaudRate` | realtime characters go to the core in the interrupt | a bounded queue; the room that is reported is there; the interrupt is answered |
| claim of the stream (serial.c) | `serial[0].flags` | `serialInit`, `uart_release` | `driver_init`, the core | one holder; one set-up |
| step pulses (driver.c) | CNT, ARR, CCR1, CCR2, SR, DIER of TIM5, the pins, `step_pulse` | `stepperWakeUp`, `stepperGoIdle`, `stepperCyclesPerTick`, both `pulse_start`, the handler | the core's stepper interrupt asks for pulses; `settings_changed` and resets stop the timer | a pulse as long as the setting says, a gap behind it, a direction that is stable, every pulse ended |
| limit switches (driver.c) | EXTI edges, mask and pending bits, NVIC, `settings.limits` | `limitsEnable`, `limitsGetState`, `gpio_irq_enable`, `core_pin_debounce`, `EXTI9_5_IRQHandler`, part of `settings_changed` | the core's homing cycles mask lines; the core is called when a switch is hit | an alarm when, and only when, an enabled switch is hit |
| sharing of the EXTI lines (driver.c) | `inputpin[]`, `pin_irq[]`, `aux_irq` | `aux_assign_irq`, the input loop of `driver_init` | the board map | each line has one owner; no control input without its interrupt |
| delays (driver.c) | `delay.ms`, `delay.callback` | `driver_delay`, `Driver_IncTick`, `SysTick_Handler` | `driver_setup` waits; the core debounces with it | a callback comes, once, in time |
| elapsed time (driver.c) | `uwTick`, `cycle_count`, CYCCNT, the exclusive monitor | `getElapsedMicros`, `getElapsedTicks`, `SysTick_Handler` | `hal.get_micros` of the core | a reading is of the time of the call |
| start-up (main.c, driver.c) | bus clocks, isolation of port G, `IOInitDone` | `main`, `driver_init`, `driver_setup`, `settings_changed` | everything | the start ends; no register is touched without its clock |
| TRIAC heater (triac_control.c, triac_mcodes.c) | `s_enabled`, `s_level`, `s_status`, `init_error`, `s_hadc1`, the level in the DimmerLink, the tick of the last sample | M810 to M816, `triac_init`, `triac_update_sensors`, reset and realtime hooks | the I2C bus and the set-ups may fail; the dimmer keeps its level over a restart; the realtime hook also runs inside a `serialPutC` that waits | the dimmer follows the switch; overheat stops it; only commands raise it |
| pin reports (driver.c, serial.c) | the list `periph_pins`, the static `pin` of `enumeratePins` | `registerPeriphPin`, `setPeriphPinDescription`, `enumeratePins`, `serialRegisterStreams` | plugins register and describe pins; the core asks for a report | a report shows each pin once, as registered |
| settings in flash (flash.c) | the page of the EEPROM emulation, FLASH lock | `memcpy_from_flash`, `memcpy_to_flash` | the core saves and reads settings; the power may go | what was reported saved is read back |
| second and third UART, coolant, control inputs, optional parts | | | | see 8 |

Behaviours that are hard here: interrupts between any two stores of the
foreground (rings, CR1, DIER, `delay`, EXTI mask), and between the loads of the
one reader that notices them (the exclusive access of `getElapsedMicros`);
a reset between a
test and the transfer behind it; re-entrancy, as the realtime loop with its hooks runs inside `serialPutC` through
`hal.stream_blocking_callback`; an interrupt that is late (pulses, ticks); a bus
or a set-up that fails before or after the peer has acted; restarts of the
controller while the dimmer goes on until `triac_init` speaks to it; counters that wrap (`HAL_GetTick`, CYCCNT,
the unsigned `remaining` of flash.c); a supply that goes in the middle of a save
or of a start. `PROJECT.json` lists them as hazards, each at its line, with the
properties that cover it.

## 2. The modules

| module | models | state and code |
|---|---|---|
| `TxQueue` | abstract: a bounded queue to the wire that a reset may empty | |
| `SerialTx` | transmit | `data`, `head`, `tail` are `txbuf`; `txeie`, `txe`, `shifting` are CR1.TXEIE, ISR.TXE and the shift register; `pc` is the place between two accesses of the foreground to something shared. `PutC`, `Store`, `Publish`, `Enable` are the four accesses of `serialPutC`; `GiveUp` is the blocking callback that answers false, `CallbackWrites` the one that writes; `LoadCR1` and `StoreCR1` are the halves of a read-modify-write |
| `RxQueue` | abstract: a bounded queue in the order of arrival that drops what does not fit, with flush and cancel | |
| `SerialRx` | receive | `rxbuf`, RDR, RXNE, ORE and RXNEIE; every access of the foreground is a step |
| `Triac`, `MCTriac` | the heater | M-codes and realtime passes are calls of the foreground, with two steps: what the call tests and stores, and the transfer behind it (`Send`; `sending` is the level it will send). `Reset` is an interrupt and may come between the two; `crossed` remembers it. `Restart` clears the statics and cuts a call off, `Boot` is `triac_mcodes_register` with `triac_init`, 100 ms later; `running` says that it has been there. `dimmer` is what the DimmerLink outputs, and a restart leaves it; `adc` is what the set-up left in `s_hadc1`, `Fault` the end of a conversion without it |
| `OverheatReport` | heater and transmit together; composes `Triac` and `SerialTx`, which share the foreground thread | `LoopPass` is a realtime pass between two strings, `BlockedPass` one inside a `serialPutC` that waits; both write the overheat message with `serialPutC`. `Start` sets the heater up. There are no resets, so a call and its transfer are one step (`ResetPreempts` is FALSE) |
| `StepperTimer` | step pulses | registers of TIM5 in timer ticks; the handler's three tests (CC2, CC1, UIF) are `DelayOver`, `PulseOver`, `Callback`/`LastCallback`; pins are sets of active axes |
| `LimitInputs`, `MCLimitInputs` | limit switches | EXTI and NVIC as sets of axes; `Switch` may happen between any two steps |
| `DriverDelay` | delays | the two stores of `driver_delay` are `Call` and `Arm`; composed by `SysTick` and `Boot` |
| `ElapsedTime` | the two clocks and `getElapsedMicros` | each load of the reader, the exclusive store and the tick are steps; arithmetic modulo the word |
| `SysTick` | delays and elapsed time under their one interrupt; extends both | `Interrupt` is `HAL_IncTick` with `Driver_IncTick` |
| `Boot` | start-up and the claim of the stream; extends `DriverDelay` | `at` is how far `main` is, `written` the peripherals a step writes, those of the heater included. A function that switches a clock on and then writes is one step |
| `NvsFlash` | settings in flash | bytes of the page, what of it is erased, the lock; every HAL call is a step that may fail |
| `PowerCycle` | start and settings together; extends `Boot`, composes `NvsFlash` | `PowerLoss` resets registers and RAM at any step and leaves the flash as it is; the settings are read between `driver_init` and `driver_setup` |
| `Pins` | sharing of the EXTI lines | one step for each turn of each loop: `AssignIrq` is an entry of `aux_assign_irq`, `Contest` one comparison with an earlier entry in the loop inside (driver.c 1851-1863), `EnterInput` an entry of the loop of `driver_init`; `inputs` and `n_pins` are `aux_digital_in`, `i` and `j` the indices |
| `PinReport`, `MCPins` | pin reports; extends `Pins`, whose numbering of the inputs it reports | `periph_pins` is the list in the order of its links; `mode` is the static `pin.mode`, which outlives a report; a call of `registerPeriphPin` is a step; `log` and `places` are history, what was asked for and what of it is in the list |
| `SerialTxProofs`, `SerialRxProofs`, `TriacProofs`, `StepperTimerProofs`, `LimitInputsProofs`, `OverheatReportProofs` | theorems about the module of that name | see 6 |
| `ControllerProofs`, `PinReportProofs` | theorems about `SysTick` and `PowerCycle`, which share the delays of `DriverDelay`; about `Pins` and `PinReport` | see 6 |

Three compositions matter because their parts share one thread or one
interrupt: `OverheatReport` (the realtime loop inside a write), `SysTick` (one
handler moves the clocks and the delay) and `PowerCycle` (what a save cut off
leaves is what the next start reads).

Two conventions. An interrupt handler is one step where nothing of higher
priority shares state with it, and the foreground makes no step while an enabled
interrupt is pending (`At` in each module). Definitions named `Name_Suffix`
that a comment calls a mutant are changed versions of `Name` (a dropped guard, a
missing reset); no specification uses them, they show that each property can
tell the code from a plausible error in it.

## 3. What the runs check

Run one with `tlc -config X.cfg M`.

| run | module | states | what it shows |
|---|---|---|---|
| `SerialTx` | `SerialTx` | 24,577 | The interrupt never finds an empty ring (`NothingStale`: the handler does not look before it takes a character, 859-864). What is sent is in order, each character once (`InOrder`), the ring with its interrupt and flush is the queue of `TxQueue` (`ImplementsTxQueue`), a caller that waits for `serialTxCount` to be 0 before it changes the rate cuts no character off (`NothingCut`), a waiting writer gets its slot and every character leaves (`RingDrains`). |
| `OverheatReport` | `OverheatReport` | 711,818 | The realtime loop inside a waiting `serialPutC` does not nest without end: at most one write is suspended (`OneMessageInside`), and the string that was interrupted goes on although the message has moved the head behind its back (`WriterGoesOn`). |
| `SerialRx` | `SerialRx` | 285,833 | The receive ring is the queue of `RxQueue`, which takes bytes in the order of arrival; the reported room is there; a pending interrupt is answered, also over changes of the rate. |
| `Triac` | `MCTriac` | 350,664 | From `triac_init` on the dimmer agrees with the switch between two calls whenever the last transfer succeeded, but for a level whose sending a reset preceded (`DimmerFollows`); entering the overheat state switches it off; no sample, reset, restart or failure raises it, only M811 and M814 do; samples stay apart over a wrapped tick; a temperature that stays high is noticed when the set-up succeeded. Set-ups fail at any call, and a sample on an ADC that was not set up ends in the hard fault. |
| `StepperTimer` | `StepperTimer` | 173,984 | Pulse width, gap, direction set-up, the end of every pulse, and that the core goes on being called, under every latency up to the bound, with stops and settings in between. |
| `LimitInputs` | `MCLimitInputs` | 142,832 | The first switch calls the core when it is hit with hard limits on; a call finds the switch hit; masked lines are quiet. |
| `PowerCycle` | `PowerCycle` | 22,464 | Every start ends unless the power goes again and again, in particular the 100 ms wait of `driver_setup` (the repository's README.md, "Layer 4", tells how it once did not), whatever a save that was cut off has left; what was last reported saved is what a start reads; quad words are programmed only erased and unlocked; clocks before registers, in the order of the functions that write them; one holder of the stream. |
| `SysTick` | `SysTick` | 359,858 | With the interrupt between any two instructions: a callback comes, once, in time; `getElapsedMicros` returns a time between its call and its return, through wraps of the tick, the cycles and the product; the clocks do not jump. |
| `Pins` | `MCPins` | 212,734 | On every board of the bound each line ends up with one owner and no announced control input is without it (the driver's generic code: the one board map in `src/` has no auxiliary input); reports name the peripherals' pins as they were registered and last described. |
| `OverheatQueue`, `TriacReport`, `LimitInputsAll` | | violations | see 7 |

The comment before each property states it in words and names its lines. The type
invariants of `SerialTx`, `LimitInputs`, `SysTick` and `Pins` have configurations of
their own, `SerialTxTypes`, `LimitInputsTypes`, `SysTickTypes` and `PinsTypes`, which
pass; the other runs check theirs along with the rest.

## 4. Bounds, and assumptions on the environment

Bounds on size. They are smaller than the code's numbers and keep every case
distinct:

- `TX_BUFFER_SIZE = 4`, strings to 4, 8 characters: the ring fills, wraps twice
  and blocks. `RX_BUFFER_SIZE = 4` with 5 bytes likewise.
- `OverheatReport`: a ring of 3, strings of 5, messages of 2, 9 characters: a
  string finds the ring full, the message inside it finds it full, and there is
  room for a second string. Samples every 3 ticks of 3 characters, one hot and
  one cool reading, and M814, the code that raises the level again.
- `TickMod = 5`, `SENSOR_UPDATE_MS = 2`, `MaxAge = 3`: the tick wraps between any
  two samples. The proofs cover every modulus with `MaxAge < TickMod`.
- `Temps` and `PWords`: values on both sides of each threshold and limit.
- Timer ticks: pulse 2, gap 2, direction delay 1 or none, periods 1 (below the
  minimum, which is 4) and 6, latency up to 3. A pulse then fits or does not fit
  into the rest of a period in every way, and the period may be over before the
  pulse. One axis: the pins of all axes are written together.
- Limit switches: the board's three, with one pull-up setting; disabling a
  pull-up enters only the choice of the edge (`FallingEdge`), see 8.
- `SysTick`: delays of 0 and 2 ms, two with a callback. A tick of 3 microseconds
  of one cycle each and words of 11 values, so that every counter and the product
  of the ticks wrap, at different places; a call takes up to 4 cycles, more than a
  tick, so that the interrupt comes between its loads and the reader tries again.
- `PowerCycle`: no callbacks (they are in `SysTick`); the wait of 100 ms is 2.
- `SettingsVersions = {22, 23}`: the one `driver_setup` accepts, one it does not.
- Boards: a limit switch and up to four auxiliary inputs with any of six
  functions on two lines, so that three and four inputs contest one line. The
  numbers of the functions are the core's, which is not in this repository, and they
  matter: `MCPins` has a probe (2) between a main signal (1) and another control (3),
  and numbers the motor fault highest. `PinsNumbering` has the motor fault lowest, and
  ends with a line that nobody owns: of three inputs, without function, motor fault
  and control, the last takes the interrupt from the first and then gives it up to
  the second, which has none (driver.c 1849-1864). `NumberedApart` (6) is what a
  numbering must satisfy; that of `MCPins` does.
- Pin reports: three registrations or descriptions and two reports, on the boards
  with up to two auxiliary inputs (`MCShortReport`): a report only numbers the
  inputs. The plugin's pins are one that may be registered twice and one of the
  UART, so that two pins have one name.
- Flash: page of 6 bytes, settings of 3, quad words of 2: the last quad word is
  partial, and one is left free.

Assumptions, each a constant or a guard:

- `WindowChars = 1`. Between `txbuf.head = next_head` and the store to CR1 less
  than two characters are sent: a few instructions against a character time of
  about 13,900 cycles (10 bits at 115200 Bd, 160 MHz). An interrupt of higher
  priority is far shorter.
- `ConfigWhileSending = FALSE`: `serialSetFormat` and `serialDisable` are called
  when the transmit interrupt is off, `serialSetBaudRate` when moreover
  `serialTxCount` has returned 0. `CancelRaces = FALSE`: no byte is stored between
  the three steps of `serialRxCancel`. `Overruns = FALSE`: the handler takes a
  byte before the next one is complete. `WakeEarly = FALSE`: the core does not
  wake the timer while a pulse is out. The code does not enforce them. Section
  7 lists configurations that lift the first three; what the fourth would cost
  is a pulse that is never ended.
- `CyclesRecorded = TRUE`: the tick interrupt stores CYCCNT in `cycle_count`. The
  driver declares the variable `extern` and nothing in `src/` sets it; the HAL that
  would is not in the repository. `SysTickUnrecorded` shows what is left without.
- `ResetPreempts = TRUE` in every run of `Triac`: a reset may come between the test and
  the transfer of a foreground call. In the middle of a transfer it finds the bus
  busy, and what it leaves is what a failed one just before leaves. In
  `OverheatReport` there is no reset and the constant is FALSE. That a transfer made
  in an interrupt comes to its end when the dimmer does not answer rests on the time
  limit of the HAL, so on SysTick preempting that interrupt; its priority is the
  HAL's and not in the repository.
- SysTick is never a whole tick late, in `ElapsedTime` and `DriverDelay`: no
  foreground path of `src/` keeps interrupts off for a millisecond, and the page that
  flash.c erases is in the other bank than the code.
- In `OverheatReport`, the set-up of the heater succeeded, the line sends at least
  `CharsPerTick` characters in a tick while it is busy (11 in the code, at 115200
  Bd), and a tick finds the foreground waiting, with the pass that was due made:
  passes take microseconds, ticks 1 ms, and samples are 1 s apart. The message then
  leaves well before the next sample, which is what `OneMessageInside` needs.
  `WriterGoesOn` rests on the bounds: the stale index of the outer call is met again
  by the tail or not, as the length of the messages is modulo the size of the ring.
- No delay of 1 ms, and at most one SysTick between the two stores of
  `driver_delay`. A tick there would use up a delay of 1 ms with the old callback
  and lose the new one. No caller in `src/` asks for 1 ms.
- A delay's callback asks for no delay: `Driver_IncTick` would clear it (3434).

`CHECK_DEADLOCK FALSE` is set where the program stops: `Pins` when the loops have ended
and the bounds on registrations and reports are reached.

## 5. Fairness

Fairness is weak, with two exceptions, and of three kinds: a pending enabled
interrupt is taken; time goes on (the shifter shifts, TIM5 counts, cycles pass,
SysTick ticks); a call the foreground has begun goes on, as there is one thread
and the code of a call has no other reason to stop. Commands, switches, bytes,
resets, losses of power and answers of the blocking callback get none. In
`SerialTx` the outcome `GiveUp` has no fairness, so that `RingDrains` says the
interrupt frees the slot. In `Triac` and `OverheatReport` a pass of the realtime
loop is fair: the core runs it from its main loop and from its waits. A transfer
(`Send` in `Triac`) ends, by success or by its time limit.

The first exception is `RealtimePass` in `Triac`, which is strongly fair: a command
that is sending its level keeps the loop from its pass, and there may be any number of
commands; the loop runs between every two of them. The second is `StartUp` in
`PowerCycle`, which is strongly fair: before
`driver_setup` the core may restore defaults, that is, save, and each such save
disables the next step of the start until it ends. Strong fairness says that the
core does not restore defaults for ever. A loss of power needs no fairness;
`BootEnds` holds "unless the power goes again and again".

## 6. Proofs

Checked with `tlapm`. No theorem has an unproved step. Each holds for every value
of the constants that the assumption of the module allows; a condition beyond that
is named in the theorem (`ASSUME ... PROVE Spec => ...`):

| condition | says | why |
|---|---|---|
| `Calm` | `~ConfigWhileSending /\ WindowChars <= 1` | 4; without it `SerialTxConfig` breaks `NothingStale` |
| `Quiet` | `~CancelRaces` | 4; without it `SerialRxCancel` breaks `ImplementsRxQueue`. Overruns are allowed |
| `WokenIdle` | `~WakeEarly` | 4 |
| `LongWake` | `WAKE >= T_OFF_MIN` | `stepperWakeUp` loads 2 ms (driver.c 670), the gap is some microseconds |
| `FirstPulledUp` | no setting disables the pull-up of the first limit switch | 8; else the edge of the release is armed (driver.c 2084) |
| `NoShortDelay` | `1 \notin Delays` | 4 |
| `ShortReport` | `ReportLen < SENSOR_UPDATE_MS` | a message has some 50 characters, a sample comes every 1000 ticks (triac_mcodes.c 27) |
| `NumberedApart` | motor faults are numbered behind the probes and the controls that are no main signals, and at most one probe before a main signal | 4; without the first half `PinsNumbering` breaks `OneOwner` |
| `CyclesRecorded` | the tick interrupt stores CYCCNT | 4; without it `SysTickUnrecorded` breaks `ClocksAgree` |

Each inductive invariant below was checked by TLC before it was proved.

**`SerialTxProofs`**, under `Calm`, for every ring size from 2, every string length
and number of characters:

- `NeverStale`: `Spec => []NothingStale`
- `RingIsQueue`: `Spec => ImplementsTxQueue`
- `OrderKept`: `Spec => []InOrder`
- `RateCutsNothing`: `Spec => NothingCut`

`NothingStale` alone is not inductive. The difficulty is the window of
`serialPutC`: the new head is visible, TXEIE is perhaps still on from earlier
characters, the interrupt may empty the ring and switch itself off, and then
`Enable` switches it on. `IInv` adds what excludes it: `IPut` (between computing
`next_head` and publishing it nobody moves the head, and the slot stays free),
`IWindow` (in the window the ring holds a character, and two as long as the one
character time has not passed), `IUart` (a full TDR means a busy shifter; flush
and the stores of CR1 happen with TXEIE off) and `IGiven` (the numbers of a string
stay in range). The refinement goes action by action: `Store` leaves the queue as
it is, `Publish` appends, the interrupt takes the first, `FlushRing` empties;
lemmas `StoreQueue`, `PublishQueue`, `InterruptQueue`, `FlushQueue` say so of
the refinement mapping `Queue`. `OrderKept` is these lemmas once more, with what the
foreground carries (`IOrder`): the character between `PutC` and `Publish` is later
than all in the ring and on the wire. `RateCutsNothing` needs `ICount`: a count of 0
was read with an empty ring, and until the next write nothing fills it again.

**`SerialRxProofs`**, under `Quiet`, for every ring size and number of bytes:

- `RxRingIsQueue`: `Spec => ImplementsRxQueue`
- `RoomIsHonest`: `Spec => FreeIsHonest`
- `RxTypes`: `Spec => []TypeOK`

What must be added is what each call that is under way holds in its locals
(`ICalls`). `serialGetC` holds the oldest byte, which nobody else takes. The head
that `serialRxFlush` has loaded is in the queue or just behind it, so that its
store cuts a prefix off, whatever was received in between. `serialRxCancel` has
its CAN in the free slot. `IRoom` says that the room reported, less what was
stored since, is there; `IOld` that a byte in the ring arrived before the one in
RDR, which is the order `RxQueue` asks for.

**`StepperTimerProofs`**, for every number of axes, all times, periods and latencies:

- `NoCompareBelowZero`: `Spec => []TypeOK`, with no condition
- `PulsesAreWhole`: `Spec => PulseWidth`, under `WokenIdle` and `LongWake`, as are
- `PulsesAreApart`: `Spec => PulseGap`
- `DirectionIsSetUp`: `Spec => DirIsStable`

The invariant relates the compare registers to the clock: a pulse in flight has
either met its compare, and is long enough, or will meet it before the period is
over, after exactly the ticks it lacks (`IPulse`); the same for a delayed pulse,
its direction and the gap in front of it (`IDelayed`); between pulses what is left
of the period makes up the gap (`IGap`); and the two channels are never armed
together, nor one for nothing, where DIER as `stepperGoIdle` has loaded it counts
too (`IChannels`). `LongWake` is what `IGap` needs at the first period.

**`LimitInputsProofs`**, for every set of axes and order of their pins:

- `AlarmsAreTrue`: `Spec => []AlarmIsTrue`, under `FirstPulledUp`
- `MaskedIsQuiet`: `Spec => QuietWhenMasked`
- `LimitTypes`: `Spec => []TypeOK`

The handler serves the pending line of the lowest pin, which is the first axis
(`ServesFirst`). `IEdge`: while its vector is enabled, the edge and the level it is
compared with follow the present settings; `IMask`: outside `settings_changed` the
line is masked when it should be.

**`ControllerProofs`**, of `SysTick`, for every set of delays, number of callbacks, length of the
tick, clock frequency, width of the words and duration of a call:

- `DelaysEndInTime`: `Spec => OnTime`, under `NoShortDelay`
- `ClocksGoForward`: `Spec => ClocksAgree`, under `CyclesRecorded`
- `ReadsThePresent`: `Spec => ReadingIsOfNow`, under `CyclesRecorded`
- `SysTickTypes`: `Spec => []TypeOK`, with no condition

For the delays `IDelay`: `delay.ms` and the ticks since make up
the time asked for, and an armed callback is one still to be called. For the clocks
`IClock`: the cycles since the recorded tick are at most those since the timer was
reloaded, and the tick that is not yet counted. All clock arithmetic is modulo the
word: lemmas `DivMod` to `Share` say when `%` may be moved in and out, and that the
fraction of a tick is the true one rounded down. The invariant of a reader
(`IReading`) has three parts. `IExclusive`: an exclusive access that was not broken
loaded a tick and a cycle count that belong together. `ILoaded`: after the loads
either no tick has come, or at the first that came the clocks showed no less than
the call will return; without that disjunct nothing excludes a reading from the
future. `IGone`: the clocks have gone no further than the cycles of the call allow,
so that "between call and return" cannot be met by a wrap-around. It is for `IGone`
that the assumption of `ElapsedTime` demands `CallCycles` and two ticks to fit into
the word, which a call of the code, some dozen cycles in 2^32, does.

**`ControllerProofs`**, of `Life` in `PowerCycle`, with losses of power at any step, for every size
of page, settings and quad word; no condition:

- `SavedIsKept`: `Life => SavedIsRead`
- `ProgrammedOnce`: `Life => ErasedFirst`
- `ClocksFirst`: `Life => []ClockedBeforeUse`
- `StreamHasOneHolder`: `Life => []OneHolder`
- `LifeTypes`: `Life => []LifeTypeOK`

For the flash: the bytes below `address` are those of the settings in RAM, those
above are erased (`IProgram`); the image reported saved is in the flash until the
first step of the next save that changes it (`IKept`); a save runs unlocked
(`IUnlocked`). The last quad word, which is partial, and one that is left free are
where the sizes matter (`ProgramStep`). For the start, `IStages` says what each
stage of `main` leaves behind. A loss of power is one more step that has to keep
both (`LossStep`, `BootStep`).

**`OverheatReportProofs`**, for every size of the ring, length of strings and
messages, rate of the line and width of the tick:

- `NoMessageInMessage`: `Spec => []OneMessageInside`, under `ShortReport`
- `HeaterImplemented`: `Spec => Heater!Spec`, with no condition

The ring of a suspended write may hold anything (7), so nothing is said of its
contents. `IDrain` is enough: a ring that is not empty has its interrupt on. So a
character of a message that finds the ring full sees at most one tick
(`Served`): before a second one a character must have been sent, and then there is
room, which the interrupt alone cannot take away again. `ITime` counts them: the
ticks since the message was begun and the characters still to be stored are
together at most its length, so that no sample is due inside it. The theorem needs
one character to be sent between two ticks, a twelfth of what the line sends.

The second one says that a pass of the realtime loop from inside a waiting write, and
the message it leaves there, are to the heater a pass like any other: what
`TriacProofs` proves of the heater alone holds of the heater on the line. The line has
no such theorem (`Spec => Tx!Spec` is false): the message is a step that `SerialTx`
does not have.

**`TriacProofs`**, for all readings, P words, tick widths and intervals that the
assumption of `Triac` allows:

- `TriacTypes`: `Spec => []TypeOK`
- `SwitchSafe`: `Spec => [](DimmerFollows /\ OverheatFan)`
- `EnteringStops`: `Spec => OverheatStops`
- `OnlyByCommand`: `Spec => OnlyCommandsRaise`
- `WrapIsHarmless`: `Spec => SamplesApart`

There is no condition: they hold with resets that preempt a call and without, with
set-ups and transfers that fail, and with restarts and the hard fault. Between a restart
and `triac_init` `DimmerFollows` says nothing of the dimmer, `OnlyCommandsRaise` that it
does not rise. `DimmerFollows` names the one case it excepts, and `TriacPreempt` (7) shows
that this case exists. The invariant is `SwitchOK /\ FanOK /\ RestOK /\ ClockOK`. Of
`SwitchOK` the part that is needed for induction is `SendingOK`: what the foreground is
about to send is what the dimmer should have, unless a reset has come since. `ClockOK`
says that the wrapped difference of the ticks is the true age, which is what makes
`SamplesApart` hold at a wrap. `OverheatFan` is proved and not listed as a run's
property.

**`PinReportProofs`**, for every well-formed board, all functions, and any number of
plugins, pins, descriptions and reports:

- `LineTypes`: `Spec => []TypeOK` (of `Pins`: configuration `PinsTypes`), no condition
- `ControlsAreServed`: `Spec => []ControlsInterrupt`, no condition
- `EveryLineOwned`: `Spec => []OneOwner`, under `NumberedApart`
- `ReportAsRegistered`: `ReportSpec => PinsAsRegistered`, no condition

The lemma `ReportRefines`, `ReportSpec => Spec`, carries the first three over to the
specification the runs check. Every loop of the code is a loop of steps, so that the
induction is over steps. `ILoops` needs nothing of the numbers: the auxiliary inputs
come one behind the other from `inputs` on (`IPlaces`, with which the inner loop looks
at earlier auxiliary inputs only), an input has its function or its number (`INames`),
and of two inputs with an interrupt on one line one is the contestant, which has not
met the other yet (`ISingle`): no line ends with two owners. That it does not end with
none is harder, and depends on the numbers. `IOwned` says that each line has an owner
that is ahead of all the others so far (`Ahead`: it has the lower number, or the other
one is a motor fault, or a probe that has lost its line to it, a main signal, and
keeps its function); and that the contestant either wins against all of
them (`WinsAll`) or loses to the owner (`LosesTo`), in which case it may have to lose
its function first to one it meets earlier. Without `NumberedApart` there is a third case:
it beats the owner and loses to one that has no interrupt.

For the reports, `IReport` relates the list to the history: `places` is increasing and
has every pin that found memory (`IOrder`), and the description of a pin is the last
text given for its name, or none if a pin of that name is before it (`ITexts`).

Only model-checked:

- Liveness: `RingDrains`, `WriterGoesOn`, `InterruptIsAnswered`, `HotIsNoticed`,
  `PulseEnds`, `CoreIsCalled`, `FirstLimitFires`, `BootEnds`, `CallbackComes`,
  `SaveEnds`. The prover has no rule for fairness that it could use here.
- The safety properties of the configurations of section 7, which are violated.

Every safety property that a passing run of section 3 checks is a theorem: the
invariants, the action properties and the two refinements.

The proofs about `SerialTx` say nothing of writes from inside the blocking
callback: those break the queue (`OverheatQueue`, see 7) and exist only in
`OverheatReport`.

## 7. Disagreements between code and its words

Listed as findings, each with a run that TLC finishes with a violation:

- `OverheatQueue`: a write from inside the blocking callback of a waiting
  `serialPutC` makes its `next_head` stale (636-643); the report of
  `triac_realtime_handler` (triac_mcodes.c 40) is such a write, and the run finds
  one that takes characters of an accepted message out of the ring. "blocks if
  buffer full" (650) promises a queue.
- `TriacReport`: "TRIAC OVERHEAT - output disabled" (triac_mcodes.c 40) is reported
  again and again while M814 has switched the output on (triac_control.c 217-221
  and 250).
- `LimitInputsAll`: only the vector of `inputpin[0]` is enabled again (driver.c
  2288-2291), so the other limit switches raise no alarm of their own.

Further configurations that end in a violation. They are kept because each shows
what an assumption of section 4, or the leaving out of a case, is worth:

| configuration | property | why |
|---|---|---|
| `SerialTxConfig` | `NothingStale` | read-modify-write of CR1 (727 ff.) brings back a TXEIE the interrupt has cleared |
| `SerialTxHoles` | `StringsHaveNoHoles` | `serialWriteS` (652-669) goes on after a refused character |
| `SerialRxCancel` | `ImplementsRxQueue` | a byte stored between 624 and 629 replaces the CAN, or is lost |
| `SerialRxOverrun` | `InterruptIsAnswered` | ORE is never cleared (845-857), while README.md 205 speaks of renamed registers only |
| `TriacPreempt` | `SentWhenEnabled` | a reset between the test of `s_enabled` and the transfer behind it (triac_control.c 210-211) disables and sends 0, then the foreground sends its level: the dimmer stays on with `s_enabled` and `i2c_error` false, against triac_control.h 91-92; the next reset, M815 or a sample that enters the overheat state switches it off, M810 does not (210) |
| `TriacCodes` | `ListedCodesRun` | triac_control.h 26 lists M812 and M813, triac_mcodes.c 46-58 does not accept them |
| `StepperIdle` | `StaysClear` | `stepperGoIdle` clears UIE only (driver.c 1169); a delayed pulse begins after it, against 1166 |
| `LimitInputsState` | `StateNamesAxes` | `LIMIT_INMODE` is 0, so the port's bits 6-8 are not shifted to the axis bits (driver.c 1505, 1447) |
| `LimitInputsOff` | `OffMeansOff` | `HAL_GPIO_Init` (driver.c 2260) unmasks the lines before 2297 masks them |
| `SysTickUnrecorded` | `ClocksAgree` | with `cycle_count` never set, the fraction is clipped to a tick and the clock jumps (driver.c 1971) |
| `PinsNumbering` | `OneOwner` | with a motor fault numbered below the controls, three inputs on a line may end without an owner (driver.c 1849-1864) |
| `PinReportTwice` | `InputsAreInputs` | the static `pin` of `enumeratePins` is not cleared (driver.c 2313-2317): a second report shows inputs as outputs, too |
| `NvsFlashSize` | `StaysInArea` | `size_max` is 16 KB (driver.c 2928), the page 8 KB (STM32U585AIIXQ_FLASH.ld 53) |

Places the models avoid or only note: `Driver_IncTick` clears `delay.callback` after
the call, so that a callback which starts a delay loses it (driver.c 3434); with a
pull-up disabled the edge that is armed is the one of the release (driver.c 2084);
RXNEIE is on as soon as the rate is set (serial.c 722), while the pointer the handler
calls with every byte (849) is set by the core, later (759).

Two differences of wording the models do not meet: main.c 113 gives the BRR value
as 0x56CE4, README.md 176 as 0x56CE3; triac_control.h 98 says `triac_disable` also
switches I2C off, which it does not.

## 8. What is not modelled

- The grblHAL core, the HAL and the start-up code: not in this repository. Their
  effects are written from the uses in `src/` and marked external in
  `PROJECT.json`.
- Compiled out for this board: the other UARTs, MPG, RTC, SD card, Ethernet,
  encoders, RGB LED, step injection, bootloader entry, ganged axes, squaring,
  `Z_LIMIT_POLL`, `SystemClock_Config`, the flash variants of other chips.
- Values of clock, GPIO, ADC and I2C registers, and with them the rates; a failed
  clock call is modelled only as a start that goes on.
- Text of reports and of the M816 status.
- `coolantSetState`, `systemGetState`, `stepperEnable`: single accesses to pins.
  `bitsSetAtomic` and its relatives run with interrupts off.
- `serialSuspendInput` hands over to `stream_rx_suspend`, and `aux_claim_explicit`
  and `aux_irq_handler` to the core's ports and tools: the core's state is not here,
  and this board maps no control input that would lead to them.
- In `LimitInputs`, settings of `disable_pullup` other than none: the model keeps
  the variable, the run one value. With a pull-up disabled the edge that is armed
  is the one of the release (`FallingEdge`); `AlarmIsTrue` and `FirstLimitFires`
  do not hold then.
- Fault handlers are endless loops; only the hard fault of a conversion without
  set-up is a state of a model (`halted` in `Triac`).
- The names and numbers of ports in a pin report, and `getElapsedTicks`, which is
  one load.

## 9. The plan

The order of work, most important first. Done:

1. transmit ring and its queue: `TxQueue`, `SerialTx`, `SerialTxProofs`
2. heater: `Triac`, `TriacProofs`
3. receive ring and its queue: `RxQueue`, `SerialRx`
4. step pulses: `StepperTimer`
5. limit switches: `LimitInputs`
6. delays and the start: `DriverDelay`, `Boot`
7. sharing of the lines: `Pins`
8. flash: `NvsFlash`
9. change of the rate with its read-modify-writes: `SerialTx`, `SerialRx`, and the
   proofs with it
10. the heater's messages inside a blocked write: `OverheatReport`
11. set-ups that fail: `Triac`, and the proofs with it
12. elapsed time, and delays under the same interrupt: `ElapsedTime`, `SysTick`
13. losses of power over start and saves: `PowerCycle`
14. pin reports: `PinReport`
15. proofs of every safety property that the passing runs check
16. turns of the contest as steps, and calls of `registerPeriphPin`: `Pins`,
    `PinReport`, and the proofs with it
17. resets that preempt a transfer, and the time between a restart and `triac_init`:
    `Triac`, and the proofs with it

To extend the models:

- the control inputs that share `EXTI15_10` and the debounce task of the core,
  so that `Pins` and `LimitInputs` meet, on a board that maps such inputs;
- the second UART with the first, and MPG mode, which switches the core between
  them, on a board that compiles them.

To prove: nothing of safety that a passing run checks is left. The liveness properties
stay with TLC (6).
