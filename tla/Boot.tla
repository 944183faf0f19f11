-------------------------------- MODULE Boot --------------------------------
(***************************************************************************)
(* From reset to the running controller: main (main.c), driver_init and    *)
(* driver_setup (driver.c), serialInit and the claim of the stream         *)
(* (serial.c), with the delays of DriverDelay, one of which driver_setup   *)
(* waits for.  The core's grbl_enter calls driver_init, reads the settings,*)
(* calls driver_setup and then runs; it may announce settings through      *)
(* hal.settings_changed as soon as driver_init has set that pointer, and   *)
(* another part of it may ask for the stream or give it back.              *)
(***************************************************************************)
EXTENDS DriverDelay, FiniteSets

CONSTANTS
  SetupDelay,         \* the wait of driver_setup, 100 ms in the code
  SettingsVersions    \* values of settings->version.id

ASSUME BootAssumption ==
  /\ SetupDelay \in Delays \ {0}
  /\ SettingsVersions \subseteq Nat

VARIABLES
  at,            \* how far main is
  ticking,       \* SysTick interrupts
  clocked,       \* peripherals whose bus clock is on
  vddio2,        \* Port G is not isolated
  claimed,       \* serial[0].flags.claimed
  init_ok,       \* serial[0].flags.init_ok
  rxneie,        \* CR1.RXNEIE of LPUART1
  nvic,          \* interrupts enabled in the NVIC
  IOInitDone,
  written,       \* history: peripherals whose registers this step wrote
  held           \* history: streams the core was given and did not give back

bootVars  == <<at, ticking, clocked, vddio2, claimed, init_ok, rxneie, nvic, IOInitDone,
               written, held>>
startVars == <<delayVars, bootVars>>

\* After reset.
BootInit ==
  /\ DelayInit
  /\ at = "reset" /\ ticking = FALSE /\ clocked = {} /\ vddio2 = FALSE
  /\ claimed = FALSE /\ init_ok = FALSE /\ rxneie = FALSE /\ nvic = {}
  /\ IOInitDone = FALSE
  /\ written = {} /\ held = 0

At(here, next) == at = here /\ at' = next

-----------------------------------------------------------------------------
(* main.                                                                   *)

HAL_Init ==
  /\ At("reset", "clocks")
  /\ ticking' = TRUE
  /\ written' = {}
  /\ UNCHANGED <<delayVars, clocked, vddio2, claimed, init_ok, rxneie, nvic, IOInitDone, held>>

\* The clock tree, then VDDIO2.  A call that fails leads to Error_Handler, which
\* returns: main goes on as if it had not failed.
SystemClocks ==
  /\ At("clocks", "gpio")
  /\ vddio2' = TRUE
  /\ written' = {}
  /\ UNCHANGED <<delayVars, ticking, clocked, claimed, init_ok, rxneie, nvic, IOInitDone, held>>

MX_GPIO_Init ==
  /\ At("gpio", "init")
  /\ clocked' = clocked \cup {"GPIO", "PortG"}
  /\ written' = {}
  /\ UNCHANGED <<delayVars, ticking, vddio2, claimed, init_ok, rxneie, nvic, IOInitDone, held>>

-----------------------------------------------------------------------------
(* The stream.                                                             *)

serialSetBaudRate == rxneie' = TRUE

\* Mutant: the stream is given to whoever asks.
Claimable_Always == claimed \in BOOLEAN

\* flags.claimable is On from the start.
Claimable == ~claimed

\* The stream is given to one user; the hardware is set up for the first one.
serialInit ==
  /\ Claimable
  /\ claimed' = TRUE /\ held' = held + 1
  /\ init_ok' = TRUE
  /\ IF init_ok
     THEN UNCHANGED <<clocked, vddio2, nvic>>
     ELSE /\ clocked' = clocked \cup {"LPUART1"}
          /\ vddio2' = TRUE
          /\ nvic' = nvic \cup {"LPUART1"}
  /\ written' = {"LPUART1"} \cup (IF init_ok THEN {} ELSE {"PortG"})
  /\ serialSetBaudRate

\* Without a stream driver_init does not return.
Connect ==
  IF Claimable
  THEN serialInit /\ at' = "settings"
  ELSE /\ at' = "stuck"
       /\ UNCHANGED <<clocked, vddio2, claimed, init_ok, rxneie, nvic, written, held>>

\* hal is filled in, the stream is connected; what follows there touches no
\* register (module Pins).
driver_init ==
  /\ at = "init"
  /\ Connect
  /\ UNCHANGED <<delayVars, ticking, IOInitDone>>

\* Another user asks for the stream.
Open ==
  /\ at = "run" /\ pc = "idle"
  /\ serialInit
  /\ UNCHANGED <<delayVars, at, ticking, IOInitDone>>

\* uart_release: the line stays as it is.
uart_release ==
  /\ at = "run" /\ pc = "idle"
  /\ claimed
  /\ claimed' = FALSE /\ held' = held - 1
  /\ written' = {}
  /\ UNCHANGED <<delayVars, at, ticking, clocked, vddio2, init_ok, rxneie, nvic, IOInitDone>>

-----------------------------------------------------------------------------
(* driver_setup.                                                           *)

\* The board has no output that switches stepper power: the wait is all.
driver_setup ==
  /\ At("settings", "wait")
  /\ pc = "idle" /\ Call(SetupDelay, NULL)
  /\ written' = {}
  /\ UNCHANGED <<ticking, clocked, vddio2, claimed, init_ok, rxneie, nvic, IOInitDone, held>>

\* After the wait: the outputs, and the stepper timer.
SetupOutputs ==
  /\ At("wait", "configure")
  /\ pc = "idle"
  /\ clocked' = clocked \cup {"TIM5"}
  /\ nvic' = nvic \cup {"TIM5"}
  /\ written' = {"GPIO", "TIM5"}
  /\ UNCHANGED <<delayVars, ticking, vddio2, claimed, init_ok, rxneie, IOInitDone, held>>

\* Mutant: settings_changed does not wait for driver_setup.
settings_changed_Unguarded(done) == written' = {"GPIO", "TIM5"}

\* settings_changed: the stepper timer is stopped and the pins are set up, once
\* driver_setup has been there.
settings_changed(done) == written' = IF done THEN {"GPIO", "TIM5"} ELSE {}

\* Settings of another version than 23 leave the driver as it is.
SetupSettings ==
  /\ At("configure", "triac")
  /\ \E version \in SettingsVersions : IOInitDone' = (version = 23)
  /\ settings_changed(IOInitDone')
  /\ UNCHANGED <<delayVars, ticking, clocked, vddio2, claimed, init_ok, rxneie, nvic, held>>

\* triac_mcodes_register with gpio_init, i2c_init and adc_init, and the return to the
\* core.  adc_init may give up before it has come to the ADC.
SetupTriac ==
  /\ At("triac", "run")
  /\ \E adc \in {{}, {"ADC1"}} :
       /\ clocked' = clocked \cup {"GPIO", "I2C2"} \cup adc
       /\ written' = {"GPIO", "I2C2"} \cup adc
  /\ UNCHANGED <<delayVars, ticking, vddio2, claimed, init_ok, rxneie, nvic,
                 IOInitDone, held>>

\* The core announces settings.
SettingsChanged ==
  /\ at \in {"settings", "run"} /\ pc = "idle"
  /\ settings_changed(IOInitDone)
  /\ UNCHANGED <<delayVars, at, ticking, clocked, vddio2, claimed, init_ok, rxneie, nvic,
                 IOInitDone, held>>

-----------------------------------------------------------------------------
(* The wait, and the interrupt that ends it.                               *)

Quiet ==
  /\ written' = {}
  /\ UNCHANGED <<at, ticking, clocked, vddio2, claimed, init_ok, rxneie, nvic, IOInitDone, held>>

InWait == (Arm \/ WaitOver) /\ Quiet

SysTick == ticking /\ Driver_IncTick /\ Quiet

-----------------------------------------------------------------------------
MainNext ==
  \/ HAL_Init \/ SystemClocks \/ MX_GPIO_Init \/ driver_init
  \/ driver_setup \/ SetupOutputs \/ SetupSettings \/ SetupTriac

CoreNext == Open \/ uart_release \/ SettingsChanged

-----------------------------------------------------------------------------
(* Properties.                                                             *)

Peripheral == {"GPIO", "PortG", "LPUART1", "TIM5", "I2C2", "ADC1"}

BootTypeOK ==
  /\ DelayTypeOK
  /\ at \in {"reset", "clocks", "gpio", "init", "settings", "wait", "configure", "triac", "run"}
  /\ clocked \subseteq Peripheral /\ written \subseteq Peripheral
  /\ nvic \subseteq {"LPUART1", "TIM5"}
  /\ {ticking, vddio2, claimed, init_ok, rxneie, IOInitDone} \subseteq BOOLEAN
  /\ held \in Nat

\* By the start, by those who ask for the stream, and by settings announced at any time,
\* before driver_setup too, no register of a Peripheral is written that has no clock,
\* nor of Port G while it is isolated (BUILD.md 56-57).  A function that switches a clock
\* on and then writes (serialInit, SetupOutputs, SetupTriac) is one step.
ClockedBeforeUse ==
  /\ written \subseteq clocked
  /\ "PortG" \in written => vddio2

\* One user at a time holds the stream, and it can be had again when given back.
OneHolder == held = IF claimed THEN 1 ELSE 0
=============================================================================
