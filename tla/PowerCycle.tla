----------------------------- MODULE PowerCycle -----------------------------
(***************************************************************************)
(* The life of the controller: it starts (Boot), reads the settings from   *)
(* flash on the way, runs and saves settings (NvsFlash), and loses its     *)
(* power at any moment, in the middle of the start or of a save, to start  *)
(* again with what the flash then holds.  One thread does all of it; only  *)
(* the SysTick interrupt comes in between.                                 *)
(***************************************************************************)
EXTENDS Boot

CONSTANTS Bytes, FF, TORN, PageSize, NvsSize, Quad

VARIABLES flash, erased, locked, source, save, address, kept

Nvs == INSTANCE NvsFlash WITH pc <- save

ASSUME LifeAssumption == Nvs!SizesFit

nvs     == <<flash, erased, locked, source, save, address, kept>>
allVars == <<startVars, nvs>>

PowerOn == BootInit /\ Nvs!Init

-----------------------------------------------------------------------------
\* A step of Boot.  The foreground makes none while it saves, and the core reads the
\* settings between driver_init and driver_setup.
StartUp ==
  /\ MainNext \/ InWait
  /\ at = "settings" => save = "idle"
  /\ ~Nvs!Running
  /\ UNCHANGED nvs

Core == CoreNext /\ ~Nvs!Running /\ UNCHANGED nvs

SysTickInterrupt == SysTick /\ UNCHANGED nvs

\* The core reads the settings, changes them and saves them.
ReadSettings == at = "settings" /\ Nvs!Start /\ UNCHANGED startVars

Settings ==
  /\ at \in {"settings", "run"} /\ pc = "idle"
  /\ Nvs!Change \/ Nvs!Unchanged \/ Nvs!memcpy_to_flash
  /\ UNCHANGED startVars

Saving == Nvs!Running /\ Settings

\* Registers and RAM are lost.
PowerLoss ==
  /\ IF save = "off" THEN UNCHANGED nvs ELSE Nvs!PowerLoss
  /\ ms' = 1 /\ callback' = NULL
  /\ pc' = "idle" /\ arg' = NULL /\ want' = 1
  /\ calls' = 0 /\ live' = {} /\ called' = NULL /\ ticks' = 0
  /\ at' = "reset" /\ ticking' = FALSE /\ clocked' = {} /\ vddio2' = FALSE
  /\ claimed' = FALSE /\ init_ok' = FALSE /\ rxneie' = FALSE /\ nvic' = {}
  /\ IOInitDone' = FALSE
  /\ written' = {} /\ held' = 0

-----------------------------------------------------------------------------
LifeNext == StartUp \/ Core \/ SysTickInterrupt \/ ReadSettings \/ Settings \/ PowerLoss

Life == PowerOn /\ [][LifeNext]_allVars

\* main goes on, also between the saves with which the core may restore the defaults
\* before driver_setup (hence SF), a save that has begun goes on, and SysTick
\* interrupts.  Nobody need open a stream or save anything, and the power need not go.
FairLife ==
  /\ Life
  /\ SF_allVars(StartUp) /\ WF_allVars(ReadSettings) /\ WF_allVars(SysTickInterrupt)
  /\ WF_allVars(Saving)

-----------------------------------------------------------------------------
(* Properties.                                                             *)

\* The two components' variables stay in their ranges.
LifeTypeOK == BootTypeOK /\ Nvs!TypeOK

\* Unless the power goes again and again, the start comes to its end, whatever a cut
\* off save has left in the flash: driver_init finds its stream free, and driver_setup
\* does not hang in its wait (stm32u5xx_it.c 191-193).
BootEnds == []<>(at = "run") \/ []<><<PowerLoss>>_allVars

\* An image that was reported saved is what every later start reads, whatever was
\* changed in RAM or failed to unlock in between (flash.c 45, 52-53, 83-88).
SavedIsRead == [][ReadSettings /\ kept # Nvs!NONE => source' = kept]_allVars

\* A quad word is programmed, unlocked, once after an erasure, never twice, also when
\* the erasure had to be tried again (flash.c 76-88) or a save was cut off.
ErasedFirst == Nvs!ErasedFirst

\* A save comes to an end (flash.c 76-99: one retry, and a loop that moves on).
SaveEnds == Nvs!SaveEnds
=============================================================================
