------------------------------ MODULE NvsFlash ------------------------------
(***************************************************************************)
(* The settings in flash (flash.c): memcpy_to_flash erases the page of the *)
(* EEPROM emulation and programs it in quad words, memcpy_from_flash reads *)
(* it back.  The HAL calls may fail, and the power may go at any time.     *)
(***************************************************************************)
EXTENDS Naturals

CONSTANTS
  Bytes,      \* the values of a byte that are told apart
  FF,         \* the value of an erased byte, one of them
  TORN,       \* a byte whose erasure or programming was cut off: reads as anything
  PageSize,   \* bytes of the emulation area
  NvsSize,    \* hal.nvs.size, set by the grbl core
  Quad        \* bytes programmed by one call, 16 on this chip

\* What a user of this module assumes of the constants.
SizesFit ==
  /\ FF \in Bytes /\ TORN \notin Bytes
  /\ PageSize \in Nat \ {0} /\ NvsSize \in Nat \ {0} /\ Quad \in Nat \ {0}
  /\ PageSize % Quad = 0

Offset == 0 .. NvsSize - 1
Area   == 0 .. PageSize - 1
Image  == [Offset -> Bytes]
NONE   == [o \in {} |-> FF]

VARIABLES
  flash,     \* the page
  erased,    \* the bytes of it that were not programmed since they were erased
  locked,    \* FLASH->NSCR.LOCK
  source,    \* the settings in RAM, kept by the core
  pc,        \* where memcpy_to_flash is, or "off"
  address,   \* offset of the next quad word
  kept       \* history: the image of the last save that returned true, or NONE

vars == <<flash, erased, locked, source, pc, address, kept>>

\* The program was never saved to a page that is erased.
Init ==
  /\ flash = [a \in Area |-> FF] /\ erased = Area
  /\ locked = TRUE
  /\ source = [o \in Offset |-> FF]
  /\ pc = "off" /\ address = 0 /\ kept = NONE

-----------------------------------------------------------------------------
(* Starting and changing settings.                                         *)

\* What memcpy copies from byte a of the flash.
ReadByte(a) == IF a \in Area /\ flash[a] # TORN THEN {flash[a]} ELSE Bytes

memcpy_from_flash == {image \in Image : \A o \in Offset : image[o] \in ReadByte(o)}

\* The core reads the settings when it starts.
Start ==
  /\ pc = "off"
  /\ source' \in memcpy_from_flash
  /\ pc' = "idle"
  /\ UNCHANGED <<flash, erased, locked, address, kept>>

\* The core changes a setting, or restores the defaults.
Change ==
  /\ pc = "idle"
  /\ \E o \in Offset, b \in Bytes : source' = [source EXCEPT ![o] = b]
  /\ UNCHANGED <<flash, erased, locked, pc, address, kept>>

-----------------------------------------------------------------------------
(* memcpy_to_flash.                                                        *)

SameAsFlash == source \in memcpy_from_flash

\* Equal already: true, and nothing is written.  A torn byte may read as equal
\* and is then not to be relied on.
Unchanged ==
  /\ pc = "idle"
  /\ SameAsFlash
  /\ kept' = IF \A o \in Offset : o \in Area /\ flash[o] = source[o] THEN source ELSE NONE
  /\ UNCHANGED <<flash, erased, locked, source, pc, address>>

\* Different: the flash is unlocked.  If that fails, false is returned.
Unlock ==
  /\ pc = "idle"
  /\ \E o \in Offset : ReadByte(o) # {source[o]}
  /\ \/ locked' = FALSE /\ pc' = "erase" /\ address' = 0
     \/ UNCHANGED <<locked, pc, address>>
  /\ UNCHANGED <<flash, erased, source, kept>>

EraseDone ==
  /\ flash' = [a \in Area |-> FF] /\ erased' = Area
  /\ pc' = "program"

\* The page stays as it is or is left half erased.
EraseFailed ==
  /\ \/ UNCHANGED <<flash, erased>>
     \/ flash' = [a \in Area |-> TORN] /\ erased' = {}

\* The first attempt: a failure is tried again.
Erase ==
  /\ pc = "erase"
  /\ EraseDone \/ (EraseFailed /\ pc' = "eraseAgain")
  /\ kept' = NONE
  /\ UNCHANGED <<locked, source, address>>

\* Mutant: the status of the second attempt is not looked at.
EraseAgain_Ignored ==
  /\ pc = "eraseAgain"
  /\ EraseDone \/ (EraseFailed /\ pc' = "program")
  /\ UNCHANGED <<locked, source, address, kept>>

EraseAgain ==
  /\ pc = "eraseAgain"
  /\ EraseDone \/ (EraseFailed /\ pc' = "failed")
  /\ UNCHANGED <<locked, source, address, kept>>

QuadAt(a) == a .. a + Quad - 1

\* qbuf: the rest of the source, filled with 0xFF.
Qbuf(a) == [b \in QuadAt(a) |-> IF b < NvsSize THEN source[b] ELSE FF]

\* Mutant: remaining wraps below zero in a last quad word that is not full, and
\* the loop goes on.
Program_Underflow ==
  /\ pc = "program"
  /\ \/ /\ QuadAt(address) \subseteq Area
        /\ flash' = [a \in Area |-> IF a \in QuadAt(address) THEN Qbuf(address)[a] ELSE flash[a]]
        /\ address' = address + Quad /\ UNCHANGED pc
     \/ pc' = "failed" /\ UNCHANGED <<flash, address>>
  /\ erased' = erased \ QuadAt(address)
  /\ UNCHANGED <<locked, source, kept>>

\* Mutant: the data move on, the address does not.
Program_SameAddress ==
  /\ pc = "program"
  /\ address < NvsSize
  /\ flash' = [a \in Area |-> IF a \in QuadAt(0) THEN Qbuf(address)[a] ELSE flash[a]]
  /\ erased' = erased \ QuadAt(0)
  /\ UNCHANGED <<locked, source, kept, pc, address>>

\* One turn of the loop.  The chip refuses a quad word outside the flash; one that
\* fails is left as it was or half programmed.
Program ==
  /\ pc = "program"
  /\ address < NvsSize
  /\ \/ /\ QuadAt(address) \subseteq Area
        /\ flash' = [a \in Area |-> IF a \in QuadAt(address) THEN Qbuf(address)[a] ELSE flash[a]]
        /\ address' = address + Quad /\ UNCHANGED pc
     \/ /\ flash' = [a \in Area |-> IF a \in QuadAt(address) THEN TORN ELSE flash[a]]
        /\ pc' = "failed" /\ UNCHANGED address
  /\ erased' = erased \ QuadAt(address)
  /\ UNCHANGED <<locked, source, kept>>

\* Mutant: the loop is left when less than a quad word remains.
Saved_WholeQuads ==
  /\ pc = "program"
  /\ address + Quad > NvsSize
  /\ locked' = TRUE
  /\ pc' = "idle"
  /\ kept' = source
  /\ UNCHANGED <<flash, erased, source, address>>

\* The loop is left with nothing remaining: locked, and true is returned.
Saved ==
  /\ pc = "program"
  /\ address >= NvsSize
  /\ locked' = TRUE
  /\ pc' = "idle"
  /\ kept' = source
  /\ UNCHANGED <<flash, erased, source, address>>

\* A call failed: locked all the same, and false is returned.
Failed ==
  /\ pc = "failed"
  /\ locked' = TRUE
  /\ pc' = "idle"
  /\ UNCHANGED <<flash, erased, source, address, kept>>

-----------------------------------------------------------------------------
(* The power goes.  An operation under way is cut off; the chip starts     *)
(* locked.                                                                 *)

PowerLoss ==
  /\ pc # "off"
  /\ CASE pc \in {"erase", "eraseAgain"} ->
            flash' = [a \in Area |-> TORN] /\ erased' = {} /\ kept' = NONE
       [] pc = "program" /\ address < NvsSize ->
            /\ flash' = [a \in Area |-> IF a \in QuadAt(address) THEN TORN ELSE flash[a]]
            /\ erased' = erased \ QuadAt(address)
            /\ UNCHANGED kept
       [] OTHER -> UNCHANGED <<flash, erased, kept>>
  /\ locked' = TRUE
  /\ pc' = "off" /\ address' = 0
  /\ UNCHANGED source

-----------------------------------------------------------------------------
memcpy_to_flash == Unlock \/ Erase \/ EraseAgain \/ Program \/ Saved \/ Failed

Next == Start \/ Change \/ Unchanged \/ memcpy_to_flash \/ PowerLoss

Spec == Init /\ [][Next]_vars

\* memcpy_to_flash is not left half way.
Running  == pc \in {"erase", "eraseAgain", "program", "failed"}
FairSpec == Spec /\ WF_vars(Running /\ memcpy_to_flash)

-----------------------------------------------------------------------------
(* Properties.                                                             *)

TypeOK ==
  /\ flash \in [Area -> Bytes \cup {TORN}] /\ erased \subseteq Area
  /\ locked \in BOOLEAN
  /\ source \in Image /\ kept \in Image \cup {NONE}
  /\ pc \in {"off", "idle", "erase", "eraseAgain", "program", "failed"}
  /\ address \in 0 .. NvsSize + Quad

\* A quad word is programmed, unlocked, once after an erasure, never twice, also when the
\* erasure had to be tried again (flash.c 76-88).
ErasedFirst ==
  [][pc = "program" /\ pc' = "program"
     => ~locked /\ QuadAt(address) \subseteq erased]_vars

\* A save comes to an end (flash.c 76-99: one retry, and a loop that moves on).
SaveEnds == Running ~> ~Running

\* The driver stays in the EEPROM emulation area, the last 8 KB of the flash
\* (STM32U585AIIXQ_FLASH.ld 53).
StaysInArea == pc = "program" /\ address < NvsSize => QuadAt(address) \subseteq Area
=============================================================================
