------------------------------ MODULE SerialRx ------------------------------
(***************************************************************************)
(* The receive half of the LPUART1 stream (serial.c).  The hardware puts a *)
(* byte into RDR and raises RXNE; UART0_IRQHandler takes it from there,    *)
(* hands realtime commands to the core and stores the rest into the ring;  *)
(* the foreground reads the ring with serialGetC, empties it with          *)
(* serialRxFlush and serialRxCancel and gates the interrupt with           *)
(* serialDisable.  The foreground does not lock the handler out, so each   *)
(* of its accesses to rxbuf is a step of its own; it makes none while the  *)
(* interrupt is pending and enabled (NVIC priority 1 against thread mode). *)
(*                                                                         *)
(* Bytes are numbered 1, 2, ... as they arrive on the line; 0 is what a    *)
(* slot holds at power up, and CAN is a number no received byte has.       *)
(***************************************************************************)
EXTENDS Naturals, Sequences

CONSTANTS
  RX_BUFFER_SIZE,   \* slots of the ring; it holds one byte less
  MaxBytes,         \* bound on the bytes the host sends
  MaxCancels,       \* bound on the calls of serialRxCancel
  CancelRaces,      \* may a byte be stored while serialRxCancel runs?
  Overruns          \* may a byte arrive before the one before it was taken?

ASSUME ConstantsAssumption ==
  /\ RX_BUFFER_SIZE \in Nat \ {0, 1}
  /\ MaxBytes \in Nat /\ MaxCancels \in Nat
  /\ CancelRaces \in BOOLEAN /\ Overruns \in BOOLEAN

ASCII_CAN == MaxBytes + 1

VARIABLES
  data, head, tail, \* rxbuf
  overflow,         \* rxbuf.overflow
  rxne, rdr, ore,   \* ISR.RXNE, RDR and ISR.ORE
  rxneie,           \* CR1.RXNEIE
  arrived,          \* bytes that have arrived on the line
  read,             \* history: what serialGetC returned
  pc, ptr, byte,    \* the foreground and the locals of the call it is in
  cancels,          \* calls of serialRxCancel so far
  promise           \* stores the last serialRxFree still has room for

ring  == <<data, head, tail, overflow>>
uart  == <<rxne, rdr, ore, rxneie>>
local == <<pc, ptr, byte>>
vars  == <<ring, uart, arrived, read, local, cancels, promise>>

Slot == 0 .. RX_BUFFER_SIZE - 1

\* Mutant: the index runs past the end of the array.
BUFNEXT_Unwrapped(i) == i + 1

\* The ring arithmetic of the core's BUFNEXT and BUFCOUNT macros.
BUFNEXT(i) == IF i = RX_BUFFER_SIZE - 1 THEN 0 ELSE i + 1
BUFCOUNT == IF head >= tail THEN head - tail ELSE head + RX_BUFFER_SIZE - tail

Init ==
  /\ data = [i \in Slot |-> 0] /\ head = 0 /\ tail = 0 /\ overflow = FALSE
  /\ rxne = FALSE /\ rdr = 0 /\ ore = FALSE /\ rxneie = TRUE
  /\ arrived = 0 /\ read = <<>>
  /\ pc = "idle" /\ ptr = 0 /\ byte = 0
  /\ cancels = 0 /\ promise = 0

-----------------------------------------------------------------------------
(* The receiver and its interrupt.                                         *)

\* A byte is complete on the line.  A receiver that is off misses it.  When the
\* byte before it is still in RDR it is lost, and ORE stays set until software
\* writes ORECF to ICR.
Receive ==
  /\ arrived < MaxBytes
  /\ arrived' = arrived + 1
  /\ IF pc = "baud" THEN UNCHANGED <<rxne, rdr, ore>>
     ELSE IF rxne
     THEN /\ Overruns
          /\ ore' = TRUE
          /\ UNCHANGED <<rxne, rdr>>
     ELSE /\ rxne' = TRUE /\ rdr' = arrived'
          /\ UNCHANGED ore
  /\ UNCHANGED <<ring, rxneie, read, local, cancels, promise>>

\* Both flags request the interrupt that RXNEIE enables.
IrqPending == (rxne \/ ore) /\ rxneie

\* The foreground is inside serialRxCancel.
Cancelling == pc \in {"cancel2", "cancel3"}

\* The byte is kept out of the ring: the core took it as a realtime command.
RealtimeByte == UNCHANGED <<ring, promise>>

\* There is room: store the byte, move the head.
StoreByte ==
  /\ BUFNEXT(head) # tail
  /\ data' = [data EXCEPT ![head] = rdr]
  /\ head' = BUFNEXT(head)
  /\ promise' = IF promise = 0 THEN 0 ELSE promise - 1
  /\ UNCHANGED <<tail, overflow>>

\* Mutant: the head moves without looking where the tail is.
DropByte_Overwrites ==
  /\ BUFNEXT(head) = tail
  /\ overflow' = TRUE
  /\ data' = [data EXCEPT ![head] = rdr]
  /\ head' = BUFNEXT(head)
  /\ UNCHANGED <<tail, promise>>

\* No room: the byte is dropped and the overflow is flagged.
DropByte ==
  /\ BUFNEXT(head) = tail
  /\ overflow' = TRUE
  /\ UNCHANGED <<data, head, tail, promise>>

\* Mutant: a byte that does not fit is left in RDR.
UART0_IRQHandler_LeavesRXNE ==
  /\ IrqPending \/ rxne
  /\ Cancelling => CancelRaces
  /\ IF rxne THEN /\ rxne' = (BUFNEXT(head) = tail)
                  /\ RealtimeByte \/ StoreByte \/ DropByte
             ELSE UNCHANGED <<rxne, ring, promise>>
  /\ UNCHANGED <<rdr, ore, rxneie, arrived, read, local, cancels>>

\* UART0_IRQHandler, receive part.  It tests RXNE and never ORE or RXNEIE; the
\* transmit interrupt enters it too, so it may run with RXNEIE off.
UART0_IRQHandler ==
  /\ IrqPending \/ rxne
  /\ Cancelling => CancelRaces
  /\ IF rxne THEN /\ rxne' = FALSE
                  /\ RealtimeByte \/ StoreByte \/ DropByte
             ELSE UNCHANGED <<rxne, ring, promise>>
  /\ UNCHANGED <<rdr, ore, rxneie, arrived, read, local, cancels>>

-----------------------------------------------------------------------------
(* The foreground.  With CancelRaces off, serialRxCancel runs to its end    *)
(* before a byte that arrives meanwhile is taken.                           *)

At(label) == pc = label /\ (~IrqPending \/ (Cancelling /\ ~CancelRaces))

\* serialGetC: the pointer and the test for an empty ring ...
GetC ==
  /\ At("idle")
  /\ tail # head
  /\ ptr' = tail
  /\ pc' = "get2"
  /\ UNCHANGED <<ring, uart, arrived, read, byte, cancels, promise>>

\* ... the byte ...
GetData ==
  /\ At("get2")
  /\ byte' = data[ptr]
  /\ pc' = "get3"
  /\ UNCHANGED <<ring, uart, arrived, read, ptr, cancels, promise>>

\* ... and the new tail.
GetReturn ==
  /\ At("get3")
  /\ tail' = BUFNEXT(ptr)
  /\ read' = Append(read, byte)
  /\ pc' = "idle"
  /\ UNCHANGED <<data, head, overflow, uart, arrived, ptr, byte, cancels, promise>>

\* serialRxFlush: rxbuf.tail = rxbuf.head is a load and a store.
FlushLoad ==
  /\ At("idle")
  /\ ptr' = head
  /\ pc' = "flush"
  /\ UNCHANGED <<ring, uart, arrived, read, byte, cancels, promise>>

FlushStore ==
  /\ At("flush")
  /\ tail' = ptr
  /\ pc' = "idle"
  /\ UNCHANGED <<data, head, overflow, uart, arrived, read, ptr, byte, cancels, promise>>

\* serialRxCancel: CAN into the free slot, the tail to the head, the head on.
CancelMark ==
  /\ At("idle")
  /\ cancels < MaxCancels
  /\ CancelRaces \/ ~IrqPending
  /\ data' = [data EXCEPT ![head] = ASCII_CAN]
  /\ cancels' = cancels + 1
  /\ promise' = 0
  /\ pc' = "cancel2"
  /\ UNCHANGED <<head, tail, overflow, uart, arrived, read, ptr, byte>>

CancelEmpty ==
  /\ At("cancel2")
  /\ tail' = head
  /\ pc' = "cancel3"
  /\ UNCHANGED <<data, head, overflow, uart, arrived, read, ptr, byte, cancels, promise>>

CancelPublish ==
  /\ At("cancel3")
  /\ head' = BUFNEXT(head)
  /\ pc' = "idle"
  /\ UNCHANGED <<data, tail, overflow, uart, arrived, read, ptr, byte, cancels, promise>>

\* serialDisable.
SetReceive(disable) ==
  /\ At("idle")
  /\ rxneie' = ~disable
  /\ UNCHANGED <<ring, rxne, rdr, ore, arrived, read, local, cancels, promise>>

\* serialSetBaudRate: UE, RE and RXNEIE are switched off, and with UE the flags are
\* cleared; BRR is written, and they are switched on, whatever serialDisable had
\* asked for.
BaudStop ==
  /\ At("idle")
  /\ rxne' = FALSE /\ ore' = FALSE /\ rxneie' = FALSE
  /\ pc' = "baud"
  /\ UNCHANGED <<ring, rdr, arrived, read, ptr, byte, cancels, promise>>

BaudStart ==
  /\ At("baud")
  /\ rxneie' = TRUE
  /\ pc' = "idle"
  /\ UNCHANGED <<ring, rxne, rdr, ore, arrived, read, ptr, byte, cancels, promise>>

\* Mutant: the slot that always stays free is reported, too.
RxFree_AllSlots == RX_BUFFER_SIZE - BUFCOUNT

\* serialRxFree: what the status report tells the host it may send.
RxFree == (RX_BUFFER_SIZE - 1) - BUFCOUNT

ReportFree ==
  /\ At("idle")
  /\ promise' = RxFree
  /\ UNCHANGED <<ring, uart, arrived, read, local, cancels>>

-----------------------------------------------------------------------------
Next ==
  \/ Receive
  \/ UART0_IRQHandler
  \/ GetC \/ GetData \/ GetReturn
  \/ FlushLoad \/ FlushStore
  \/ CancelMark \/ CancelEmpty \/ CancelPublish
  \/ \E disable \in BOOLEAN : SetReceive(disable)
  \/ BaudStop \/ BaudStart
  \/ ReportFree

Spec == Init /\ [][Next]_vars

\* A pending interrupt is taken and a call that has begun goes on.
FairSpec ==
  /\ Spec
  /\ WF_vars(UART0_IRQHandler)
  /\ WF_vars(GetData \/ GetReturn \/ FlushStore \/ CancelEmpty \/ CancelPublish \/ BaudStart)

-----------------------------------------------------------------------------
(* Properties.                                                             *)

Wrap(i) == IF i < RX_BUFFER_SIZE THEN i ELSE i - RX_BUFFER_SIZE

\* What the ring holds, oldest first.
Queue == [i \in 1 .. BUFCOUNT |-> data[Wrap(tail + i - 1)]]

\* The variables of rxbuf and of the calls stay in their ranges.
TypeOK ==
  /\ data \in [Slot -> 0 .. ASCII_CAN] /\ head \in Slot /\ tail \in Slot
  /\ overflow \in BOOLEAN /\ rxne \in BOOLEAN /\ ore \in BOOLEAN /\ rxneie \in BOOLEAN
  /\ rdr \in 0 .. MaxBytes /\ arrived \in 0 .. MaxBytes
  /\ read \in Seq(0 .. ASCII_CAN)
  /\ pc \in {"idle", "get2", "get3", "flush", "cancel2", "cancel3", "baud"}
  /\ ptr \in Slot /\ byte \in 0 .. ASCII_CAN
  /\ cancels \in 0 .. MaxCancels /\ promise \in Slot

\* The ring, the interrupt and the four calls together are a bounded queue:
\* nothing is read twice, out of order or without having been received, and
\* after "Flushes and adds a CAN character to the serial input buffer"
\* (serial.c 622) the queue is that character.
Order == CASE pc = "flush" -> "flush"
           [] pc = "cancel2" -> "cancel"
           [] pc = "cancel3" -> "mark"
           [] OTHER -> "none"

RxQ == INSTANCE RxQueue WITH
  Capacity <- RX_BUFFER_SIZE - 1, Byte <- 1 .. MaxBytes, CAN <- ASCII_CAN,
  queue <- Queue, order <- Order

ImplementsRxQueue == RxQ!Spec

\* The room serialRxFree reports is there: until that many bytes were stored no
\* byte is dropped.  A reader that flushes or reads only makes more room.
FreeIsHonest == [][overflow' /\ ~overflow => promise = 0]_vars

\* The registers changed only their names from the STM32F4 (README 205): the
\* handler answers whatever requests its interrupt, and the foreground resumes.
InterruptIsAnswered == IrqPending ~> ~IrqPending
=============================================================================
