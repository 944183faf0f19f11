------------------------------ MODULE SerialTx ------------------------------
(***************************************************************************)
(* The transmit half of the LPUART1 stream (serial.c).  The foreground     *)
(* program writes strings into a ring with serialPutC; UART0_IRQHandler    *)
(* moves them, one per interrupt, to the data register TDR; the hardware   *)
(* shifts them out.  The two sides share txbuf.head, txbuf.tail and the    *)
(* TXEIE bit of CR1 without a lock, so every foreground access to one of   *)
(* them is a step of its own.  The handler has NVIC priority 1 and the     *)
(* foreground is thread mode: the handler runs in one step, and the        *)
(* foreground makes no step while its interrupt is pending and enabled.    *)
(*                                                                         *)
(* Characters are numbered 1, 2, ... in the order in which serialPutC is   *)
(* given them; 0 is what a slot of the ring holds at power up.             *)
(***************************************************************************)
EXTENDS Naturals, Sequences

CONSTANTS
  TX_BUFFER_SIZE,   \* slots of the ring; it holds one character less
  MaxLen,           \* longest string written by one call
  MaxChars,         \* bound on the characters given to serialPutC
  WindowChars,      \* character times that may elapse inside a few instructions
  ConfigWhileSending \* may CR1 be reconfigured while characters are being sent?

ASSUME ConstantsAssumption ==
  /\ TX_BUFFER_SIZE \in Nat \ {0, 1}
  /\ MaxLen \in Nat \ {0} /\ MaxChars \in Nat
  /\ WindowChars \in Nat
  /\ ConfigWhileSending \in BOOLEAN

VARIABLES
  data, head, tail, \* txbuf
  txeie,            \* CR1.TXEIE, the transmit interrupt enable
  txe,              \* ISR.TXE, TDR is empty
  shifting,         \* the shift register is sending a character
  sent,             \* history: the characters written to TDR
  pc,               \* where the foreground is
  next_head, c, left, \* serialPutC's locals; characters left in the string
  hole,             \* history: a character of this string was refused
  suspended,        \* stack of the interrupted serialPutC calls (re-entrancy)
  given,            \* characters given to serialPutC so far
  cr1,              \* copy of TXEIE held between load and store of CR1
  elapsed,          \* character times since the current window opened
  txCount           \* result of serialTxCount, if nothing was written since

ring  == <<data, head, tail>>
uart  == <<txeie, txe, shifting>>
frame == <<next_head, c, left, hole, suspended>>
aux   == <<given, cr1, txCount>>
vars  == <<ring, uart, sent, pc, frame, aux, elapsed>>

Slot == 0 .. TX_BUFFER_SIZE - 1
NoCount == TX_BUFFER_SIZE + 1

\* The ring arithmetic of the core's BUFNEXT and BUFCOUNT macros.
BUFNEXT(i) == IF i = TX_BUFFER_SIZE - 1 THEN 0 ELSE i + 1
BUFCOUNT == IF head >= tail THEN head - tail ELSE head + TX_BUFFER_SIZE - tail

Init ==
  /\ data = [i \in Slot |-> 0] /\ head = 0 /\ tail = 0
  /\ txeie = FALSE /\ txe = TRUE /\ shifting = FALSE
  /\ sent = <<>>
  /\ pc = "idle"
  /\ next_head = 0 /\ c = 0 /\ left = 0 /\ hole = FALSE /\ suspended = <<>>
  /\ given = 0 /\ cr1 = FALSE /\ elapsed = 0 /\ txCount = NoCount

-----------------------------------------------------------------------------
(* The transmitter and its interrupt.                                      *)

\* The handler is about to run: TXE and TXEIE, the test it makes itself.
IrqPending == txe /\ txeie

\* Mutant: the interrupt stays on when the last character is taken.
UART0_IRQHandler_StaysOn ==
  /\ IrqPending
  /\ sent' = Append(sent, data[tail])
  /\ tail' = BUFNEXT(tail)
  /\ txe' = ~shifting
  /\ shifting' = TRUE
  /\ UNCHANGED <<data, head, txeie, pc, frame, aux, elapsed>>

\* UART0_IRQHandler, transmit part.  It does not look at the ring before it
\* takes a character from it.  TDR falls through when the shifter is idle.
UART0_IRQHandler ==
  /\ IrqPending
  /\ sent' = Append(sent, data[tail])
  /\ tail' = BUFNEXT(tail)
  /\ txeie' = (tail' # head)
  /\ txe' = ~shifting
  /\ shifting' = TRUE
  /\ UNCHANGED <<data, head, pc, frame, aux, elapsed>>

\* The places between two instructions of one statement pair.
InWindow == pc \in {"enable", "cr1", "stop", "start"}

\* CR1.UE is off, in the middle of serialSetBaudRate.
Stopped == pc \in {"baud", "start"}

\* The stop bit of a character has left; TDR, if full, moves to the shifter.
ShiftDone ==
  /\ shifting /\ ~Stopped
  /\ InWindow => elapsed < WindowChars
  /\ elapsed' = IF InWindow THEN elapsed + 1 ELSE 0
  /\ shifting' = ~txe
  /\ txe' = TRUE
  /\ UNCHANGED <<ring, txeie, sent, pc, frame, aux>>

-----------------------------------------------------------------------------
(* The foreground.                                                         *)

At(label) == pc = label /\ ~IrqPending

\* serialWriteS and serialWrite: a string of n characters.
WriteBegin(n) ==
  /\ At("idle")
  /\ given + n <= MaxChars
  /\ pc' = "put" /\ left' = n /\ hole' = FALSE
  /\ UNCHANGED <<ring, uart, sent, next_head, c, suspended, aux, elapsed>>

\* serialPutC: take the next character, compute the next head.
PutC ==
  /\ At("put")
  /\ given' = given + 1 /\ c' = given + 1
  /\ next_head' = BUFNEXT(head)
  /\ left' = left - 1
  /\ txCount' = NoCount
  /\ pc' = "wait"
  /\ UNCHANGED <<ring, uart, sent, hole, suspended, cr1, elapsed>>

\* Mutant: the character is stored without waiting for a free slot.
Store_NoWait ==
  /\ At("wait")
  /\ data' = [data EXCEPT ![head] = c]
  /\ pc' = "publish"
  /\ UNCHANGED <<head, tail, uart, sent, frame, aux, elapsed>>

\* There is room: leave the loop and store the character.
Store ==
  /\ At("wait")
  /\ tail # next_head
  /\ data' = [data EXCEPT ![head] = c]
  /\ pc' = "publish"
  /\ UNCHANGED <<head, tail, uart, sent, frame, aux, elapsed>>

\* txbuf.head = next_head opens the window before TXEIE is written.
Publish ==
  /\ At("publish")
  /\ head' = next_head
  /\ elapsed' = 0
  /\ pc' = "enable"
  /\ UNCHANGED <<data, tail, uart, sent, frame, aux>>

\* serialPutC has returned: the string goes on, or ends.
AfterPut == IF left = 0 THEN "return" ELSE "put"

\* Mutant: the interrupt is not enabled.
Enable_Forgotten ==
  /\ At("enable")
  /\ elapsed' = 0
  /\ pc' = AfterPut
  /\ UNCHANGED <<ring, uart, sent, frame, aux>>

Enable ==
  /\ At("enable")
  /\ txeie' = TRUE
  /\ elapsed' = 0
  /\ pc' = AfterPut
  /\ UNCHANGED <<ring, txe, shifting, sent, frame, aux>>

\* The ring is full and hal.stream_blocking_callback returns false: the
\* character is dropped, and the caller does not look at the result.
GiveUp ==
  /\ At("wait")
  /\ tail = next_head
  /\ hole' = TRUE
  /\ pc' = AfterPut
  /\ UNCHANGED <<ring, uart, sent, next_head, c, left, suspended, aux, elapsed>>

\* The ring is full and hal.stream_blocking_callback runs the handlers chained
\* on on_execute_realtime, one of which writes a string of n characters itself.
CallbackWrites(n) ==
  /\ At("wait")
  /\ tail = next_head
  /\ given + n <= MaxChars
  /\ suspended' = Append(suspended, [next_head |-> next_head, c |-> c, left |-> left,
                                     hole |-> hole])
  /\ pc' = "put" /\ left' = n /\ hole' = FALSE
  /\ UNCHANGED <<ring, uart, sent, next_head, c, aux, elapsed>>

\* The string is written: back to the caller, or to the suspended serialPutC,
\* whose callback returns true and whose loop condition is evaluated again.
Return ==
  /\ At("return")
  /\ IF suspended = <<>>
     THEN pc' = "idle" /\ UNCHANGED frame
     ELSE LET outer == suspended[Len(suspended)]
          IN /\ pc' = "wait"
             /\ next_head' = outer.next_head /\ c' = outer.c
             /\ left' = outer.left /\ hole' = outer.hole
             /\ suspended' = SubSeq(suspended, 1, Len(suspended) - 1)
  /\ UNCHANGED <<ring, uart, sent, aux, elapsed>>

\* Mutant: the ring is emptied with the interrupt still on.
FlushDisable_KeepsTXEIE ==
  /\ At("idle")
  /\ pc' = "flush"
  /\ UNCHANGED <<ring, uart, sent, frame, aux, elapsed>>

\* serialTxFlush: interrupt off, then the ring is emptied.
FlushDisable ==
  /\ At("idle")
  /\ txeie' = FALSE
  /\ pc' = "flush"
  /\ UNCHANGED <<ring, txe, shifting, sent, frame, aux, elapsed>>

FlushRing ==
  /\ At("flush")
  /\ tail' = head
  /\ pc' = "idle"
  /\ UNCHANGED <<data, head, uart, sent, frame, aux, elapsed>>

\* CR1 is read, bits of it changed and all of it written back, TXEIE included.
LoadCR1(here, there) ==
  /\ At(here)
  /\ cr1' = txeie
  /\ elapsed' = 0
  /\ pc' = there
  /\ UNCHANGED <<ring, uart, sent, frame, given, txCount>>

StoreCR1(here, there) ==
  /\ At(here)
  /\ txeie' = cr1
  /\ elapsed' = 0
  /\ pc' = there
  /\ UNCHANGED <<ring, sent, frame, aux>>

\* serialDisable and serialSetFormat change bits that do not stop the transmitter.
ConfigLoad == (txeie => ConfigWhileSending) /\ LoadCR1("idle", "cr1")

ConfigStore == StoreCR1("cr1", "idle") /\ UNCHANGED <<txe, shifting>>

\* serialSetBaudRate, called when serialTxCount has returned 0: UE and TE are
\* switched off, which drops what is in TDR and in the shifter, BRR is written,
\* and they are switched on.
BaudLoad ==
  /\ txeie \/ txCount # 0 => ConfigWhileSending
  /\ LoadCR1("idle", "stop")

BaudStop == StoreCR1("stop", "baud") /\ txe' = TRUE /\ shifting' = FALSE

BaudReload == LoadCR1("baud", "start")

BaudStart == StoreCR1("start", "idle") /\ UNCHANGED <<txe, shifting>>

\* serialTxCount: the indices first, the transmission complete flag after.
CountRing ==
  /\ At("idle")
  /\ txCount' = BUFCOUNT
  /\ pc' = "count"
  /\ UNCHANGED <<ring, uart, sent, frame, given, cr1, elapsed>>

TransmissionComplete == txe /\ ~shifting

\* Mutant: a character in TDR or in the shifter is not counted.
CountLine_RingOnly ==
  /\ At("count")
  /\ pc' = "idle"
  /\ UNCHANGED <<ring, uart, sent, frame, aux, elapsed>>

CountLine ==
  /\ At("count")
  /\ txCount' = txCount + (IF TransmissionComplete THEN 0 ELSE 1)
  /\ pc' = "idle"
  /\ UNCHANGED <<ring, uart, sent, frame, given, cr1, elapsed>>

-----------------------------------------------------------------------------
Next ==
  \/ UART0_IRQHandler
  \/ ShiftDone
  \/ \E n \in 1 .. MaxLen : WriteBegin(n)
  \/ PutC \/ Store \/ Publish \/ Enable \/ GiveUp \/ Return
  \/ FlushDisable \/ FlushRing
  \/ ConfigLoad \/ ConfigStore
  \/ BaudLoad \/ BaudStop \/ BaudReload \/ BaudStart
  \/ CountRing \/ CountLine

Spec == Init /\ [][Next]_vars

\* A pending interrupt is taken, the shifter shifts, and a call that has begun
\* goes on.  GiveUp is the callback's choice and gets no fairness: a full ring
\* must be drained by the interrupt.
FairSpec ==
  /\ Spec
  /\ WF_vars(UART0_IRQHandler)
  /\ WF_vars(ShiftDone)
  /\ WF_vars(PutC \/ Store \/ Publish \/ Enable \/ Return
             \/ FlushRing \/ ConfigStore \/ BaudStop \/ BaudReload \/ BaudStart \/ CountLine)

-----------------------------------------------------------------------------
(* Properties.                                                             *)

\* The slot i places after the tail.
Wrap(i) == IF i < TX_BUFFER_SIZE THEN i ELSE i - TX_BUFFER_SIZE

\* What the ring holds, oldest first.
Queue == [i \in 1 .. BUFCOUNT |-> data[Wrap(tail + i - 1)]]

\* The variables of txbuf, CR1 and serialPutC stay in their ranges.
TypeOK ==
  /\ data \in [Slot -> 0 .. MaxChars]
  /\ head \in Slot /\ tail \in Slot /\ next_head \in Slot
  /\ txeie \in BOOLEAN /\ txe \in BOOLEAN /\ shifting \in BOOLEAN
  /\ sent \in Seq(0 .. MaxChars)
  /\ pc \in {"idle", "put", "wait", "publish", "enable", "return",
             "flush", "cr1", "stop", "baud", "start", "count"}
  /\ c \in 0 .. MaxChars /\ given \in 0 .. MaxChars /\ left \in Nat
  /\ hole \in BOOLEAN /\ cr1 \in BOOLEAN
  /\ elapsed \in Nat /\ txCount \in 0 .. NoCount
  /\ suspended = <<>>

\* UART0_IRQHandler takes a character without looking whether there is one
\* (serial.c 859-864): whenever it can run, the ring is not empty.
NothingStale == IrqPending => head # tail

\* The wire and the ring behind it carry the characters in the order in which
\* serialPutC was given them, each at most once, and nothing else.
Carried == sent \o Queue
InOrder ==
  /\ \A i \in 1 .. Len(Carried) : Carried[i] \in 1 .. given
  /\ \A i \in 1 .. Len(Carried) - 1 : Carried[i] < Carried[i + 1]

\* The ring, the interrupt and the flush together are a bounded queue.
TxQ == INSTANCE TxQueue WITH
  Capacity <- TX_BUFFER_SIZE - 1, Char <- 1 .. MaxChars,
  queue <- Queue, dropping <- (pc = "flush")

ImplementsTxQueue == TxQ!Spec

\* A caller that waits for serialTxCount to return 0 before it changes the baud
\* rate cuts no character short: the count, whose two reads the interrupt may come
\* between, is 0 only when the ring, TDR and the shifter are empty.
NothingCut == [][BaudStop => TransmissionComplete /\ head = tail]_vars

\* The interrupt that drains the ring is on whenever somebody waits for it: a
\* serialPutC that finds the ring full gets its slot, and every character in the
\* ring leaves it.
RingDrains ==
  /\ pc = "wait" ~> pc # "wait"
  /\ \A n \in 1 .. MaxChars :
       (\E i \in DOMAIN Queue : Queue[i] = n) ~> ~(\E i \in DOMAIN Queue : Queue[i] = n)

\* "Writes a null terminated string to the serial output stream, blocks if
\* buffer full" (serial.c 650): once a character of a string was refused, no
\* later character of that string enters the ring.
StringsHaveNoHoles == [][pc = "publish" /\ pc' = "enable" => ~hole]_vars
=============================================================================
