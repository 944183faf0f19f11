--------------------------- MODULE SerialTxProofs ---------------------------
(***************************************************************************)
(* The transmit ring is a queue and the interrupt never runs on an empty   *)
(* ring, for every size of the ring, every length of the strings and every *)
(* number of characters, provided that CR1 is reconfigured only while the  *)
(* transmit interrupt is off, and that no more than one character time     *)
(* passes between txbuf.head = next_head and the enabling of the interrupt.*)
(***************************************************************************)
EXTENDS SerialTx, SequenceTheorems, TLAPS

\* The conditions of the theorems on the callers and on the timing.
Calm == ~ConfigWhileSending /\ WindowChars <= 1

-----------------------------------------------------------------------------
(* The inductive invariant.                                                *)

IType ==
  /\ data \in [Slot -> 0 .. MaxChars]
  /\ head \in Slot /\ tail \in Slot /\ next_head \in Slot
  /\ txeie \in BOOLEAN /\ txe \in BOOLEAN /\ shifting \in BOOLEAN /\ cr1 \in BOOLEAN
  /\ pc \in {"idle", "put", "wait", "publish", "enable", "return",
             "flush", "cr1", "stop", "baud", "start", "count"}
  /\ c \in 0 .. MaxChars /\ given \in 0 .. MaxChars
  /\ left \in Nat /\ elapsed \in Nat
  /\ suspended = <<>>

\* How many characters a string still has is within the bound on all of them.
IGiven ==
  /\ pc \in {"put", "wait", "publish", "enable"} => given + left <= MaxChars
  /\ pc = "put" => left > 0

\* Between the computation of next_head and its publication nobody else moves
\* the head, and the slot that was free stays free.
IPut ==
  /\ pc \in {"wait", "publish"} => next_head = BUFNEXT(head) /\ c \in 1 .. MaxChars
  /\ pc = "publish" => tail # next_head /\ data[head] = c

\* While the new head is visible and TXEIE is not yet written, one character
\* time cannot empty the ring.
IWindow ==
  pc = "enable" =>
    /\ head # tail
    /\ txeie /\ (txe \/ elapsed = 0) => head # BUFNEXT(tail)
    /\ txeie /\ txe => shifting
    /\ txeie /\ elapsed = 0 => ~txe

IUart ==
  /\ ~txe => shifting
  /\ txeie => head # tail
  /\ pc = "flush" => ~txeie
  /\ pc = "baud" => ~txeie
  /\ pc \in {"cr1", "stop", "start"} => txeie = FALSE /\ cr1 = FALSE

IInv == IType /\ IGiven /\ IPut /\ IWindow /\ IUart

-----------------------------------------------------------------------------
(* The arithmetic of the ring.                                             *)

\* The macro BUFNEXT maps slots to slots, moves every slot and is injective.
LEMMA NextSlot ==
  ASSUME NEW i \in Slot, NEW j \in Slot
  PROVE  /\ BUFNEXT(i) \in Slot
         /\ BUFNEXT(i) # i
         /\ BUFNEXT(i) = BUFNEXT(j) => i = j
BY ConstantsAssumption DEF BUFNEXT, Slot

LEMMA InitInv == Init => IInv
<1> SUFFICES ASSUME Init PROVE IInv
  OBVIOUS
<1>1. 0 \in Slot /\ 0 \in 0 .. MaxChars
  BY ConstantsAssumption DEF Slot
<1>2. IType
  BY <1>1 DEF Init, IType
<1>3. IGiven /\ IPut /\ IWindow /\ IUart
  BY DEF Init, IGiven, IPut, IWindow, IUart
<1> QED BY <1>2, <1>3 DEF IInv

LEMMA StepInv ==
  ASSUME Calm, IInv, [Next]_vars
  PROVE  IInv'
<1> USE ConstantsAssumption DEF Calm
<1>1. CASE UART0_IRQHandler
  <2>1. head # tail /\ BUFNEXT(tail) \in Slot /\ tail # BUFNEXT(tail)
    BY <1>1, NextSlot DEF IInv, IType, IUart, UART0_IRQHandler, IrqPending
  <2>2. pc = "publish" => BUFNEXT(tail) # BUFNEXT(head)
    BY <2>1, NextSlot DEF IInv, IType
  <2>3. IType' /\ IGiven'
    BY <1>1, <2>1 DEF IInv, IType, IGiven, UART0_IRQHandler, frame, aux
  <2>4. IPut'
    BY <1>1, <2>2 DEF IInv, IPut, UART0_IRQHandler, frame, aux
  <2>5. IWindow'
    BY <1>1, <2>1 DEF IInv, IType, IWindow, IUart, UART0_IRQHandler, IrqPending
  <2>6. IUart'
    BY <1>1, <2>1 DEF IInv, IType, IUart, UART0_IRQHandler, IrqPending, aux
  <2> QED BY <2>3, <2>4, <2>5, <2>6 DEF IInv
<1>2. CASE ShiftDone
  <2>1. IType' /\ IGiven' /\ IPut'
    BY <1>2 DEF IInv, IType, IGiven, IPut, ShiftDone, ring, frame, aux
  <2>2. IWindow'
    BY <1>2 DEF IInv, IType, IWindow, ShiftDone, ring, InWindow
  <2>3. IUart'
    BY <1>2 DEF IInv, IType, IUart, ShiftDone, ring, aux
  <2> QED BY <2>1, <2>2, <2>3 DEF IInv
<1>3. ASSUME NEW n \in 1 .. MaxLen, WriteBegin(n)
      PROVE  IInv'
  BY <1>3 DEF IInv, IType, IGiven, IPut, IWindow, IUart, WriteBegin, At,
              ring, uart, aux
<1>4. CASE PutC
  BY <1>4, NextSlot DEF IInv, IType, IGiven, IPut, IWindow, IUart, PutC, At, ring, uart
<1>5. CASE Store
  BY <1>5 DEF IInv, IType, IGiven, IPut, IWindow, IUart, Store, At, uart, frame, aux
<1>6. CASE Publish
  <2>1. head # tail => BUFNEXT(head) # BUFNEXT(tail)
    BY NextSlot DEF IInv, IType
  <2>2. IType' /\ IGiven' /\ IPut'
    BY <1>6 DEF IInv, IType, IGiven, IPut, Publish, At, uart, frame, aux
  <2>3. IWindow'
    BY <1>6, <2>1 DEF IInv, IType, IPut, IUart, IWindow, Publish, At, IrqPending, uart
  <2>4. IUart'
    BY <1>6 DEF IInv, IType, IPut, IUart, Publish, At, uart
  <2> QED BY <2>2, <2>3, <2>4 DEF IInv
<1>7. CASE Enable
  <2>1. pc' = "return" \/ (pc' = "put" /\ left > 0)
    BY <1>7 DEF IInv, IType, Enable, AfterPut
  <2>2. IType' /\ IGiven' /\ IPut'
    BY <1>7, <2>1 DEF IInv, IType, IGiven, IPut, Enable, At, ring, frame, aux
  <2>3. IWindow' /\ IUart'
    BY <1>7, <2>1 DEF IInv, IType, IWindow, IUart, Enable, At, ring, frame, aux
  <2> QED BY <2>2, <2>3 DEF IInv
<1>8. CASE GiveUp
  BY <1>8 DEF IInv, IType, IGiven, IPut, IWindow, IUart, GiveUp, At, AfterPut,
              ring, uart, aux
<1>10. CASE Return
  BY <1>10 DEF IInv, IType, IGiven, IPut, IWindow, IUart, Return, At,
               ring, uart, frame, aux
<1>11. CASE FlushDisable
  BY <1>11 DEF IInv, IType, IGiven, IPut, IWindow, IUart, FlushDisable, At,
               ring, frame, aux
<1>12. CASE FlushRing
  BY <1>12 DEF IInv, IType, IGiven, IPut, IWindow, IUart, FlushRing, At,
               uart, frame, aux
<1>13. CASE ConfigLoad \/ BaudLoad
  BY <1>13 DEF IInv, IType, IGiven, IPut, IWindow, IUart, ConfigLoad, BaudLoad,
               LoadCR1, At, ring, uart, frame
<1>14. CASE ConfigStore \/ BaudStart
  <2>1. txeie' = FALSE
    BY <1>14 DEF IInv, IUart, ConfigStore, BaudStart, StoreCR1, At
  <2> QED BY <1>14, <2>1 DEF IInv, IType, IGiven, IPut, IWindow, IUart,
                             ConfigStore, BaudStart, StoreCR1, ring, frame, aux
<1>18. CASE BaudStop
  <2>1. txeie' = FALSE
    BY <1>18 DEF IInv, IUart, BaudStop, StoreCR1, At
  <2> QED BY <1>18, <2>1 DEF IInv, IType, IGiven, IPut, IWindow, IUart,
                             BaudStop, StoreCR1, ring, frame, aux
<1>19. CASE BaudReload
  BY <1>19 DEF IInv, IType, IGiven, IPut, IWindow, IUart, BaudReload, LoadCR1, At,
               ring, uart, frame
<1>15. CASE CountRing
  BY <1>15 DEF IInv, IType, IGiven, IPut, IWindow, IUart, CountRing, At,
               ring, uart, frame
<1>16. CASE CountLine
  BY <1>16 DEF IInv, IType, IGiven, IPut, IWindow, IUart, CountLine, At,
               ring, uart, frame
<1>17. CASE UNCHANGED vars
  BY <1>17 DEF IInv, IType, IGiven, IPut, IWindow, IUart, BUFNEXT,
               vars, ring, uart, frame, aux
<1> QED
  BY <1>1, <1>2, <1>3, <1>4, <1>5, <1>6, <1>7, <1>8, <1>10, <1>11,
     <1>12, <1>13, <1>14, <1>15, <1>16, <1>17, <1>18, <1>19 DEF Next

\* serial.c 859-864 with 643-644: whenever the interrupt handler can take a
\* character, the ring holds one.
THEOREM NeverStale ==
  ASSUME Calm
  PROVE  Spec => []NothingStale
<1>1. Init => IInv
  BY InitInv
<1>2. IInv /\ [Next]_vars => IInv'
  BY StepInv
<1>3. IInv => NothingStale
  BY DEF IInv, IUart, NothingStale, IrqPending
<1> QED BY <1>1, <1>2, <1>3, PTL DEF Spec

-----------------------------------------------------------------------------
(* The ring is a queue.                                                    *)

\* The count is in range, the slots of the queue are slots of the ring, and the
\* slot at the head is none of them.
LEMMA QueueSlots ==
  ASSUME head \in Slot, tail \in Slot
  PROVE  /\ BUFCOUNT \in 0 .. TX_BUFFER_SIZE - 1
         /\ BUFCOUNT = 0 <=> head = tail
         /\ \A i \in 1 .. BUFCOUNT :
              Wrap(tail + i - 1) \in Slot /\ Wrap(tail + i - 1) # head
         /\ Wrap(tail + BUFCOUNT) = head
         /\ Wrap(tail) = tail
BY ConstantsAssumption DEF BUFCOUNT, Wrap, Slot

LEMMA QueueIsSeq ==
  ASSUME IType
  PROVE  Queue \in Seq(0 .. MaxChars) /\ Len(Queue) = BUFCOUNT
<1>1. \A i \in 1 .. BUFCOUNT : data[Wrap(tail + i - 1)] \in 0 .. MaxChars
  BY QueueSlots DEF IType
<1>2. BUFCOUNT \in Nat
  BY QueueSlots DEF IType
<1> QED BY <1>1, <1>2 DEF Queue

\* Storing into the free slot leaves the queue alone.
LEMMA StoreQueue ==
  ASSUME IInv, Store
  PROVE  Queue' = Queue
<1>1. \A i \in 1 .. BUFCOUNT : data'[Wrap(tail + i - 1)] = data[Wrap(tail + i - 1)]
  BY QueueSlots DEF IInv, IType, Store
<1>2. BUFCOUNT' = BUFCOUNT /\ tail' = tail
  BY DEF Store, BUFCOUNT
<1> QED BY <1>1, <1>2 DEF Queue, Wrap

\* Publishing the head appends the stored character.
LEMMA PublishQueue ==
  ASSUME IInv, Publish
  PROVE  Queue' = Append(Queue, c) /\ BUFCOUNT < TX_BUFFER_SIZE - 1
<1>1. BUFCOUNT' = BUFCOUNT + 1 /\ BUFCOUNT < TX_BUFFER_SIZE - 1 /\ BUFCOUNT \in Nat
  BY ConstantsAssumption
  DEF IInv, IType, IPut, Publish, At, BUFCOUNT, BUFNEXT, Slot
<1>2. data' = data /\ tail' = tail /\ data[Wrap(tail + BUFCOUNT)] = c
  BY QueueSlots DEF IInv, IType, IPut, Publish, At
<1>3. Queue' = [i \in 1 .. BUFCOUNT + 1 |-> data[Wrap(tail + i - 1)]]
  BY <1>1, <1>2 DEF Queue, Wrap
<1> DEFINE longer == [i \in 1 .. BUFCOUNT + 1 |-> data[Wrap(tail + i - 1)]]
<1>4. Queue \in Seq(0 .. MaxChars) /\ Len(Queue) = BUFCOUNT /\ c \in 0 .. MaxChars
  BY QueueIsSeq DEF IInv, IType
<1>5. \A i \in 1 .. BUFCOUNT + 1 : longer[i] = IF i <= BUFCOUNT THEN Queue[i] ELSE c
  BY <1>1, <1>2 DEF IInv, IType, Slot, Queue
<1>6. longer \in Seq(0 .. MaxChars) /\ Len(longer) = BUFCOUNT + 1
  <2>1. \A i \in 1 .. BUFCOUNT + 1 : data[Wrap(tail + i - 1)] \in 0 .. MaxChars
    <3> SUFFICES ASSUME NEW i \in 1 .. BUFCOUNT + 1
                 PROVE  data[Wrap(tail + i - 1)] \in 0 .. MaxChars
      OBVIOUS
    <3>1. CASE i <= BUFCOUNT
      BY <1>1, <3>1, QueueSlots DEF IInv, IType
    <3>2. CASE i = BUFCOUNT + 1
      BY <1>1, <1>2, <1>4, <3>2 DEF IInv, IType, Slot
    <3> QED BY <1>1, <3>1, <3>2
  <2> QED BY <1>1, <2>1
<1>7. longer = Append(Queue, c)
  <2> HIDE DEF longer
  <2>1. /\ Append(Queue, c) \in Seq(0 .. MaxChars)
        /\ Len(Append(Queue, c)) = BUFCOUNT + 1
        /\ \A i \in 1 .. BUFCOUNT : Append(Queue, c)[i] = Queue[i]
        /\ Append(Queue, c)[BUFCOUNT + 1] = c
    BY <1>1, <1>4, AppendProperties
  <2>2. \A i \in 1 .. BUFCOUNT + 1 : longer[i] = Append(Queue, c)[i]
    BY <1>1, <1>5, <2>1
  <2> QED BY <1>6, <2>1, <2>2, SeqEqual
<1> QED BY <1>1, <1>3, <1>7

\* The interrupt takes the oldest character.
LEMMA InterruptQueue ==
  ASSUME IInv, UART0_IRQHandler
  PROVE  Queue # <<>> /\ Queue' = Tail(Queue) /\ sent' = Append(sent, Head(Queue))
<1>1. head # tail /\ BUFCOUNT \in Nat /\ BUFCOUNT > 0
  BY QueueSlots DEF IInv, IType, IUart, UART0_IRQHandler, IrqPending
<1>2. BUFCOUNT' = BUFCOUNT - 1 /\ data' = data
  BY <1>1, ConstantsAssumption
  DEF IInv, IType, UART0_IRQHandler, BUFCOUNT, BUFNEXT, Slot
<1>3. Queue \in Seq(0 .. MaxChars) /\ Len(Queue) = BUFCOUNT
  BY QueueIsSeq DEF IInv
<1>4. Queue # <<>> /\ Head(Queue) = data[tail]
  <2>1. Queue # <<>> /\ Head(Queue) = Queue[1]
    BY <1>1, <1>3, EmptySeq
  <2>2. Queue[1] = data[tail]
    BY <1>1, QueueSlots DEF IInv, IType, Queue, Slot
  <2> QED BY <2>1, <2>2
<1> DEFINE shorter == [i \in 1 .. BUFCOUNT - 1 |-> data[Wrap(tail' + i - 1)]]
<1>5. Queue' = shorter
  BY <1>2 DEF Queue, Wrap
<1>6. \A i \in 1 .. BUFCOUNT - 1 : data[Wrap(tail' + i - 1)] = Queue[i + 1]
  <2> TAKE i \in 1 .. BUFCOUNT - 1
  <2>1. Wrap(tail' + i - 1) = Wrap(tail + (i + 1) - 1)
    BY <1>1, ConstantsAssumption
    DEF IInv, IType, UART0_IRQHandler, BUFCOUNT, BUFNEXT, Slot, Wrap
  <2> QED BY <1>1, <2>1 DEF Queue
<1>7. shorter \in Seq(0 .. MaxChars) /\ Len(shorter) = BUFCOUNT - 1
  <2>1. \A i \in 1 .. BUFCOUNT - 1 : Queue[i + 1] \in 0 .. MaxChars
    <3> TAKE i \in 1 .. BUFCOUNT - 1
    <3>1. i + 1 \in 1 .. Len(Queue)
      BY <1>1, <1>3
    <3> QED BY <1>3, <3>1, ElementOfSeq
  <2>2. \A i \in 1 .. BUFCOUNT - 1 : data[Wrap(tail' + i - 1)] \in 0 .. MaxChars
    BY <1>6, <2>1
  <2> DEFINE n == BUFCOUNT - 1
  <2>3. n \in Nat
    BY <1>1
  <2> HIDE DEF n
  <2>4. /\ [i \in 1 .. n |-> data[Wrap(tail' + i - 1)]] \in Seq(0 .. MaxChars)
        /\ Len([i \in 1 .. n |-> data[Wrap(tail' + i - 1)]]) = n
    <3>1. \A i \in 1 .. n : data[Wrap(tail' + i - 1)] \in 0 .. MaxChars
      BY <2>2 DEF n
    <3> QED BY <2>3, <3>1
  <2> QED BY <2>4 DEF n
<1>8. shorter = Tail(Queue)
  <2>1. \A i \in 1 .. BUFCOUNT - 1 : shorter[i] = Queue[i + 1]
    BY <1>6
  <2> HIDE DEF shorter
  <2>2. /\ Tail(Queue) \in Seq(0 .. MaxChars)
        /\ Len(Tail(Queue)) = BUFCOUNT - 1
        /\ \A i \in 1 .. BUFCOUNT - 1 : Tail(Queue)[i] = Queue[i + 1]
    BY <1>3, <1>4, HeadTailProperties
  <2> QED BY <1>7, <2>1, <2>2, SeqEqual
<1> QED BY <1>4, <1>5, <1>8 DEF UART0_IRQHandler

\* Emptying the ring empties the queue.
LEMMA FlushQueue ==
  ASSUME IInv, FlushRing
  PROVE  Queue' = <<>>
<1>1. BUFCOUNT' = 0
  BY ConstantsAssumption DEF IInv, IType, FlushRing, BUFCOUNT, Slot
<1> QED BY <1>1 DEF Queue

\* A step that leaves the ring alone leaves the queue alone.
LEMMA SameQueue ==
  ASSUME UNCHANGED ring
  PROVE  Queue' = Queue
BY DEF ring, Queue, BUFCOUNT, Wrap

LEMMA StepQueue ==
  ASSUME Calm, IInv, [Next]_vars
  PROVE  [TxQ!Next]_<<Queue, sent, (pc = "flush")>>
<1>1. CASE UART0_IRQHandler
  BY <1>1, InterruptQueue DEF TxQ!Next, TxQ!Take, UART0_IRQHandler
<1>2. CASE Publish
  <2>1. c \in 1 .. MaxChars /\ sent' = sent /\ (pc' = "flush") = (pc = "flush")
    BY <1>2 DEF IInv, IPut, Publish, At
  <2>2. Len(Queue) < TX_BUFFER_SIZE - 1
    BY <1>2, PublishQueue, QueueIsSeq DEF IInv
  <2> QED BY <1>2, <2>1, <2>2, PublishQueue DEF TxQ!Next, TxQ!Put
<1>3. CASE FlushRing
  BY <1>3, FlushQueue DEF TxQ!Next, TxQ!Drop, FlushRing, At
<1>4. CASE FlushDisable
  <2>1. Queue' = Queue
    BY <1>4, SameQueue DEF FlushDisable
  <2> QED BY <1>4, <2>1 DEF TxQ!Next, TxQ!AskToDrop, FlushDisable
<1>5. CASE Store
  BY <1>5, StoreQueue DEF Store, At
<1>6. CASE (UNCHANGED ring) /\ sent' = sent /\ (pc' = "flush") = (pc = "flush")
  BY <1>6, SameQueue
<1>7. ASSUME Next, ~UART0_IRQHandler, ~Publish, ~FlushRing, ~FlushDisable, ~Store
      PROVE  (UNCHANGED ring) /\ sent' = sent /\ (pc' = "flush") = (pc = "flush")
  BY <1>7 DEF Next, ShiftDone, WriteBegin, PutC, Enable, AfterPut, GiveUp, Return,
              ConfigLoad, ConfigStore, BaudLoad, BaudStop, BaudReload, BaudStart, LoadCR1,
              StoreCR1, CountRing, CountLine, At
<1>8. CASE UNCHANGED vars
  BY <1>8, <1>6 DEF vars
<1> QED BY <1>1, <1>2, <1>3, <1>4, <1>5, <1>6, <1>7, <1>8

\* serialPutC, serialTxFlush and the interrupt handler implement the queue of
\* TxQueue: the wire gets exactly what the ring accepted, once and in order.
THEOREM RingIsQueue ==
  ASSUME Calm
  PROVE  Spec => ImplementsTxQueue
<1>1. Init => IInv
  BY InitInv
<1>2. IInv /\ [Next]_vars => IInv'
  BY StepInv
<1>3. Init => TxQ!Init
  <2> SUFFICES ASSUME Init PROVE TxQ!Init
    OBVIOUS
  <2>1. BUFCOUNT = 0
    BY DEF Init, BUFCOUNT
  <2>2. (pc = "flush") = FALSE
    BY DEF Init
  <2> QED BY <2>1, <2>2 DEF Init, Queue, TxQ!Init
<1>4. IInv /\ [Next]_vars => [TxQ!Next]_<<Queue, sent, (pc = "flush")>>
  BY StepQueue
<1> QED BY <1>1, <1>2, <1>3, <1>4, PTL
        DEF Spec, ImplementsTxQueue, TxQ!Spec, TxQ!qvars

-----------------------------------------------------------------------------
(* The order of the characters.                                            *)

\* A character that is on its way into the ring is later than all that were
\* carried.
IOrder ==
  /\ sent \in Seq(0 .. MaxChars)
  /\ InOrder
  /\ pc \in {"wait", "publish"} =>
       c = given /\ \A i \in 1 .. Len(Carried) : Carried[i] # given

\* Moving the first element of a sequence to the end of the one before it leaves
\* the two together as they were.
LEMMA MoveHead ==
  ASSUME NEW S, NEW s \in Seq(S), NEW q \in Seq(S), q # <<>>
  PROVE  /\ Append(s, Head(q)) \in Seq(S)
         /\ Append(s, Head(q)) \o Tail(q) = s \o q
<1> DEFINE longer == Append(s, Head(q))
           rest   == Tail(q)
<1>1. /\ Head(q) \in S /\ Head(q) = q[1]
      /\ rest \in Seq(S) /\ Len(rest) = Len(q) - 1
      /\ \A i \in 1 .. Len(rest) : rest[i] = q[i + 1]
  BY HeadTailProperties
<1>2. /\ longer \in Seq(S) /\ Len(longer) = Len(s) + 1
      /\ \A i \in 1 .. Len(s) : longer[i] = s[i]
      /\ longer[Len(s) + 1] = q[1]
  BY <1>1, AppendProperties
<1>3. Len(s) \in Nat /\ Len(q) \in Nat \ {0}
  BY LenProperties, EmptySeq
<1> HIDE DEF longer, rest
<1>4. /\ longer \o rest \in Seq(S) /\ Len(longer \o rest) = Len(longer) + Len(rest)
      /\ \A i \in 1 .. Len(longer) + Len(rest) :
           (longer \o rest)[i] = IF i <= Len(longer) THEN longer[i] ELSE rest[i - Len(longer)]
  BY <1>1, <1>2, ConcatProperties
<1>5. /\ s \o q \in Seq(S) /\ Len(s \o q) = Len(s) + Len(q)
      /\ \A i \in 1 .. Len(s) + Len(q) :
           (s \o q)[i] = IF i <= Len(s) THEN s[i] ELSE q[i - Len(s)]
  BY ConcatProperties
<1>6. \A i \in 1 .. Len(s) + Len(q) : (longer \o rest)[i] = (s \o q)[i]
  <2> TAKE i \in 1 .. Len(s) + Len(q)
  <2>1. CASE i <= Len(s)
    BY <2>1, <1>1, <1>2, <1>3, <1>4, <1>5
  <2>2. CASE i = Len(s) + 1
    BY <2>2, <1>1, <1>2, <1>3, <1>4, <1>5
  <2>3. CASE i > Len(s) + 1
    <3>1. i - Len(longer) \in 1 .. Len(rest) /\ (i - Len(longer)) + 1 = i - Len(s)
      BY <2>3, <1>1, <1>2, <1>3
    <3> QED BY <2>3, <3>1, <1>1, <1>2, <1>3, <1>4, <1>5
  <2>4. i <= Len(s) \/ i = Len(s) + 1 \/ i > Len(s) + 1
    BY <1>3
  <2> QED BY <2>1, <2>2, <2>3, <2>4, Zenon
<1>7. longer \o rest = s \o q
  <2>1. Len(longer \o rest) = Len(s) + Len(q) /\ Len(s \o q) = Len(s) + Len(q)
    BY <1>1, <1>2, <1>3, <1>4, <1>5
  <2> QED BY <2>1, <1>4, <1>5, <1>6, SeqEqual
<1> QED BY <1>2, <1>7 DEF longer, rest

\* What is carried is a sequence.
LEMMA CarriedIsSeq ==
  ASSUME IType, sent \in Seq(0 .. MaxChars)
  PROVE  /\ Carried \in Seq(0 .. MaxChars)
         /\ Len(Carried) = Len(sent) + Len(Queue)
         /\ \A i \in 1 .. Len(sent) : Carried[i] = sent[i]
         /\ Len(sent) \in Nat /\ Len(Queue) \in Nat
<1>1. Queue \in Seq(0 .. MaxChars)
  BY QueueIsSeq
<1>2. Len(sent) \in Nat /\ Len(Queue) \in Nat
  BY <1>1, LenProperties
<1> QED BY <1>1, <1>2, ConcatProperties DEF Carried

LEMMA StepOrder ==
  ASSUME Calm, IInv, IInv', IOrder, [Next]_vars
  PROVE  IOrder'
<1> DEFINE S == 0 .. MaxChars
<1> USE DEF IOrder
<1>0. Queue \in Seq(S) /\ Carried \in Seq(S) /\ Len(Carried) \in Nat /\ given \in S
  BY QueueIsSeq, CarriedIsSeq, LenProperties DEF IInv, IType
<1>1. CASE UART0_IRQHandler
  <2>1. sent' \in Seq(S) /\ Carried' = Carried
    BY <1>0, <1>1, InterruptQueue, MoveHead DEF Carried
  <2>2. UNCHANGED <<pc, c, given>>
    BY <1>1 DEF UART0_IRQHandler, frame, aux
  <2> QED BY <2>1, <2>2 DEF InOrder
<1>2. CASE Publish
  <2>1. /\ sent' = sent /\ c' = c /\ given' = given /\ pc' = "enable"
        /\ c = given /\ c \in S
        /\ \A i \in 1 .. Len(Carried) : Carried[i] # given
    BY <1>2, <1>0 DEF Publish, At, frame, aux
  <2>2. Carried' = Append(Carried, c)
    <3>1. Queue' = Append(Queue, c)
      BY <1>2, PublishQueue
    <3>2. sent \o (Queue \o <<c>>) = (sent \o Queue) \o <<c>> /\ <<c>> \in Seq(S)
      BY <1>0, <2>1, ConcatAssociative
    <3>3. Append(Queue, c) = Queue \o <<c>> /\ Append(Carried, c) = Carried \o <<c>>
      BY <1>0, <2>1, AppendIsConcat
    <3> QED BY <2>1, <3>1, <3>2, <3>3 DEF Carried
  <2>3. /\ Len(Carried') = Len(Carried) + 1
        /\ \A i \in 1 .. Len(Carried) : Carried'[i] = Carried[i]
        /\ Carried'[Len(Carried) + 1] = c
    BY <1>0, <2>1, <2>2, AppendProperties
  <2>4. c \in 1 .. given /\ \A i \in 1 .. Len(Carried) : Carried[i] \in 1 .. given - 1
    BY <1>2, <1>0, <2>1 DEF InOrder, IInv, IPut, Publish, At
  <2>5. InOrder'
    <3>1. \A i \in 1 .. Len(Carried') : Carried'[i] \in 1 .. given'
      BY <1>0, <2>1, <2>3, <2>4
    <3>2. ASSUME NEW i \in 1 .. Len(Carried') - 1
          PROVE  Carried'[i] < Carried'[i + 1]
      <4>1. CASE i + 1 \in 1 .. Len(Carried)
        <5>1. i \in 1 .. Len(Carried) - 1
          BY <4>1, <1>0
        <5> QED BY <4>1, <5>1, <1>0, <2>3 DEF InOrder
      <4>2. CASE i = Len(Carried)
        BY <4>2, <1>0, <2>1, <2>3, <2>4
      <4> QED BY <1>0, <2>3, <4>1, <4>2
    <3> QED BY <3>1, <3>2 DEF InOrder
  <2> QED BY <1>2, <2>1, <2>5
<1>3. CASE FlushRing
  <2>1. Queue' = <<>> /\ sent' = sent /\ given' = given /\ pc' = "idle"
    BY <1>3, FlushQueue DEF FlushRing, aux
  <2>2. Carried' = sent
    BY <2>1, ConcatEmptySeq DEF Carried
  <2>3. InOrder'
    <3>1. \A i \in 1 .. Len(sent) : sent[i] = Carried[i] /\ i \in 1 .. Len(Carried)
      BY CarriedIsSeq DEF IInv
    <3>2. Len(sent) \in Nat /\ \A i \in 1 .. Len(sent) - 1 :
            i \in 1 .. Len(sent) /\ i + 1 \in 1 .. Len(sent) /\ i \in 1 .. Len(Carried) - 1
      BY CarriedIsSeq DEF IInv
    <3> QED BY <2>1, <2>2, <3>1, <3>2 DEF InOrder
  <2> QED BY <2>1, <2>3
<1>4. CASE PutC
  <2>1. /\ Carried' = Carried /\ sent' = sent
        /\ given' = given + 1 /\ c' = given + 1
    BY <1>4, SameQueue DEF PutC, Carried
  <2>2. \A i \in 1 .. Len(Carried) : Carried[i] \in 1 .. given /\ Carried[i] \in Nat
    BY <1>0 DEF InOrder
  <2> QED BY <1>0, <2>1, <2>2 DEF InOrder
<1>5. CASE Store
  <2>1. Carried' = Carried /\ sent' = sent /\ given' = given /\ c' = c /\ pc = "wait"
    BY <1>5, StoreQueue DEF Store, Carried, frame, aux, At
  <2> QED BY <2>1 DEF InOrder
<1>6. CASE UNCHANGED ring /\ sent' = sent /\ given' = given /\ c' = c
           /\ (pc' \in {"wait", "publish"} => pc \in {"wait", "publish"})
  <2>1. Carried' = Carried
    BY <1>6, SameQueue DEF Carried
  <2> QED BY <1>6, <2>1 DEF InOrder
<1>7. ASSUME Next, ~UART0_IRQHandler, ~Publish, ~FlushRing, ~PutC, ~Store
      PROVE  UNCHANGED ring /\ sent' = sent /\ given' = given /\ c' = c
             /\ (pc' \in {"wait", "publish"} => pc \in {"wait", "publish"})
  BY <1>7 DEF Next, ShiftDone, WriteBegin, Enable, AfterPut, GiveUp, Return, FlushDisable,
              ConfigLoad, ConfigStore, BaudLoad, BaudStop, BaudReload, BaudStart, LoadCR1,
              StoreCR1, CountRing, CountLine, At, frame, aux, IInv, IType
<1>8. CASE UNCHANGED vars
  BY <1>8, <1>6 DEF vars, frame, aux
<1> QED BY <1>1, <1>2, <1>3, <1>4, <1>5, <1>6, <1>7, <1>8

\* serial.c 636-647, 859-864 and 671-678: what is on the wire and in the ring is in
\* the order in which it was written, each character at most once.
THEOREM OrderKept ==
  ASSUME Calm
  PROVE  Spec => []InOrder
<1>1. Init => IInv /\ IOrder
  <2> SUFFICES ASSUME Init PROVE IOrder
    BY InitInv
  <2>1. BUFCOUNT = 0
    BY DEF Init, BUFCOUNT
  <2>2. Queue = <<>>
    BY <2>1 DEF Queue
  <2>3. Carried = <<>> /\ sent = <<>> /\ sent \in Seq(0 .. MaxChars)
    BY <2>2 DEF Carried, Init
  <2> QED BY <2>3 DEF IOrder, InOrder, Init
<1>2. IInv /\ IOrder /\ [Next]_vars => IInv' /\ IOrder'
  BY StepInv, StepOrder
<1>3. IOrder => InOrder
  BY DEF IOrder
<1> QED BY <1>1, <1>2, <1>3, PTL DEF Spec

-----------------------------------------------------------------------------
(* Changing the rate.                                                      *)

\* A count of 0 that is still worth something was read with an empty ring; when
\* the count is complete, TDR and the shifter were empty, too; and until the next
\* character is written nothing fills them again.
ICount ==
  /\ txCount \in Nat
  /\ txCount = 0 => head = tail /\ pc \notin {"wait", "publish", "enable"}
  /\ txCount = 0 /\ pc # "count" => TransmissionComplete
  /\ pc = "stop" => txCount = 0

LEMMA StepCount ==
  ASSUME Calm, IInv, IInv', ICount, [Next]_vars
  PROVE  ICount'
<1> USE DEF ICount, TransmissionComplete, Calm
<1>1. CASE UART0_IRQHandler
  BY <1>1 DEF IInv, IUart, UART0_IRQHandler, IrqPending, aux
<1>2. CASE ShiftDone
  BY <1>2 DEF ShiftDone, ring, aux
<1>3. CASE PutC
  BY <1>3, ConstantsAssumption DEF PutC, NoCount
<1>4. CASE Store \/ Publish \/ Enable \/ GiveUp
  BY <1>4 DEF Store, Publish, Enable, GiveUp, AfterPut, At, ring, uart, aux, IInv, IType
<1>5. CASE FlushRing
  BY <1>5 DEF FlushRing, At, uart, aux
<1>6. CASE CountRing
  BY <1>6, QueueSlots DEF CountRing, At, ring, uart, IInv, IType
<1>7. CASE CountLine
  BY <1>7 DEF CountLine, At, ring, uart
<1>8. CASE BaudLoad
  BY <1>8 DEF BaudLoad, LoadCR1, At, ring, uart
<1>9. CASE BaudStop \/ BaudReload \/ BaudStart
  BY <1>9 DEF BaudStop, BaudReload, BaudStart, LoadCR1, StoreCR1, At, ring, uart, aux
<1>10. CASE ConfigLoad \/ ConfigStore
  BY <1>10 DEF ConfigLoad, ConfigStore, LoadCR1, StoreCR1, At, ring, uart, aux
<1>11. CASE FlushDisable \/ Return \/ \E n \in 1 .. MaxLen : WriteBegin(n)
  BY <1>11 DEF FlushDisable, Return, WriteBegin, At, ring, uart, frame, aux, IInv, IType
<1>12. CASE UNCHANGED vars
  BY <1>12 DEF vars, ring, uart, aux
<1> QED BY <1>1, <1>2, <1>3, <1>4, <1>5, <1>6, <1>7, <1>8, <1>9, <1>10, <1>11, <1>12
        DEF Next

\* serial.c 680-688 and 711-725: who waits for a count of 0 and then changes the rate
\* stops a transmitter that is empty.
THEOREM RateCutsNothing ==
  ASSUME Calm
  PROVE  Spec => NothingCut
<1>1. Init => IInv /\ ICount
  BY InitInv, ConstantsAssumption DEF Init, ICount, NoCount, TransmissionComplete
<1>2. IInv /\ ICount /\ [Next]_vars => IInv' /\ ICount'
  BY StepInv, StepCount
<1>3. ICount /\ [Next]_vars => [BaudStop => TransmissionComplete /\ head = tail]_vars
  BY DEF ICount, BaudStop, StoreCR1, At
<1> QED BY <1>1, <1>2, <1>3, PTL DEF Spec, NothingCut
=============================================================================
