--------------------------- MODULE SerialRxProofs ---------------------------
(***************************************************************************)
(* The receive ring with its interrupt and the calls of the foreground is  *)
(* the queue of RxQueue, and the room that is reported is there, for every *)
(* size of the ring and every number of bytes and of calls, with and       *)
(* without overruns, provided that no byte is stored while serialRxCancel  *)
(* runs.                                                                   *)
(***************************************************************************)
EXTENDS SerialRx, SequenceTheorems, TLAPS

\* The condition of the theorems on the timing.
Quiet == ~CancelRaces

-----------------------------------------------------------------------------
(* The inductive invariant.                                                *)

\* The places from the tail to the one ptr names.
Ahead == IF ptr >= tail THEN ptr - tail ELSE ptr + RX_BUFFER_SIZE - tail

\* What a call that is under way holds in its locals: serialGetC the oldest byte,
\* which nobody else takes; serialRxFlush a place in the queue or behind it, which
\* the head does not fall behind; serialRxCancel the CAN in the free slot.
ICalls ==
  /\ pc \in {"get2", "get3"} => ptr = tail /\ head # tail
  /\ pc = "get3" => byte = data[tail]
  /\ pc = "flush" => Ahead <= BUFCOUNT
  /\ pc \in {"cancel2", "cancel3"} => data[head] = ASCII_CAN /\ promise = 0
  /\ pc = "cancel3" => head = tail

\* The room that was reported, less what was stored since, is there.
IRoom == promise <= RX_BUFFER_SIZE - 1 - BUFCOUNT

\* A byte that was stored came before the one in RDR.
Old(b) == b = ASCII_CAN \/ (b <= arrived /\ (rxne => b < rdr))

IOld ==
  /\ rxne => rdr \in 1 .. arrived
  /\ \A i \in 1 .. Len(read) : Old(read[i])
  /\ \A i \in 1 .. BUFCOUNT : Old(data[Wrap(tail + i - 1)])

IInv == TypeOK /\ ICalls /\ IRoom /\ IOld

-----------------------------------------------------------------------------
(* The arithmetic of the ring.                                             *)

\* The macro BUFNEXT maps slots to slots and moves every slot.
LEMMA NextSlot ==
  ASSUME NEW i \in Slot
  PROVE  BUFNEXT(i) \in Slot /\ BUFNEXT(i) # i
BY ConstantsAssumption DEF BUFNEXT, Slot

\* The count is in range, the slots of the queue are slots of the ring, and the
\* slot at the head is none of them.
LEMMA QueueSlots ==
  ASSUME head \in Slot, tail \in Slot
  PROVE  /\ BUFCOUNT \in 0 .. RX_BUFFER_SIZE - 1
         /\ BUFCOUNT = 0 <=> head = tail
         /\ BUFCOUNT = RX_BUFFER_SIZE - 1 <=> BUFNEXT(head) = tail
         /\ \A i \in 1 .. BUFCOUNT :
              Wrap(tail + i - 1) \in Slot /\ Wrap(tail + i - 1) # head
         /\ Wrap(tail + BUFCOUNT) = head
         /\ Wrap(tail) = tail
BY ConstantsAssumption DEF BUFCOUNT, BUFNEXT, Wrap, Slot

LEMMA QueueIsSeq ==
  ASSUME TypeOK
  PROVE  Queue \in Seq(0 .. ASCII_CAN) /\ Len(Queue) = BUFCOUNT
<1>1. \A i \in 1 .. BUFCOUNT : data[Wrap(tail + i - 1)] \in 0 .. ASCII_CAN
  BY QueueSlots DEF TypeOK
<1>2. BUFCOUNT \in Nat
  BY QueueSlots DEF TypeOK
<1> QED BY <1>1, <1>2 DEF Queue

\* The number of slots, and the counts of the two ends, when the head or the tail
\* moves by one.
LEMMA Counts ==
  ASSUME head \in Slot, tail \in Slot
  PROVE  /\ head' = BUFNEXT(head) /\ tail' = tail /\ BUFNEXT(head) # tail
              => BUFCOUNT' = BUFCOUNT + 1
         /\ head' = head /\ tail' = BUFNEXT(tail) /\ head # tail
              => BUFCOUNT' = BUFCOUNT - 1
BY ConstantsAssumption DEF BUFCOUNT, BUFNEXT, Slot

-----------------------------------------------------------------------------
(* The invariant.                                                          *)

LEMMA InitInv == Init => IInv
<1> SUFFICES ASSUME Init PROVE IInv
  OBVIOUS
<1>1. 0 \in Slot /\ 0 \in 0 .. ASCII_CAN /\ 0 \in 0 .. MaxBytes /\ 0 \in 0 .. MaxCancels
  BY ConstantsAssumption DEF Slot, ASCII_CAN
<1>2. TypeOK /\ ICalls
  BY <1>1 DEF Init, TypeOK, ICalls
<1>3. BUFCOUNT = 0
  BY DEF Init, BUFCOUNT
<1>4. IRoom /\ IOld
  BY <1>3, ConstantsAssumption DEF Init, IRoom, IOld
<1> QED BY <1>2, <1>4 DEF IInv

\* Storing a byte keeps the invariant.
LEMMA StoreInv ==
  ASSUME Quiet, IInv, UART0_IRQHandler, rxne, StoreByte
  PROVE  IInv'
<1> USE ConstantsAssumption DEF Quiet
<1>1. /\ head \in Slot /\ tail \in Slot /\ head' = BUFNEXT(head) /\ tail' = tail
      /\ data' = [data EXCEPT ![head] = rdr] /\ BUFNEXT(head) \in Slot
      /\ rdr \in 1 .. arrived /\ rdr \in 0 .. ASCII_CAN /\ rxne' = FALSE
      /\ UNCHANGED <<rdr, ore, rxneie, arrived, read, pc, ptr, byte, cancels, overflow>>
      /\ pc \notin {"cancel2", "cancel3"}
  BY NextSlot
  DEF IInv, TypeOK, IOld, UART0_IRQHandler, StoreByte, local, Cancelling, ASCII_CAN
<1>2. /\ BUFCOUNT \in Nat /\ BUFCOUNT' = BUFCOUNT + 1 /\ BUFCOUNT < RX_BUFFER_SIZE - 1
      /\ Wrap(tail + BUFCOUNT) = head
      /\ \A i \in 1 .. BUFCOUNT :
           Wrap(tail + i - 1) \in Slot /\ Wrap(tail + i - 1) # head
  BY <1>1, QueueSlots, Counts DEF StoreByte
<1>3. TypeOK'
  <2>1. promise' \in Slot
    BY DEF StoreByte, IInv, TypeOK, Slot
  <2> QED BY <1>1, <2>1 DEF IInv, TypeOK, ASCII_CAN
<1>4. ICalls'
  <2>1. pc \in {"get2", "get3"} => head' # tail' /\ data'[tail] = data[tail]
    BY <1>1 DEF IInv, TypeOK, ICalls, StoreByte
  <2>2. Ahead' = Ahead
    BY <1>1 DEF Ahead
  <2>3. Ahead \in Nat
    BY <1>1 DEF Ahead, IInv, TypeOK, Slot
  <2> QED BY <1>1, <1>2, <2>1, <2>2, <2>3 DEF IInv, ICalls
<1>5. IRoom'
  <2>1. promise \in Nat /\ promise' = IF promise = 0 THEN 0 ELSE promise - 1
    BY DEF IInv, TypeOK, Slot, StoreByte
  <2> QED BY <1>2, <2>1 DEF IInv, IRoom
<1>6. IOld'
  <2> DEFINE Early(b) == b = ASCII_CAN \/ b <= arrived
  <2>3. (\A b : Old(b)' <=> Early(b)) /\ (\A b : Old(b) => Early(b))
    BY <1>1 DEF Old
  <2>1. ASSUME NEW i \in 1 .. BUFCOUNT + 1
        PROVE  Early(data'[Wrap(tail + i - 1)])
    <3>1. CASE i \in 1 .. BUFCOUNT
      <4>1. data'[Wrap(tail + i - 1)] = data[Wrap(tail + i - 1)]
        BY <1>1, <1>2, <3>1 DEF IInv, TypeOK
      <4>2. Old(data[Wrap(tail + i - 1)])
        BY <3>1 DEF IInv, IOld
      <4> QED BY <2>3, <4>1, <4>2
    <3>2. CASE i = BUFCOUNT + 1
      <4>1. tail + i - 1 = tail + BUFCOUNT
        BY <1>1, <1>2, <3>2 DEF Slot
      <4>2. data'[Wrap(tail + i - 1)] = rdr
        BY <1>1, <1>2, <4>1 DEF IInv, TypeOK
      <4> QED BY <1>1, <4>2
    <3> QED BY <1>2, <3>1, <3>2
  <2>2. \A i \in 1 .. Len(read) : Early(read[i])
    BY <2>3 DEF IInv, IOld
  <2> HIDE DEF Early
  <2> QED BY <1>1, <1>2, <2>1, <2>2, <2>3 DEF IOld, Wrap
<1> QED BY <1>3, <1>4, <1>5, <1>6 DEF IInv

\* The end of serialGetC keeps the invariant.
LEMMA GetReturnInv ==
  ASSUME IInv, GetReturn
  PROVE  IInv'
<1> USE ConstantsAssumption
<1>1. /\ head \in Slot /\ tail \in Slot /\ head' = head /\ tail' = BUFNEXT(tail)
      /\ head # tail /\ byte = data[tail] /\ byte \in 0 .. ASCII_CAN
      /\ read' = Append(read, byte) /\ read \in Seq(0 .. ASCII_CAN) /\ pc' = "idle"
      /\ BUFNEXT(tail) \in Slot
      /\ UNCHANGED <<data, overflow, rxne, rdr, ore, rxneie, arrived, ptr, byte, cancels,
                     promise>>
  BY NextSlot DEF IInv, TypeOK, ICalls, GetReturn, At, uart
<1>2. /\ BUFCOUNT \in Nat \ {0} /\ BUFCOUNT' = BUFCOUNT - 1 /\ Wrap(tail) = tail
  BY <1>1, QueueSlots, Counts
<1>3. /\ read' \in Seq(0 .. ASCII_CAN) /\ Len(read') = Len(read) + 1 /\ Len(read) \in Nat
      /\ \A i \in 1 .. Len(read) : read'[i] = read[i]
      /\ read'[Len(read) + 1] = byte
  BY <1>1, AppendProperties, LenProperties
<1>4. TypeOK' /\ ICalls'
  BY <1>1, <1>3 DEF IInv, TypeOK, ICalls
<1>5. IRoom'
  BY <1>1, <1>2 DEF IInv, TypeOK, Slot, IRoom
<1>6. IOld'
  <2>1. Old(byte)
    <3>1. Old(data[Wrap(tail + 1 - 1)])
      BY <1>2 DEF IInv, IOld
    <3>2. tail + 1 - 1 = tail
      BY <1>1 DEF Slot
    <3> QED BY <1>1, <1>2, <3>1, <3>2
  <2>2. ASSUME NEW i \in 1 .. Len(read')
        PROVE  Old(read'[i])
    <3>1. CASE i \in 1 .. Len(read)
      BY <1>3, <3>1 DEF IInv, IOld
    <3>2. CASE i = Len(read) + 1
      BY <1>3, <3>2, <2>1
    <3> QED BY <1>3, <3>1, <3>2
  <2>3. ASSUME NEW i \in 1 .. BUFCOUNT - 1
        PROVE  Old(data[Wrap(tail' + i - 1)])
    <3>1. Wrap(tail' + i - 1) = Wrap(tail + (i + 1) - 1)
      BY <1>1, <1>2, QueueSlots DEF BUFNEXT, Slot, Wrap
    <3>2. i + 1 \in 1 .. BUFCOUNT
      BY <1>2
    <3> QED BY <3>1, <3>2 DEF IInv, IOld
  <2>4. \A b : Old(b)' <=> Old(b)
    BY <1>1 DEF Old
  <2> QED BY <1>1, <1>2, <2>2, <2>3, <2>4 DEF IInv, IOld, Wrap
<1> QED BY <1>4, <1>5, <1>6 DEF IInv

\* The end of serialRxFlush keeps the invariant.
LEMMA FlushStoreInv ==
  ASSUME IInv, FlushStore
  PROVE  IInv' /\ BUFCOUNT' = BUFCOUNT - Ahead /\ Ahead \in 0 .. BUFCOUNT
         /\ \A i \in 1 .. BUFCOUNT - Ahead :
              Wrap(ptr + i - 1) = Wrap(tail + (i + Ahead) - 1)
<1> USE ConstantsAssumption
<1>1. /\ head \in Slot /\ tail \in Slot /\ ptr \in Slot /\ head' = head /\ tail' = ptr
      /\ Ahead <= BUFCOUNT /\ pc' = "idle"
      /\ UNCHANGED <<data, overflow, rxne, rdr, ore, rxneie, arrived, read, ptr, byte,
                     cancels, promise>>
  BY DEF IInv, TypeOK, ICalls, FlushStore, At, uart
<1>2. Ahead \in 0 .. BUFCOUNT /\ BUFCOUNT \in Nat /\ BUFCOUNT' = BUFCOUNT - Ahead
  BY <1>1 DEF Ahead, BUFCOUNT, Slot
<1>3. ASSUME NEW i \in 1 .. BUFCOUNT - Ahead
      PROVE  Wrap(ptr + i - 1) = Wrap(tail + (i + Ahead) - 1)
  BY <1>1, <1>2, QueueSlots DEF Ahead, Slot, Wrap
<1>4. TypeOK' /\ ICalls'
  BY <1>1 DEF IInv, TypeOK, ICalls
<1>5. IRoom'
  BY <1>1, <1>2 DEF IInv, TypeOK, Slot, IRoom
<1>6. IOld'
  <2>1. \A b : Old(b)' <=> Old(b)
    BY <1>1 DEF Old
  <2>2. ASSUME NEW i \in 1 .. BUFCOUNT - Ahead
        PROVE  Old(data[Wrap(ptr + i - 1)])
    <3>1. i + Ahead \in 1 .. BUFCOUNT
      BY <1>2
    <3> QED BY <1>3, <3>1 DEF IInv, IOld
  <2> QED BY <1>1, <1>2, <2>1, <2>2 DEF IInv, IOld, Wrap
<1> QED BY <1>2, <1>3, <1>4, <1>5, <1>6 DEF IInv

\* The three steps of serialRxCancel keep the invariant.
LEMMA CancelInv ==
  ASSUME IInv, CancelMark \/ CancelEmpty \/ CancelPublish
  PROVE  IInv'
<1> USE ConstantsAssumption
<1>1. head \in Slot /\ tail \in Slot /\ ASCII_CAN \in 0 .. ASCII_CAN /\ 0 \in Slot
  BY DEF IInv, TypeOK, ASCII_CAN, Slot
<1>2. \A b : Old(b)' <=> Old(b)
  BY DEF Old, CancelMark, CancelEmpty, CancelPublish, uart
<1>3. CASE CancelMark
  <2>1. /\ data' = [data EXCEPT ![head] = ASCII_CAN] /\ pc' = "cancel2" /\ promise' = 0
        /\ BUFCOUNT' = BUFCOUNT
        /\ UNCHANGED <<head, tail, overflow, rxne, rdr, ore, rxneie, arrived, read, ptr, byte>>
    BY <1>3 DEF CancelMark, uart, BUFCOUNT
  <2>2. TypeOK'
    BY <1>1, <1>3, <2>1 DEF IInv, TypeOK, CancelMark
  <2>3. ICalls'
    BY <1>1, <2>1 DEF IInv, TypeOK, ICalls
  <2>4. IRoom'
    BY <1>1, <2>1, QueueSlots DEF IRoom
  <2>5. \A i \in 1 .. BUFCOUNT : data'[Wrap(tail + i - 1)] = data[Wrap(tail + i - 1)]
    BY <1>1, <2>1, QueueSlots DEF IInv, TypeOK
  <2>6. IOld'
    BY <1>2, <2>1, <2>5 DEF IInv, IOld, Wrap
  <2> QED BY <2>2, <2>3, <2>4, <2>6 DEF IInv
<1>4. CASE CancelEmpty
  <2>1. /\ tail' = head /\ head' = head /\ pc' = "cancel3"
        /\ UNCHANGED <<data, overflow, rxne, rdr, ore, rxneie, arrived, read, ptr, byte,
                       cancels, promise>>
    BY <1>4 DEF CancelEmpty, uart
  <2>2. BUFCOUNT' = 0
    BY <1>1, <2>1 DEF BUFCOUNT, Slot
  <2>3. TypeOK' /\ ICalls'
    BY <1>1, <1>4, <2>1 DEF IInv, TypeOK, ICalls, CancelEmpty, At
  <2>4. IRoom'
    BY <2>1, <2>2 DEF IInv, TypeOK, Slot, IRoom
  <2>5. IOld'
    BY <1>2, <2>1, <2>2 DEF IInv, IOld
  <2> QED BY <2>3, <2>4, <2>5 DEF IInv
<1>5. CASE CancelPublish
  <2>1. /\ head' = BUFNEXT(head) /\ tail' = tail /\ head = tail /\ pc' = "idle"
        /\ data[head] = ASCII_CAN /\ promise = 0 /\ BUFNEXT(head) \in Slot
        /\ UNCHANGED <<data, overflow, rxne, rdr, ore, rxneie, arrived, read, ptr, byte,
                       cancels, promise>>
    BY <1>1, <1>5, NextSlot DEF IInv, ICalls, CancelPublish, At, uart
  <2>2. BUFCOUNT' = 1 /\ Wrap(tail + 1 - 1) = tail
    BY <1>1, <2>1 DEF BUFCOUNT, BUFNEXT, Slot, Wrap
  <2>3. TypeOK' /\ ICalls'
    BY <1>1, <2>1 DEF IInv, TypeOK, ICalls
  <2>4. IRoom'
    BY <2>1, <2>2 DEF IRoom
  <2>5. Old(data[Wrap(tail + 1 - 1)])
    BY <2>1, <2>2 DEF Old
  <2>6. IOld'
    BY <1>2, <2>1, <2>2, <2>5 DEF IInv, IOld, Wrap
  <2> QED BY <2>3, <2>4, <2>6 DEF IInv
<1> QED BY <1>3, <1>4, <1>5

\* A byte that arrives is later than all that were stored.
LEMMA ReceiveInv ==
  ASSUME IInv, Receive
  PROVE  IInv'
<1> USE ConstantsAssumption
<1>1. /\ head \in Slot /\ tail \in Slot /\ BUFCOUNT' = BUFCOUNT /\ Ahead' = Ahead
      /\ UNCHANGED <<data, head, tail, overflow, rxneie, read, pc, ptr, byte, cancels, promise>>
  BY DEF IInv, TypeOK, Receive, ring, local, BUFCOUNT, Ahead
<1>2. /\ arrived \in Nat /\ arrived' \in 0 .. MaxBytes /\ arrived <= arrived'
      /\ rdr' \in 0 .. MaxBytes /\ rxne' \in BOOLEAN /\ ore' \in BOOLEAN
      /\ rxne' => rdr' \in 1 .. arrived'
  <2>1. /\ arrived \in Nat /\ arrived' = arrived + 1 /\ arrived' \in 0 .. MaxBytes
        /\ arrived <= arrived'
        /\ UNCHANGED <<rxne, rdr>> \/ (rxne' = TRUE /\ rdr' = arrived')
        /\ ore' = ore \/ ore' = TRUE
    BY DEF IInv, TypeOK, Receive
  <2>2. rdr \in 0 .. MaxBytes /\ rxne \in BOOLEAN /\ ore \in BOOLEAN
        /\ (rxne => rdr \in 1 .. arrived)
    BY DEF IInv, TypeOK, IOld
  <2>3. CASE UNCHANGED <<rxne, rdr>>
    <3>1. rdr \in 1 .. arrived => rdr' \in 1 .. arrived'
      BY <2>1, <2>3
    <3> QED BY <2>1, <2>2, <2>3, <3>1, Zenon
  <2>4. CASE rxne' = TRUE /\ rdr' = arrived'
    <3>1. rdr' \in 1 .. arrived' /\ rdr' \in 0 .. MaxBytes
      BY <2>1, <2>4
    <3> QED BY <2>1, <2>2, <2>4, <3>1, Zenon
  <2> QED BY <2>1, <2>3, <2>4
<1>3. TypeOK' /\ ICalls' /\ IRoom'
  BY <1>1, <1>2 DEF IInv, TypeOK, ICalls, IRoom
<1>4. ASSUME NEW b \in 0 .. ASCII_CAN, Old(b)
      PROVE  Old(b)'
  BY <1>2, <1>4 DEF Receive, Old, IInv, TypeOK, ASCII_CAN
<1>5. \A i \in 1 .. Len(read) : read[i] \in 0 .. ASCII_CAN
  BY ElementOfSeq DEF IInv, TypeOK
<1>6. \A i \in 1 .. BUFCOUNT : data[Wrap(tail + i - 1)] \in 0 .. ASCII_CAN
  BY <1>1, QueueSlots DEF IInv, TypeOK
<1>7. IOld'
  BY <1>1, <1>2, <1>4, <1>5, <1>6 DEF IInv, IOld, Wrap
<1> QED BY <1>3, <1>7 DEF IInv

\* The steps that leave the ring and the line alone.
LEMMA StillOld ==
  ASSUME IInv, UNCHANGED <<data, head, tail, arrived, rdr, read>>, rxne' => rxne
  PROVE  IOld' /\ BUFCOUNT' = BUFCOUNT
<1>1. BUFCOUNT' = BUFCOUNT
  BY DEF BUFCOUNT
<1>2. \A b : Old(b) => Old(b)'
  BY DEF Old
<1> QED BY <1>1, <1>2 DEF IInv, IOld, Wrap

\* The handler with a byte that it does not store, or without one.
LEMMA NoStoreInv ==
  ASSUME IInv, UART0_IRQHandler, ~(rxne /\ StoreByte)
  PROVE  IInv'
<1>1. /\ UNCHANGED <<data, head, tail, rdr, ore, rxneie, arrived, read, pc, ptr, byte,
                     cancels, promise>>
      /\ rxne' \in BOOLEAN /\ (rxne' => rxne) /\ overflow' \in BOOLEAN
  BY DEF UART0_IRQHandler, RealtimeByte, DropByte, ring, local, IInv, TypeOK
<1>2. IOld' /\ BUFCOUNT' = BUFCOUNT
  BY <1>1, StillOld
<1>3. Ahead' = Ahead
  BY <1>1 DEF Ahead
<1> QED BY <1>1, <1>2, <1>3 DEF IInv, TypeOK, ICalls, IRoom

\* The steps of the foreground that leave the ring alone.
LEMMA LocalInv ==
  ASSUME IInv,
         \/ GetC \/ GetData \/ FlushLoad
         \/ \E disable \in BOOLEAN : SetReceive(disable)
         \/ BaudStop \/ BaudStart \/ ReportFree \/ UNCHANGED vars
  PROVE  IInv'
<1> USE ConstantsAssumption
<1>1. /\ UNCHANGED <<data, head, tail, overflow, arrived, rdr, read, cancels>>
      /\ (rxne' => rxne)
  BY DEF GetC, GetData, FlushLoad, SetReceive, BaudStop, BaudStart, ReportFree, vars,
         ring, uart, local
<1>2. /\ IOld' /\ BUFCOUNT' = BUFCOUNT /\ head \in Slot /\ tail \in Slot
      /\ BUFCOUNT \in 0 .. RX_BUFFER_SIZE - 1
  BY <1>1, StillOld, QueueSlots DEF IInv, TypeOK
<1>3. CASE GetC
  BY <1>1, <1>2, <1>3 DEF IInv, TypeOK, ICalls, IRoom, GetC, At, uart, ring
<1>4. CASE GetData
  BY <1>1, <1>2, <1>4 DEF IInv, TypeOK, ICalls, IRoom, GetData, At, uart, ring
<1>5. CASE FlushLoad
  <2>1. Ahead' = BUFCOUNT
    BY <1>1, <1>5 DEF FlushLoad, Ahead, BUFCOUNT
  <2> QED BY <1>1, <1>2, <1>5, <2>1
          DEF IInv, TypeOK, ICalls, IRoom, FlushLoad, At, uart, ring
<1>6. CASE \/ \E disable \in BOOLEAN : SetReceive(disable)
           \/ BaudStop \/ BaudStart
  <2>1. UNCHANGED <<ptr, byte, promise>> /\ pc' \in {pc, "idle", "baud"}
    BY <1>6 DEF SetReceive, BaudStop, BaudStart, local
  <2>2. rxne' \in BOOLEAN /\ ore' \in BOOLEAN /\ rxneie' \in BOOLEAN
    BY <1>6 DEF SetReceive, BaudStop, BaudStart, uart, IInv, TypeOK
  <2>3. Ahead' = Ahead
    BY <1>1, <2>1 DEF Ahead
  <2> QED BY <1>1, <1>2, <2>1, <2>2, <2>3 DEF IInv, TypeOK, ICalls, IRoom
<1>7. CASE ReportFree
  <2>1. promise' \in Slot /\ promise' <= RX_BUFFER_SIZE - 1 - BUFCOUNT
    BY <1>2, <1>7 DEF ReportFree, RxFree, Slot
  <2> QED BY <1>1, <1>2, <1>7, <2>1
          DEF IInv, TypeOK, ICalls, IRoom, ReportFree, At, uart, local
<1>8. CASE UNCHANGED vars
  <2>1. UNCHANGED <<rxne, ore, rxneie, pc, ptr, byte, promise>>
    BY <1>8 DEF vars, uart, local
  <2>2. Ahead' = Ahead
    BY <1>1, <2>1 DEF Ahead
  <2> QED BY <1>1, <1>2, <2>1, <2>2 DEF IInv, TypeOK, ICalls, IRoom
<1> QED BY <1>3, <1>4, <1>5, <1>6, <1>7, <1>8

LEMMA StepInv ==
  ASSUME Quiet, IInv, [Next]_vars
  PROVE  IInv'
<1>1. CASE UART0_IRQHandler
  <2>1. CASE rxne /\ StoreByte
    BY <1>1, <2>1, StoreInv
  <2>2. CASE ~(rxne /\ StoreByte)
    BY <1>1, <2>2, NoStoreInv
  <2> QED BY <2>1, <2>2
<1>2. CASE GetReturn
  BY <1>2, GetReturnInv
<1>3. CASE FlushStore
  BY <1>3, FlushStoreInv
<1>4. CASE CancelMark \/ CancelEmpty \/ CancelPublish
  BY <1>4, CancelInv
<1>5. CASE Receive
  BY <1>5, ReceiveInv
<1> QED BY <1>1, <1>2, <1>3, <1>4, <1>5, LocalInv DEF Next

\* serial.c 616-629, 693-704 and 850-855: no index leaves rxbuf, whatever the
\* interrupt does between the load and the store of a call.
THEOREM RxTypes ==
  ASSUME Quiet
  PROVE  Spec => []TypeOK
<1>1. IInv => TypeOK
  BY DEF IInv
<1> QED BY <1>1, InitInv, StepInv, PTL DEF Spec

\* serial.c 596-601 and 850-855: until as many bytes were stored as serialRxFree
\* reported no byte is dropped.
THEOREM RoomIsHonest ==
  ASSUME Quiet
  PROVE  Spec => FreeIsHonest
<1>1. IInv /\ [Next]_vars => [overflow' /\ ~overflow => promise = 0]_vars
  <2> SUFFICES ASSUME IInv, Next, overflow', ~overflow
               PROVE  promise = 0
    BY DEF vars, ring
  <2>1. DropByte
    BY DEF Next, Receive, UART0_IRQHandler, RealtimeByte, StoreByte, GetC, GetData, GetReturn,
           FlushLoad, FlushStore, CancelMark, CancelEmpty, CancelPublish, SetReceive,
           BaudStop, BaudStart, ReportFree, ring
  <2>2. BUFCOUNT = RX_BUFFER_SIZE - 1
    BY <2>1, QueueSlots DEF DropByte, IInv, TypeOK
  <2> QED BY <2>2, ConstantsAssumption DEF IInv, TypeOK, IRoom, Slot
<1> QED BY <1>1, InitInv, StepInv, PTL DEF Spec, FreeIsHonest

-----------------------------------------------------------------------------
(* The refinement.                                                         *)

QueueOK == Queue \in Seq(0 .. ASCII_CAN) /\ Len(Queue) = BUFCOUNT

LEMMA QueueIsOK == TypeOK => QueueOK
BY QueueIsSeq DEF QueueOK

LEMMA NextQueueIsOK == TypeOK' => QueueOK'
BY QueueIsOK, PTL

\* A step that leaves the slots of the queue alone leaves the queue alone.
LEMMA SameQueue ==
  ASSUME UNCHANGED <<data, head, tail>>
  PROVE  Queue' = Queue
BY DEF Queue, BUFCOUNT, Wrap

\* The interrupt appends the byte, which is later than all that were stored.
LEMMA StoreQueue ==
  ASSUME Quiet, IInv, IInv', UART0_IRQHandler, rxne, StoreByte
  PROVE  RxQ!Put
<1> USE ConstantsAssumption
<1> DEFINE S == 0 .. ASCII_CAN
<1>1. /\ head \in Slot /\ tail \in Slot /\ tail' = tail /\ BUFCOUNT \in Nat
      /\ BUFCOUNT' = BUFCOUNT + 1 /\ BUFCOUNT < RX_BUFFER_SIZE - 1
      /\ Wrap(tail + BUFCOUNT) = head
      /\ \A i \in 1 .. BUFCOUNT :
           Wrap(tail + i - 1) \in Slot /\ Wrap(tail + i - 1) # head
      /\ data' = [data EXCEPT ![head] = rdr]
  <2>1. /\ head \in Slot /\ tail \in Slot /\ tail' = tail /\ head' = BUFNEXT(head)
        /\ BUFNEXT(head) # tail /\ data' = [data EXCEPT ![head] = rdr]
    BY DEF IInv, TypeOK, StoreByte
  <2> QED BY <2>1, QueueSlots, Counts
<1>2. /\ Queue \in Seq(S) /\ Len(Queue) = BUFCOUNT
      /\ Queue' \in Seq(S) /\ Len(Queue') = BUFCOUNT + 1
  BY <1>1, QueueIsOK, NextQueueIsOK DEF IInv, QueueOK
<1>3. rdr \in 1 .. MaxBytes /\ rdr \in S
  BY DEF IInv, TypeOK, IOld, ASCII_CAN
<1>4. /\ Append(Queue, rdr) \in Seq(S) /\ Len(Append(Queue, rdr)) = BUFCOUNT + 1
      /\ \A i \in 1 .. BUFCOUNT : Append(Queue, rdr)[i] = Queue[i]
      /\ Append(Queue, rdr)[BUFCOUNT + 1] = rdr
  BY <1>2, <1>3, AppendProperties
<1>5. ASSUME NEW i \in 1 .. BUFCOUNT + 1
      PROVE  Queue'[i] = Append(Queue, rdr)[i]
  <2>1. Queue'[i] = data'[Wrap(tail + i - 1)]
    BY <1>1 DEF Queue, Wrap
  <2>2. CASE i \in 1 .. BUFCOUNT
    <3>1. data'[Wrap(tail + i - 1)] = data[Wrap(tail + i - 1)]
      BY <1>1, <2>2 DEF IInv, TypeOK
    <3>2. Queue[i] = data[Wrap(tail + i - 1)]
      BY <2>2 DEF Queue
    <3>3. Append(Queue, rdr)[i] = Queue[i]
      BY <1>4, <2>2
    <3> QED BY <2>1, <3>1, <3>2, <3>3
  <2>3. CASE i = BUFCOUNT + 1
    <3>1. tail + i - 1 = tail + BUFCOUNT
      BY <1>1, <2>3 DEF Slot
    <3>2. data'[head] = rdr
      BY <1>1 DEF IInv, TypeOK
    <3> QED BY <1>1, <1>4, <2>1, <2>3, <3>1, <3>2
  <2>4. i \in 1 .. BUFCOUNT \/ i = BUFCOUNT + 1
    BY <1>1
  <2> QED BY <2>2, <2>3, <2>4
<1>6. Queue' = Append(Queue, rdr)
  BY <1>2, <1>4, <1>5, SeqEqual
<1>7. \A i \in DOMAIN (read \o Queue) :
        (read \o Queue)[i] = ASCII_CAN \/ (read \o Queue)[i] < rdr
  <2>1. read \in Seq(S) /\ Len(read) \in Nat /\ Len(Queue) \in Nat
    BY <1>2, LenProperties DEF IInv, TypeOK
  <2>2. /\ DOMAIN (read \o Queue) = 1 .. Len(read) + Len(Queue)
        /\ \A i \in 1 .. Len(read) + Len(Queue) : (read \o Queue)[i] =
             IF i <= Len(read) THEN read[i] ELSE Queue[i - Len(read)]
    BY <1>2, <2>1, ConcatProperties, LenProperties
  <2>3. ASSUME NEW i \in 1 .. Len(read) + Len(Queue)
        PROVE  Old((read \o Queue)[i])
    <3>1. CASE i <= Len(read)
      BY <2>1, <2>2, <3>1 DEF IInv, IOld
    <3>2. CASE i > Len(read)
      <4>1. i - Len(read) \in 1 .. BUFCOUNT
        BY <1>2, <2>1, <3>2
      <4>2. (read \o Queue)[i] = Queue[i - Len(read)]
        BY <2>1, <2>2, <3>2
      <4>3. Queue[i - Len(read)] = data[Wrap(tail + (i - Len(read)) - 1)]
        BY <4>1 DEF Queue
      <4> QED BY <4>1, <4>2, <4>3 DEF IInv, IOld
    <3> QED BY <2>1, <3>1, <3>2
  <2> QED BY <2>2, <2>3 DEF Old
<1>8. Len(Queue) < RX_BUFFER_SIZE - 1 /\ read' = read /\ Order' = Order
  BY <1>1, <1>2 DEF UART0_IRQHandler, local, Order
<1> QED BY <1>3, <1>6, <1>7, <1>8 DEF RxQ!Put

\* serialGetC takes the oldest byte.
LEMMA GetQueue ==
  ASSUME IInv, IInv', GetReturn
  PROVE  RxQ!Get
<1> USE ConstantsAssumption
<1> DEFINE S == 0 .. ASCII_CAN
<1>1. /\ head \in Slot /\ tail \in Slot /\ head' = head /\ tail' = BUFNEXT(tail)
      /\ head # tail /\ byte = data[tail] /\ read' = Append(read, byte)
      /\ data' = data /\ pc = "get3" /\ pc' = "idle"
  BY DEF IInv, TypeOK, ICalls, GetReturn, At
<1>2. BUFCOUNT \in Nat \ {0} /\ BUFCOUNT' = BUFCOUNT - 1 /\ Wrap(tail) = tail
  BY <1>1, QueueSlots, Counts
<1>3. /\ Queue \in Seq(S) /\ Len(Queue) = BUFCOUNT
      /\ Queue' \in Seq(S) /\ Len(Queue') = BUFCOUNT - 1
  BY <1>2, QueueIsOK, NextQueueIsOK DEF IInv, QueueOK
<1>4. Queue # <<>> /\ Head(Queue) = byte
  <2>1. Queue # <<>> /\ Head(Queue) = Queue[1]
    BY <1>2, <1>3, EmptySeq, HeadTailProperties
  <2>2. tail + 1 - 1 = tail /\ 1 \in 1 .. BUFCOUNT
    BY <1>1, <1>2 DEF Slot
  <2>3. Queue[1] = data[tail]
    BY <1>2, <2>2 DEF Queue
  <2> QED BY <1>1, <2>1, <2>3
<1>5. /\ Tail(Queue) \in Seq(S) /\ Len(Tail(Queue)) = BUFCOUNT - 1
      /\ \A i \in 1 .. BUFCOUNT - 1 : Tail(Queue)[i] = Queue[i + 1]
  BY <1>3, <1>4, HeadTailProperties
<1>6. ASSUME NEW i \in 1 .. BUFCOUNT - 1
      PROVE  Queue'[i] = Tail(Queue)[i]
  <2>1. Wrap(tail' + i - 1) = Wrap(tail + (i + 1) - 1)
    BY <1>1, <1>2, QueueSlots DEF BUFNEXT, Slot, Wrap
  <2>2. i + 1 \in 1 .. BUFCOUNT /\ i \in 1 .. BUFCOUNT'
    BY <1>2
  <2>3. Queue'[i] = data[Wrap(tail' + i - 1)]
    BY <1>1, <2>2 DEF Queue, Wrap
  <2>4. Queue[i + 1] = data[Wrap(tail + (i + 1) - 1)]
    BY <2>2 DEF Queue
  <2> QED BY <1>5, <2>1, <2>3, <2>4
<1>7. Queue' = Tail(Queue)
  BY <1>3, <1>5, <1>6, SeqEqual
<1>8. Order' = Order
  BY <1>1 DEF Order
<1> QED BY <1>1, <1>4, <1>7, <1>8 DEF RxQ!Get

\* serialRxFlush forgets the bytes in front of the place it loaded.
LEMMA FlushQueue ==
  ASSUME IInv, IInv', FlushStore
  PROVE  RxQ!Flush
<1> USE ConstantsAssumption
<1> DEFINE S == 0 .. ASCII_CAN
           n == Ahead + 1
<1>1. /\ tail' = ptr /\ data' = data /\ read' = read /\ pc = "flush" /\ pc' = "idle"
      /\ BUFCOUNT' = BUFCOUNT - Ahead /\ Ahead \in 0 .. BUFCOUNT
      /\ \A i \in 1 .. BUFCOUNT - Ahead :
           Wrap(ptr + i - 1) = Wrap(tail + (i + Ahead) - 1)
  BY FlushStoreInv DEF FlushStore, At
<1>2. BUFCOUNT \in Nat
  BY QueueSlots DEF IInv, TypeOK
<1>3. /\ Queue \in Seq(S) /\ Len(Queue) = BUFCOUNT
      /\ Queue' \in Seq(S) /\ Len(Queue') = BUFCOUNT - Ahead
  BY <1>1, QueueIsOK, NextQueueIsOK DEF IInv, QueueOK
<1>4. n \in 1 .. Len(Queue) + 1
  BY <1>1, <1>2, <1>3
<1>5. \A i \in n .. BUFCOUNT : Queue[i] \in S
  <2> SUFFICES ASSUME NEW i \in n .. BUFCOUNT PROVE Queue[i] \in S
    OBVIOUS
  <2>1. i \in 1 .. Len(Queue)
    BY <1>1, <1>2, <1>3
  <2> QED BY <1>3, <2>1, ElementOfSeq
<1>6. /\ SubSeq(Queue, n, BUFCOUNT) \in Seq(S)
      /\ Len(SubSeq(Queue, n, BUFCOUNT)) = BUFCOUNT - Ahead
      /\ \A i \in 1 .. BUFCOUNT - Ahead : SubSeq(Queue, n, BUFCOUNT)[i] = Queue[i + Ahead]
  <2> HIDE DEF n
  <2>1. n \in Int /\ BUFCOUNT \in Int
    BY <1>1, <1>2 DEF n
  <2>2. /\ SubSeq(Queue, n, BUFCOUNT) \in Seq(S)
        /\ Len(SubSeq(Queue, n, BUFCOUNT)) = IF n <= BUFCOUNT THEN BUFCOUNT - n + 1 ELSE 0
        /\ \A i \in 1 .. BUFCOUNT - n + 1 : SubSeq(Queue, n, BUFCOUNT)[i] = Queue[n + i - 1]
    BY <1>5, <2>1, SubSeqProperties
  <2>3. (IF n <= BUFCOUNT THEN BUFCOUNT - n + 1 ELSE 0) = BUFCOUNT - Ahead
    BY <1>1, <1>2 DEF n
  <2>4. ASSUME NEW i \in 1 .. BUFCOUNT - Ahead
        PROVE  i \in 1 .. BUFCOUNT - n + 1 /\ n + i - 1 = i + Ahead
    BY <1>1, <1>2 DEF n
  <2> QED BY <2>2, <2>3, <2>4
<1>7. ASSUME NEW i \in 1 .. BUFCOUNT - Ahead
      PROVE  Queue'[i] = SubSeq(Queue, n, BUFCOUNT)[i]
  <2>1. i \in 1 .. BUFCOUNT' /\ i + Ahead \in 1 .. BUFCOUNT
    BY <1>1, <1>2
  <2>2. Queue'[i] = data[Wrap(ptr + i - 1)]
    BY <1>1, <2>1 DEF Queue, Wrap
  <2>3. Queue[i + Ahead] = data[Wrap(tail + (i + Ahead) - 1)]
    BY <2>1 DEF Queue
  <2> QED BY <1>1, <1>6, <2>2, <2>3
<1>8. Queue' = SubSeq(Queue, n, Len(Queue))
  <2> HIDE DEF n
  <2> QED BY <1>3, <1>6, <1>7, SeqEqual
<1>9. Order = "flush" /\ Order' = "none"
  BY <1>1 DEF Order
<1> QED BY <1>1, <1>4, <1>8, <1>9 DEF RxQ!Flush

\* The three steps of serialRxCancel: the order, the emptying and the CAN.
LEMMA CancelQueue ==
  ASSUME IInv, CancelMark \/ CancelEmpty \/ CancelPublish
  PROVE  RxQ!Order \/ RxQ!Cancel \/ RxQ!PutCan
<1> USE ConstantsAssumption
<1>1. head \in Slot /\ tail \in Slot
  BY DEF IInv, TypeOK
<1>2. CASE CancelMark
  <2>1. /\ head' = head /\ tail' = tail /\ BUFCOUNT' = BUFCOUNT
        /\ data' = [data EXCEPT ![head] = ASCII_CAN] /\ read' = read
        /\ Order = "none" /\ Order' = "cancel"
    BY <1>2 DEF CancelMark, At, BUFCOUNT, Order
  <2>2. \A i \in 1 .. BUFCOUNT : data'[Wrap(tail + i - 1)] = data[Wrap(tail + i - 1)]
    BY <1>1, <2>1, QueueSlots DEF IInv, TypeOK
  <2>3. Queue' = Queue
    BY <2>1, <2>2 DEF Queue, Wrap
  <2> QED BY <2>1, <2>3 DEF RxQ!Order
<1>3. CASE CancelEmpty
  <2>1. /\ BUFCOUNT' = 0 /\ read' = read /\ Order = "cancel" /\ Order' = "mark"
    BY <1>1, <1>3 DEF CancelEmpty, At, BUFCOUNT, Order, Slot
  <2>2. Queue' = <<>>
    BY <2>1 DEF Queue
  <2> QED BY <2>1, <2>2 DEF RxQ!Cancel
<1>4. CASE CancelPublish
  <2>1. /\ head' = BUFNEXT(head) /\ tail' = tail /\ data' = data /\ read' = read
        /\ head = tail /\ data[tail] = ASCII_CAN
        /\ Order = "mark" /\ Order' = "none"
    BY <1>4 DEF CancelPublish, At, Order, IInv, ICalls
  <2>2. BUFCOUNT = 0 /\ BUFCOUNT' = 1 /\ Wrap(tail + 1 - 1) = tail
    BY <1>1, <2>1 DEF BUFCOUNT, BUFNEXT, Slot, Wrap
  <2>3. Queue = <<>>
    BY <2>2 DEF Queue
  <2>4. Queue' = [i \in 1 .. 1 |-> data[Wrap(tail + i - 1)]]
    BY <2>1, <2>2 DEF Queue, Wrap
  <2>5. [i \in 1 .. 1 |-> data[Wrap(tail + i - 1)]] = <<ASCII_CAN>>
    BY <2>1, <2>2
  <2> QED BY <2>1, <2>3, <2>4, <2>5 DEF RxQ!PutCan
<1> QED BY <1>2, <1>3, <1>4

LEMMA StepQueue ==
  ASSUME Quiet, IInv, IInv', [Next]_vars
  PROVE  [RxQ!Next]_<<Queue, read, Order>>
<1>1. CASE UART0_IRQHandler
  <2>1. CASE rxne /\ StoreByte
    BY <1>1, <2>1, StoreQueue DEF RxQ!Next
  <2>2. CASE ~(rxne /\ StoreByte)
    <3>1. UNCHANGED <<data, head, tail, read, pc>>
      BY <1>1, <2>2 DEF UART0_IRQHandler, RealtimeByte, DropByte, ring, local
    <3> QED BY <3>1, SameQueue DEF Order
  <2> QED BY <2>1, <2>2
<1>2. CASE GetReturn
  BY <1>2, GetQueue DEF RxQ!Next
<1>3. CASE FlushStore
  BY <1>3, FlushQueue DEF RxQ!Next
<1>4. CASE CancelMark \/ CancelEmpty \/ CancelPublish
  BY <1>4, CancelQueue DEF RxQ!Next
<1>5. CASE FlushLoad
  <2>1. Queue' = Queue /\ read' = read
    BY <1>5, SameQueue DEF FlushLoad, ring
  <2>2. Order = "none" /\ Order' = "flush"
    BY <1>5 DEF FlushLoad, At, Order
  <2> QED BY <2>1, <2>2 DEF RxQ!Next, RxQ!Order
<1>6. CASE \/ Receive \/ GetC \/ GetData
           \/ \E disable \in BOOLEAN : SetReceive(disable)
           \/ BaudStop \/ BaudStart \/ ReportFree \/ UNCHANGED vars
  <2>1. UNCHANGED <<data, head, tail, read>>
    BY <1>6 DEF Receive, GetC, GetData, SetReceive, BaudStop, BaudStart, ReportFree, vars, ring
  <2>2. Order' = Order
    BY <1>6 DEF Receive, GetC, GetData, SetReceive, BaudStop, BaudStart, ReportFree, vars,
                local, At, Order
  <2> QED BY <2>1, <2>2, SameQueue
<1> QED BY <1>1, <1>2, <1>3, <1>4, <1>5, <1>6 DEF Next

\* serial.c 616-629, 693-704 and 845-857: the receive interrupt, serialGetC,
\* serialRxFlush and serialRxCancel together are the queue of RxQueue.
THEOREM RxRingIsQueue ==
  ASSUME Quiet
  PROVE  Spec => ImplementsRxQueue
<1>1. Init => RxQ!Init
  <2> SUFFICES ASSUME Init PROVE RxQ!Init
    OBVIOUS
  <2>1. BUFCOUNT = 0
    BY DEF Init, BUFCOUNT
  <2> QED BY <2>1 DEF Init, Queue, Order, RxQ!Init
<1>2. IInv /\ IInv' /\ [Next]_vars => [RxQ!Next]_<<Queue, read, Order>>
  BY StepQueue
<1> QED BY <1>1, <1>2, InitInv, StepInv, PTL
        DEF Spec, ImplementsRxQueue, RxQ!Spec, RxQ!qvars
=============================================================================
