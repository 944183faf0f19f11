------------------------------ MODULE RxQueue ------------------------------
(***************************************************************************)
(* What the receive half of the serial stream promises to the line reader: *)
(* a bounded first-in first-out queue.  A byte that does not fit is        *)
(* dropped; a flush that was ordered forgets a prefix of the queue; a      *)
(* cancel that was ordered leaves exactly the CAN character, which the     *)
(* reader takes as the order to drop the line it was collecting.           *)
(***************************************************************************)
EXTENDS Naturals, Sequences

CONSTANTS Capacity,    \* bytes the queue holds at most
          Byte,        \* the bytes that are received
          CAN          \* the cancel character

VARIABLES queue,       \* received and not yet read
          read,        \* everything the reader got
          order        \* what the reader has asked for

qvars == <<queue, read, order>>

Init == queue = <<>> /\ read = <<>> /\ order = "none"

\* Bytes are numbered as they arrive: the new one is later than every one before.
Put == /\ Len(queue) < Capacity
       /\ \E b \in Byte :
            /\ \A i \in DOMAIN (read \o queue) :
                 (read \o queue)[i] = CAN \/ (read \o queue)[i] < b
            /\ queue' = Append(queue, b)
       /\ UNCHANGED <<read, order>>

Get == /\ queue # <<>>
       /\ read' = Append(read, Head(queue))
       /\ queue' = Tail(queue)
       /\ UNCHANGED order

Order == /\ order = "none" /\ order' \in {"flush", "cancel"}
         /\ UNCHANGED <<queue, read>>

\* A byte received since the flush was ordered may survive it.
Flush == /\ order = "flush" /\ order' = "none"
         /\ \E n \in 1 .. Len(queue) + 1 : queue' = SubSeq(queue, n, Len(queue))
         /\ UNCHANGED read

Cancel == /\ order = "cancel" /\ order' = "mark"
          /\ queue' = <<>>
          /\ UNCHANGED read

\* Nothing gets between the emptying and the CAN.
PutCan == /\ order = "mark" /\ order' = "none"
          /\ queue = <<>> /\ queue' = <<CAN>>
          /\ UNCHANGED read

Next == Put \/ Get \/ Order \/ Flush \/ Cancel \/ PutCan

Spec == Init /\ [][Next]_qvars
=============================================================================
