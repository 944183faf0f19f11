------------------------------ MODULE TxQueue ------------------------------
(***************************************************************************)
(* What the transmit half of the serial stream (serial.c) promises to the  *)
(* report code that writes to it: a bounded first-in first-out queue whose *)
(* head is moved to the wire, one character at a time, and which a reset   *)
(* may empty.  Nothing is sent that was not written, nothing is sent twice *)
(* and nothing is sent out of order.                                       *)
(***************************************************************************)
EXTENDS Naturals, Sequences

CONSTANTS Capacity,    \* characters the queue holds at most
          Char         \* the characters that are written

VARIABLES queue,       \* accepted and not yet sent
          sent,        \* everything handed to the transmitter so far
          dropping     \* a reset has asked for the queue to be emptied

qvars == <<queue, sent, dropping>>

Init == queue = <<>> /\ sent = <<>> /\ dropping = FALSE

Put == /\ Len(queue) < Capacity
       /\ \E c \in Char : queue' = Append(queue, c)
       /\ UNCHANGED <<sent, dropping>>

Take == /\ queue # <<>>
        /\ sent' = Append(sent, Head(queue))
        /\ queue' = Tail(queue)
        /\ UNCHANGED dropping

AskToDrop == dropping' = TRUE /\ UNCHANGED <<queue, sent>>

Drop == /\ dropping /\ dropping' = FALSE
        /\ queue' = <<>>
        /\ UNCHANGED sent

Next == Put \/ Take \/ AskToDrop \/ Drop

Spec == Init /\ [][Next]_qvars
=============================================================================
