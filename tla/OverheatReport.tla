--------------------------- MODULE OverheatReport ---------------------------
(***************************************************************************)
(* The heater's messages on the serial line: the foreground of SerialTx    *)
(* and the one of Triac are the same thread.  Its realtime loop runs       *)
(* triac_realtime_handler between two strings and, through                 *)
(* hal.stream_blocking_callback, in the middle of a string whenever        *)
(* serialPutC waits for room; the handler writes the overheat message with *)
(* the same serialPutC, and an M-code answers with a message of its own.   *)
(*                                                                         *)
(* Time: passes of the two loops take microseconds, characters 87 us,      *)
(* ticks 1 ms, samples are 1 s apart.  So a tick finds the foreground      *)
(* waiting, every pass that was due made, and, while the line is busy, at  *)
(* least CharsPerTick characters sent since the tick before.               *)
(*                                                                         *)
(* Resets and restarts are left to Triac: with none, an M-code or a pass   *)
(* and its transfer are one step (ResetPreempts is FALSE).                 *)
(***************************************************************************)
EXTENDS Integers, Sequences

CONSTANTS
  TX_BUFFER_SIZE, MaxChars, WindowChars,
  Temps, PWords, NoPWord, TickMod, SENSOR_UPDATE_MS, MaxAge,
  Codes,        \* the M-codes of the program
  Lengths,      \* of the other strings
  ReportLen,    \* characters of a message
  CharsPerTick

ASSUME ReportAssumption ==
  /\ Codes \subseteq Int /\ Lengths \subseteq Nat \ {0}
  /\ ReportLen \in Nat \ {0} /\ CharsPerTick \in Nat \ {0}
  /\ TX_BUFFER_SIZE \in Nat \ {0, 1}
  /\ TickMod \in Nat /\ SENSOR_UPDATE_MS \in Nat \ {0} /\ MaxAge \in Nat
  /\ SENSOR_UPDATE_MS <= MaxAge /\ MaxAge < TickMod
  /\ Temps \subseteq 0 .. 4095 /\ Temps # {}
  /\ PWords \subseteq Int /\ NoPWord \notin PWords

VARIABLES
  data, head, tail, txeie, txe, shifting, sent, pc, next_head, c, left, hole,
  suspended, given, cr1, elapsed, txCount,
  s_enabled, s_level, fan_on, overheat, i2c_error, init_error, running, adc, halted,
  dimmer, sending, crossed, temp, tick, s_last_sensor_tick, age, event,
  chars         \* characters sent since the last tick, up to CharsPerTick

Tx == INSTANCE SerialTx WITH MaxLen <- MaxChars, ConfigWhileSending <- FALSE
Heater == INSTANCE Triac WITH ResetPreempts <- FALSE

line   == <<data, head, tail, txeie, txe, shifting, sent, pc, next_head, c, left, hole,
            suspended, given, cr1, elapsed, txCount>>
heater == <<s_enabled, s_level, fan_on, overheat, i2c_error, init_error, running, adc,
            halted, dimmer, sending, crossed, temp, tick, s_last_sensor_tick, age, event>>
vars   == <<line, heater, chars>>

Init == Tx!Init /\ Heater!Init /\ chars = 0

\* A message, unless the characters of the run are used up.
Message(Write) == IF given + ReportLen <= MaxChars THEN Write ELSE UNCHANGED line

-----------------------------------------------------------------------------
(* The line.                                                               *)

Interrupt == Tx!UART0_IRQHandler /\ UNCHANGED <<heater, chars>>

Shift ==
  /\ Tx!ShiftDone
  /\ chars' = IF chars < CharsPerTick THEN chars + 1 ELSE chars
  /\ UNCHANGED heater

\* The rest of a string or of a message that has begun.
Writer ==
  /\ Tx!PutC \/ Tx!Store \/ Tx!Publish \/ Tx!Enable \/ Tx!Return
  /\ UNCHANGED <<heater, chars>>

\* Another string of the core, once the driver is set up: an answer, a report.
WriteString ==
  /\ running
  /\ \E n \in Lengths : Tx!WriteBegin(n)
  /\ UNCHANGED <<heater, chars>>

-----------------------------------------------------------------------------
(* The heater.                                                             *)

\* The heater is set up, with no failure, before the core's main loop runs.
Start ==
  /\ Heater!Boot /\ ~init_error'
  /\ UNCHANGED <<line, chars>>

\* An M-code of the program, between two strings.
Command ==
  /\ Tx!At("idle")
  /\ \E code \in Codes : Heater!Execute(code)
  /\ Message(Tx!WriteBegin(ReportLen))
  /\ UNCHANGED chars

\* A pass of the main loop, between two strings.
LoopPass ==
  /\ Tx!At("idle")
  /\ Heater!RealtimePass
  /\ IF overheat' THEN Message(Tx!WriteBegin(ReportLen)) ELSE UNCHANGED line
  /\ UNCHANGED chars

\* A pass from inside a serialPutC that waits for room.
BlockedPass ==
  /\ Tx!At("wait") /\ tail = next_head
  /\ Heater!RealtimePass
  /\ IF overheat' THEN Message(Tx!CallbackWrites(ReportLen)) ELSE UNCHANGED line
  /\ UNCHANGED chars

Pass == LoopPass \/ BlockedPass

Waiting == Tx!At("idle") \/ (Tx!At("wait") /\ tail = next_head)

Tick ==
  /\ Waiting
  /\ shifting => chars = CharsPerTick
  /\ Heater!Elapsed < SENSOR_UPDATE_MS
  /\ Heater!Tick
  /\ chars' = 0
  /\ UNCHANGED line

Warm == Heater!Warm /\ UNCHANGED <<line, chars>>

-----------------------------------------------------------------------------
Next ==
  \/ Interrupt \/ Shift \/ Writer \/ WriteString
  \/ Start \/ Command \/ Pass \/ Tick \/ Warm

Spec == Init /\ [][Next]_vars

\* The line works, a string that has begun goes on, time passes, and the loop the
\* foreground is in goes round.  No string, command or change of temperature need come.
FairSpec ==
  /\ Spec
  /\ WF_vars(Interrupt) /\ WF_vars(Shift) /\ WF_vars(Writer)
  /\ WF_vars(Pass) /\ WF_vars(Tick)

-----------------------------------------------------------------------------
(* Properties.                                                             *)

\* The handler runs itself again from inside its own message when that message
\* waits for room.  It does not write a second message there: s_last_sensor_tick is
\* stored before the message (triac_mcodes.c 37-40) and a message is sent within
\* SENSOR_UPDATE_MS, so at most one serialPutC is suspended.
OneMessageInside == Len(suspended) <= 1

\* A string that waits for room goes on, however many overheat messages are written
\* meanwhile, although they move the head next_head was computed from
\* (serial.c 636-641).
WriterGoesOn == pc = "wait" /\ suspended = <<>> ~> pc # "wait" /\ suspended = <<>>

\* "Writes a null terminated string to the serial output stream, blocks if buffer
\* full" (serial.c 650): strings and messages together pass through a queue.
MessagesAreQueued == Tx!ImplementsTxQueue
=============================================================================
