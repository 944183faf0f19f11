------------------------ MODULE OverheatReportProofs ------------------------
(***************************************************************************)
(* At most one serialPutC is suspended, for every size of the ring, every  *)
(* length of strings and messages and every rate of the line, if a message *)
(* has fewer characters than there are ticks between two samples.          *)
(*                                                                         *)
(* Nothing is said of the order of the characters, which a message inside  *)
(* a suspended write upsets; the argument needs only that a full ring has  *)
(* its interrupt on, so that a character of a message that finds the ring  *)
(* full sees one tick at most before there is room.                        *)
(*                                                                         *)
(* And the heater does nothing on the line that it does not do alone.      *)
(***************************************************************************)
EXTENDS OverheatReport, TLAPS

\* The condition of the theorem: a message has some 50 characters, and a sample comes
\* every 1000 ticks.
ShortReport == ReportLen < SENSOR_UPDATE_MS

-----------------------------------------------------------------------------
(* The inductive invariant.                                                *)

\* A call of serialPutC that is suspended.
Frame == [next_head : Tx!Slot, c : Nat, left : Nat, hole : BOOLEAN]

IType ==
  /\ head \in Tx!Slot /\ tail \in Tx!Slot /\ next_head \in Tx!Slot
  /\ c \in Nat /\ given \in Nat /\ left \in Nat /\ hole \in BOOLEAN
  /\ txeie \in BOOLEAN /\ txe \in BOOLEAN /\ shifting \in BOOLEAN
  /\ chars \in 0 .. CharsPerTick
  /\ tick \in 0 .. TickMod - 1 /\ s_last_sensor_tick \in 0 .. TickMod - 1
  /\ age \in 0 .. MaxAge
  /\ suspended \in Seq(Frame) /\ Len(suspended) <= 1
  /\ pc = "put" => left > 0

\* The difference of the ticks is the age of the sample.
IAge == Heater!Elapsed = age

\* A ring that is not empty has its interrupt on, or is about to; TDR is full only
\* behind a busy shifter.
IDrain ==
  /\ head # tail => txeie \/ pc = "enable"
  /\ ~txe => shifting

\* A message inside a suspended serialPutC: its next_head is that of the head, which
\* nobody else moves.
IMessage ==
  suspended # <<>> =>
    /\ pc \in {"put", "wait", "publish", "enable", "return"}
    /\ pc = "wait" => next_head = Tx!BUFNEXT(head)

\* A character that waits will see no tick any more: before there is room, as one was
\* since the character began to wait or as room is being made; or because there is
\* room, which the interrupt does not take away.
Served ==
  IF tail = next_head THEN txe \/ chars < CharsPerTick
  ELSE tail = head => ~txeie

\* The ticks since the message was begun and the characters of it still to be stored
\* are together at most its length, and one less while a character waits that may
\* still see a tick before it is served.
ITime ==
  suspended # <<>> =>
    /\ age + left <= ReportLen
    /\ pc = "wait" /\ ~Served => age + left < ReportLen

IInv == IType /\ IAge /\ IDrain /\ IMessage /\ ITime

-----------------------------------------------------------------------------
\* The macro BUFNEXT maps slots to slots, moves every slot and is injective.
LEMMA NextSlot ==
  /\ \A n \in Tx!Slot : Tx!BUFNEXT(n) \in Tx!Slot /\ Tx!BUFNEXT(n) # n
  /\ \A m, n \in Tx!Slot : Tx!BUFNEXT(m) = Tx!BUFNEXT(n) => m = n
BY ReportAssumption DEF Tx!Slot, Tx!BUFNEXT

LEMMA InitInv == Init => IInv
<1> SUFFICES ASSUME Init PROVE IInv
  OBVIOUS
<1>1. /\ head = 0 /\ tail = 0 /\ next_head = 0 /\ c = 0 /\ given = 0 /\ left = 0 /\ chars = 0
      /\ tick = 0 /\ s_last_sensor_tick = 0 /\ age = 0
      /\ hole = FALSE /\ txeie = FALSE /\ txe = TRUE /\ shifting = FALSE
      /\ suspended = <<>> /\ pc = "idle"
  BY DEF Init, Tx!Init, Heater!Init
<1>2. 0 \in Tx!Slot /\ 0 \in 0 .. TickMod - 1 /\ 0 \in 0 .. MaxAge /\ 0 \in 0 .. CharsPerTick
  BY ReportAssumption DEF Tx!Slot
<1>3. suspended \in Seq(Frame) /\ Len(suspended) <= 1
  BY <1>1
<1>4. IType
  BY <1>1, <1>2, <1>3 DEF IType
<1>5. IAge
  BY <1>1 DEF IAge, Heater!Elapsed
<1>6. IDrain /\ IMessage /\ ITime
  BY <1>1 DEF IDrain, IMessage, ITime
<1> QED BY <1>4, <1>5, <1>6 DEF IInv

-----------------------------------------------------------------------------
(* The line.                                                               *)

LEMMA InterruptInv ==
  ASSUME IInv, Interrupt
  PROVE  IInv'
<1> USE DEF Interrupt, Tx!UART0_IRQHandler, Tx!IrqPending, Tx!frame, Tx!aux, heater
<1>1. IType' /\ IAge'
  BY NextSlot DEF IInv, IType, IAge, Heater!Elapsed
<1>2. IDrain'
  BY DEF IInv, IType, IDrain
<1>3. IMessage'
  BY DEF IInv, IMessage
<1>4. suspended # <<>> /\ pc = "wait" /\ Served => Served'
  BY NextSlot DEF IInv, IType, IDrain, IMessage, Served
<1>5. ITime'
  BY <1>4 DEF IInv, ITime
<1> QED BY <1>1, <1>2, <1>3, <1>5 DEF IInv

LEMMA ShiftInv ==
  ASSUME IInv, Shift
  PROVE  IInv'
<1> USE DEF Shift, Tx!ShiftDone, Tx!ring, Tx!frame, Tx!aux, heater
<1>1. IType' /\ IAge'
  BY ReportAssumption DEF IInv, IType, IAge, Heater!Elapsed
<1>2. IDrain' /\ IMessage'
  BY DEF IInv, IType, IDrain, IMessage
<1>3. Served => Served'
  BY DEF Served
<1>4. ITime'
  BY <1>3 DEF IInv, ITime
<1> QED BY <1>1, <1>2, <1>4 DEF IInv

\* What is left of the clocks when only the foreground moves.
LEMMA WriterInv ==
  ASSUME IInv, Writer
  PROVE  IInv'
<1> USE DEF Writer, heater, Tx!ring, Tx!uart, Tx!frame, Tx!aux, Tx!At, IInv
<1>1. IAge'
  BY DEF IAge, Heater!Elapsed
<1>2. CASE Tx!PutC
  <2>1. IType'
    BY <1>2, NextSlot DEF Tx!PutC, IType
  <2>2. IDrain' /\ IMessage'
    BY <1>2 DEF Tx!PutC, IDrain, IMessage
  <2>3. ITime'
    <3>1. /\ left \in Nat /\ left > 0 /\ left' = left - 1 /\ age \in Nat
          /\ UNCHANGED <<suspended, age>>
      BY <1>2 DEF Tx!PutC, IType
    <3>2. ReportLen \in Nat
      BY ReportAssumption
    <3> QED BY <3>1, <3>2 DEF ITime
  <2> QED BY <1>1, <2>1, <2>2, <2>3
<1>3. CASE Tx!Store
  BY <1>1, <1>3 DEF Tx!Store, IType, IDrain, IMessage, ITime
<1>4. CASE Tx!Publish
  BY <1>1, <1>4 DEF Tx!Publish, IType, IDrain, IMessage, ITime
<1>5. CASE Tx!Enable
  BY <1>1, <1>5 DEF Tx!Enable, Tx!AfterPut, IType, IDrain, IMessage, ITime
<1>6. CASE Tx!Return
  <2>1. suspended # <<>> => suspended' = <<>> /\ next_head' \in Tx!Slot /\ c' \in Nat
                              /\ left' \in Nat /\ hole' \in BOOLEAN
    <3> SUFFICES ASSUME suspended # <<>>
                 PROVE  suspended' = <<>> /\ next_head' \in Tx!Slot /\ c' \in Nat
                          /\ left' \in Nat /\ hole' \in BOOLEAN
      OBVIOUS
    <3>1. Len(suspended) = 1 /\ suspended[1] \in Frame
      <4>1. suspended \in Seq(Frame) /\ Len(suspended) \in Nat /\ Len(suspended) <= 1
        BY DEF IType
      <4>2. Len(suspended) # 0
        BY <4>1
      <4>3. \A n \in Nat : n <= 1 /\ n # 0 => n = 1
        OBVIOUS
      <4>4. Len(suspended) = 1
        BY <4>1, <4>2, <4>3
      <4> QED BY <4>1, <4>4
    <3>2. suspended' = SubSeq(suspended, 1, 0)
      BY <1>6, <3>1 DEF Tx!Return
    <3> QED BY <1>6, <3>1, <3>2 DEF Tx!Return, Frame
  <2>2. suspended' = <<>> /\ pc' \in {"idle", "wait"}
        /\ UNCHANGED <<head, tail, txeie, txe, shifting, given>>
    BY <1>6, <2>1 DEF Tx!Return
  <2>3. IType'
    BY <1>6, <2>1, <2>2 DEF Tx!Return, IType
  <2> QED BY <1>1, <1>6, <2>2, <2>3 DEF Tx!Return, IDrain, IMessage, ITime
<1> QED BY <1>2, <1>3, <1>4, <1>5, <1>6

\* A string or a message begins, between two strings.
LEMMA BeginInv ==
  ASSUME IInv, NEW n \in Nat \ {0}, Tx!WriteBegin(n),
         IAge', tick' \in 0 .. TickMod - 1, s_last_sensor_tick' \in 0 .. TickMod - 1,
         age' \in 0 .. MaxAge, UNCHANGED chars
  PROVE  IInv'
<1>1. suspended = <<>>
  BY DEF Tx!WriteBegin, Tx!At, IInv, IMessage
<1>2. /\ UNCHANGED <<head, tail, next_head, c, given, txeie, txe, shifting, suspended>>
      /\ left' = n /\ hole' \in BOOLEAN /\ pc' = "put" /\ pc = "idle"
  BY DEF Tx!WriteBegin, Tx!At, Tx!ring, Tx!uart, Tx!aux
<1>3. IType'
  BY <1>2 DEF IInv, IType
<1>4. IDrain' /\ IMessage' /\ ITime'
  BY <1>1, <1>2 DEF IInv, IDrain, IMessage, ITime
<1> QED BY <1>3, <1>4 DEF IInv

-----------------------------------------------------------------------------
(* The heater.                                                             *)

\* A pass finds a sample due and begins the age of the next.
LEMMA PassClock ==
  ASSUME IType, IAge, Heater!RealtimePass
  PROVE  /\ IAge' /\ age' = 0 /\ tick' \in 0 .. TickMod - 1
         /\ s_last_sensor_tick' \in 0 .. TickMod - 1 /\ age' \in 0 .. MaxAge
         /\ age >= SENSOR_UPDATE_MS
<1>1. age' = 0 /\ tick' = tick /\ s_last_sensor_tick' = tick /\ Heater!Elapsed >= SENSOR_UPDATE_MS
  BY DEF Heater!RealtimePass
<1> QED BY <1>1, ReportAssumption DEF Heater!Elapsed, IType, IAge

\* No string is written in the main loop's step.
LEMMA LineKept ==
  ASSUME IInv, UNCHANGED <<line, chars>>, suspended = <<>>,
         IAge', tick' \in 0 .. TickMod - 1, s_last_sensor_tick' \in 0 .. TickMod - 1,
         age' \in 0 .. MaxAge
  PROVE  IInv'
<1>1. UNCHANGED <<head, tail, next_head, c, left, hole, given, txeie, txe, shifting, suspended,
                  pc, chars>>
  BY DEF line
<1>2. IType'
  BY <1>1 DEF IInv, IType
<1>3. IDrain' /\ IMessage' /\ ITime'
  BY <1>1 DEF IInv, IDrain, IMessage, ITime
<1> QED BY <1>2, <1>3 DEF IInv

\* The set-up of the heater begins the age of the first sample.
LEMMA StartInv ==
  ASSUME IInv, Start
  PROVE  IInv'
<1>1. /\ UNCHANGED <<line, chars>> /\ tick' = tick /\ s_last_sensor_tick' = tick /\ age' = 0
  BY DEF Start, Heater!Boot
<1>2. IAge' /\ tick' \in 0 .. TickMod - 1 /\ s_last_sensor_tick' \in 0 .. TickMod - 1
      /\ age' \in 0 .. MaxAge
  BY <1>1, ReportAssumption DEF Heater!Elapsed, IInv, IType, IAge
<1>3. UNCHANGED <<head, tail, next_head, c, left, hole, given, txeie, txe, shifting, suspended,
                  pc, chars>>
  BY <1>1 DEF line
<1>4. IType'
  BY <1>2, <1>3 DEF IInv, IType
<1>5. IDrain' /\ IMessage'
  BY <1>3 DEF IInv, IDrain, IMessage
<1>6. ITime'
  <2>1. left \in Nat /\ age \in Nat /\ ReportLen \in Nat
    BY ReportAssumption DEF IInv, IType
  <2> QED BY <1>1, <1>3, <2>1 DEF IInv, ITime, Served
<1> QED BY <1>2, <1>4, <1>5, <1>6 DEF IInv

LEMMA CommandInv ==
  ASSUME IInv, Command
  PROVE  IInv'
<1>1. /\ UNCHANGED <<tick, s_last_sensor_tick, age, chars>> /\ pc = "idle"
      /\ Tx!WriteBegin(ReportLen) \/ UNCHANGED line
  BY DEF Command, Tx!At, Heater!Execute, Heater!clock, Message
<1>2. IAge' /\ tick' \in 0 .. TickMod - 1 /\ s_last_sensor_tick' \in 0 .. TickMod - 1
      /\ age' \in 0 .. MaxAge
  BY <1>1 DEF IInv, IType, IAge, Heater!Elapsed
<1>3. suspended = <<>>
  BY <1>1 DEF IInv, IMessage
<1> QED BY <1>1, <1>2, <1>3, BeginInv, LineKept, ReportAssumption

LEMMA LoopPassInv ==
  ASSUME IInv, LoopPass
  PROVE  IInv'
<1>1. /\ Heater!RealtimePass /\ UNCHANGED chars /\ pc = "idle"
      /\ Tx!WriteBegin(ReportLen) \/ UNCHANGED line
  BY DEF LoopPass, Tx!At, Message
<1>2. suspended = <<>>
  BY <1>1 DEF IInv, IMessage
<1> QED BY <1>1, <1>2, PassClock, BeginInv, LineKept, ReportAssumption DEF IInv

\* A pass from inside a serialPutC finds no message there: none takes as long as a
\* sample.
LEMMA BlockedPassInv ==
  ASSUME ShortReport, IInv, BlockedPass
  PROVE  IInv'
<1>1. /\ Heater!RealtimePass /\ UNCHANGED chars
      /\ Tx!CallbackWrites(ReportLen) \/ UNCHANGED line
  BY DEF BlockedPass, Message
<1>2. /\ IAge' /\ age' = 0 /\ tick' \in 0 .. TickMod - 1
      /\ s_last_sensor_tick' \in 0 .. TickMod - 1 /\ age' \in 0 .. MaxAge
      /\ age >= SENSOR_UPDATE_MS
  BY <1>1, PassClock DEF IInv
<1>3. suspended = <<>>
  <2>1. suspended # <<>> => age + left <= ReportLen
    BY DEF IInv, ITime
  <2>2. left \in Nat /\ age \in Nat /\ ReportLen \in Nat /\ SENSOR_UPDATE_MS \in Nat
    BY ReportAssumption DEF IInv, IType
  <2> QED BY <1>2, <2>1, <2>2 DEF ShortReport
<1>4. CASE UNCHANGED line
  BY <1>1, <1>2, <1>3, <1>4, LineKept
<1>5. CASE Tx!CallbackWrites(ReportLen)
  <2>1. /\ UNCHANGED <<head, tail, next_head, c, given, txeie, txe, shifting>>
        /\ left' = ReportLen /\ hole' \in BOOLEAN /\ pc = "wait" /\ pc' = "put"
        /\ suspended' = Append(suspended, [next_head |-> next_head, c |-> c, left |-> left,
                                           hole |-> hole])
    BY <1>5 DEF Tx!CallbackWrites, Tx!At, Tx!ring, Tx!uart, Tx!aux
  <2>2. suspended' \in Seq(Frame) /\ Len(suspended') <= 1
    <3>1. [next_head |-> next_head, c |-> c, left |-> left, hole |-> hole] \in Frame
      BY DEF IInv, IType, Frame
    <3>2. suspended \in Seq(Frame) /\ Len(suspended) = 0
      BY <1>3 DEF IInv, IType
    <3> QED BY <2>1, <3>1, <3>2
  <2>3. IType'
    BY <1>1, <1>2, <2>1, <2>2, ReportAssumption DEF IInv, IType
  <2>4. IDrain'
    BY <2>1 DEF IInv, IDrain
  <2>5. IMessage' /\ ITime'
    BY <1>2, <2>1, ReportAssumption DEF IMessage, ITime
  <2> QED BY <1>2, <2>3, <2>4, <2>5 DEF IInv
<1> QED BY <1>1, <1>4, <1>5

\* A tick finds the foreground between two strings, or a character that waits, which
\* is served from then on.
LEMMA TickInv ==
  ASSUME IInv, Tick
  PROVE  IInv'
<1>1. /\ Heater!Tick /\ chars' = 0 /\ UNCHANGED line
      /\ shifting => chars = CharsPerTick
      /\ pc = "idle" \/ (pc = "wait" /\ tail = next_head /\ ~(txe /\ txeie))
  BY DEF Tick, Waiting, Tx!At, Tx!IrqPending
<1>2. UNCHANGED <<head, tail, next_head, c, left, hole, given, txeie, txe, shifting, suspended,
                  pc>>
  BY <1>1 DEF line
<1>3. /\ tick' = (IF tick + 1 = TickMod THEN 0 ELSE tick + 1) /\ age' = age + 1
      /\ age < MaxAge /\ UNCHANGED s_last_sensor_tick
  BY <1>1 DEF Heater!Tick
<1>4. IAge' /\ tick' \in 0 .. TickMod - 1 /\ s_last_sensor_tick' \in 0 .. TickMod - 1
      /\ age' \in 0 .. MaxAge
  BY <1>3, ReportAssumption DEF IInv, IType, IAge, Heater!Elapsed
<1>5. IType'
  BY <1>1, <1>2, <1>4, ReportAssumption DEF IInv, IType
<1>6. IDrain' /\ IMessage'
  BY <1>2 DEF IInv, IDrain, IMessage
<1>7. ASSUME suspended # <<>>
      PROVE  pc = "wait" /\ ~Served /\ Served'
  <2>1. pc = "wait" /\ tail = next_head /\ next_head = Tx!BUFNEXT(head)
    BY <1>1, <1>7 DEF IInv, IMessage
  <2>2. head # tail
    BY <2>1, NextSlot DEF IInv, IType
  <2>3. txeie /\ ~txe /\ shifting /\ chars = CharsPerTick
    BY <1>1, <2>1, <2>2 DEF IInv, IDrain, IType
  <2> QED BY <1>1, <1>2, <2>1, <2>3, ReportAssumption DEF Served
<1>8. ITime'
  <2>1. left \in Nat /\ age \in Nat /\ ReportLen \in Nat
    BY ReportAssumption DEF IInv, IType
  <2>2. suspended # <<>> => age + left < ReportLen
    BY <1>7 DEF IInv, ITime
  <2>3. age' + left' = age + left + 1
    BY <1>2, <1>3, <2>1
  <2> QED BY <1>2, <1>7, <2>1, <2>2, <2>3 DEF ITime
<1> QED BY <1>4, <1>5, <1>6, <1>8 DEF IInv

-----------------------------------------------------------------------------
(* The invariant.                                                          *)

LEMMA StepInv ==
  ASSUME ShortReport, IInv, [Next]_vars
  PROVE  IInv'
<1>1. CASE WriteString
  <2>1. PICK n \in Lengths : Tx!WriteBegin(n)
    BY <1>1 DEF WriteString
  <2>2. n \in Nat \ {0}
    BY ReportAssumption
  <2>3. UNCHANGED <<tick, s_last_sensor_tick, age, chars>>
    BY <1>1 DEF WriteString, heater
  <2>4. IAge' /\ tick' \in 0 .. TickMod - 1 /\ s_last_sensor_tick' \in 0 .. TickMod - 1
        /\ age' \in 0 .. MaxAge
    BY <2>3 DEF IInv, IType, IAge, Heater!Elapsed
  <2> QED BY <2>1, <2>2, <2>3, <2>4, BeginInv
<1>2. CASE Warm \/ UNCHANGED vars
  <2>1. UNCHANGED <<line, chars, tick, s_last_sensor_tick, age>>
    BY <1>2 DEF Warm, Heater!Warm, Heater!clock, vars, heater
  <2>2. UNCHANGED <<head, tail, next_head, c, left, hole, given, txeie, txe, shifting,
                    suspended, pc>>
    BY <2>1 DEF line
  <2>3. IType' /\ IAge'
    BY <2>1, <2>2 DEF IInv, IType, IAge, Heater!Elapsed
  <2>4. IDrain' /\ IMessage' /\ ITime'
    BY <2>1, <2>2 DEF IInv, IDrain, IMessage, ITime, Served
  <2> QED BY <2>3, <2>4 DEF IInv
<1> QED BY <1>1, <1>2, InterruptInv, ShiftInv, WriterInv, StartInv, CommandInv, LoopPassInv,
           BlockedPassInv, TickInv
        DEF Next, Pass

\* triac_mcodes.c 31-42 and serial.c 636-641: the handler that runs inside a serialPutC
\* that waits does not run again inside its own message.
THEOREM NoMessageInMessage ==
  ASSUME ShortReport
  PROVE  Spec => []OneMessageInside
<1>1. IInv => OneMessageInside
  BY DEF IInv, IType, OneMessageInside
<1> QED BY <1>1, InitInv, StepInv, PTL DEF Spec

-----------------------------------------------------------------------------
(* The heater on the line.                                                 *)

\* Whatever the line does meanwhile, with the messages and the realtime loop running
\* inside a write, the heater goes the steps of Triac: what holds of it alone holds here.
THEOREM HeaterImplemented == Spec => Heater!Spec
<1>1. Init => Heater!Init
  BY DEF Init
<1>2. [Next]_vars => [Heater!Next]_(Heater!vars)
  <2> SUFFICES ASSUME [Next]_vars PROVE Heater!Next \/ UNCHANGED Heater!vars
    OBVIOUS
  <2>1. CASE UNCHANGED heater
    BY <2>1 DEF heater, Heater!vars, Heater!switch, Heater!status, Heater!board,
               Heater!output, Heater!clock
  <2>2. CASE Command
    <3>1. PICK code \in Codes : Heater!Execute(code)
      BY <2>2 DEF Command
    <3>2. code \in Heater!MCode
      BY <3>1 DEF Heater!Execute, Heater!Supported, Heater!MCode
    <3> QED BY <3>1, <3>2 DEF Heater!Next
  <2>3. CASE LoopPass \/ BlockedPass
    BY <2>3 DEF LoopPass, BlockedPass, Heater!Next
  <2>4. CASE Tick
    BY <2>4 DEF Tick, Heater!Next
  <2>5. CASE Warm
    BY <2>5 DEF Warm, Heater!Next
  <2>6. CASE Start
    BY <2>6 DEF Start, Heater!Next
  <2> QED BY <2>1, <2>2, <2>3, <2>4, <2>5, <2>6
          DEF Next, Interrupt, Shift, Writer, WriteString, Pass, vars
<1> QED BY <1>1, <1>2, PTL DEF Spec, Heater!Spec
=============================================================================
