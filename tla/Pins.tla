-------------------------------- MODULE Pins --------------------------------
(***************************************************************************)
(* How driver_init (driver.c) shares out the 16 EXTI lines: a line serves  *)
(* the pin of its number on one port only.  The lines of the limit         *)
(* switches and of the card switch, DRIVER_IRQMASK, are taken;             *)
(* aux_assign_irq gives every other line to one of the auxiliary inputs    *)
(* whose pins have its number, and the loop of driver_init enters the      *)
(* owners in pin_irq, where the handlers look for them.  Both go through   *)
(* the board's array inputpin from its first entry to its last.            *)
(***************************************************************************)
EXTENDS Naturals, Sequences

CONSTANTS
  Boards,       \* values of inputpin: sequences of records [group, pin, fn]
  Function,     \* the functions aux_ctrl_get_fn returns, in the order of their numbers
  None,         \* ... and NULL
  Main,         \* those of main_signals
  Probe,        \* those that are probe inputs
  MotorFault,   \* those that are motor fault inputs
  Input_Aux0    \* the first of the numbers that follow them

Driver == {"limit", "sdcard"}       \* the groups of DRIVER_IRQMASK

Entry == [group : Driver \cup {"aux"}, pin : 0 .. 15, fn : Function \cup {None}]

ASSUME ConstantsAssumption ==
  /\ Function \subseteq Nat /\ None \notin Function
  /\ Main \subseteq Function /\ Probe \subseteq Function /\ MotorFault \subseteq Function
  /\ Input_Aux0 \in Nat /\ \A fn \in Function : fn < Input_Aux0
  /\ Boards \subseteq Seq(Entry) \ {<<>>}

\* "Aux input pins must be consecutive in this array" (driver.c 178), and the
\* interrupt inputs of the driver have a line each (73).
WellFormed(board) ==
  /\ \A i, j, k \in DOMAIN board :
       i < j /\ j < k /\ board[i].group = "aux" /\ board[k].group = "aux"
         => board[j].group = "aux"
  /\ \A i, j \in DOMAIN board :
       /\ {board[i].group, board[j].group} \subseteq Driver /\ board[i].pin = board[j].pin => i = j
       /\ board[i].fn = board[j].fn /\ board[i].fn # None => i = j

VARIABLES
  inputpin,      \* the board's array
  id,            \* input->id, of the auxiliary inputs
  irq_mode,      \* input->cap.irq_mode: "edges" or "none"
  user_port,     \* input->user_port
  inputs,        \* aux_digital_in of aux_assign_irq: its first entry, or NULL,
  n_pins,        \* ... and how many there are
  irq,           \* lines aux_assign_irq has given away
  pin_irq,       \* the entry that owns each line, or NULL
  aux_irq,       \* lines of auxiliary inputs that interrupt
  remapped,      \* entries passed to aux_ctrl_remap_explicit, as what they then are
  phase, i, j    \* the loop, its index, and that of the loop inside

assigned == <<id, irq_mode, user_port, inputs, n_pins, irq>>
table    == <<pin_irq, aux_irq, remapped>>
vars     == <<inputpin, assigned, table, phase, i, j>>

NULL  == 0
Index == DOMAIN inputpin

Aux(n) == Input_Aux0 + n

DRIVER_IRQMASK == {inputpin[k].pin : k \in {n \in Index : inputpin[n].group \in Driver}}

\* inputpin as the board's map defines it.
Init ==
  /\ inputpin \in {board \in Boards : WellFormed(board)}
  /\ id = [k \in Index |-> Input_Aux0] /\ user_port = [k \in Index |-> 0]
  /\ irq_mode = [k \in Index |-> "none"]
  /\ inputs = NULL /\ n_pins = 0
  /\ irq = {} /\ pin_irq = [line \in 0 .. 15 |-> NULL] /\ aux_irq = {} /\ remapped = {}
  /\ phase = "assign" /\ i = 1 /\ j = 0

\* A loop over inputpin goes on, or the next begins.
Proceed(here, next) ==
  IF i < Len(inputpin) THEN i' = i + 1 /\ phase' = here ELSE i' = 1 /\ phase' = next

-----------------------------------------------------------------------------
(* aux_assign_irq.                                                         *)

\* The entry's function; on a line of the driver only one that needs no interrupt.
IdOf(fn, free) ==
  IF fn # None /\ (free \/ fn \in Probe \cup MotorFault) THEN fn ELSE Aux(n_pins)

\* One auxiliary input.  When its line is taken by another one it gives it up, or the
\* two will have to contest it.
AssignAux ==
  LET fn        == inputpin[i].fn
      line      == inputpin[i].pin
      free      == line \notin DRIVER_IRQMASK
      contested == free /\ line \in irq /\ fn # None /\ fn \notin MotorFault
  IN /\ inputpin[i].group = "aux"
     /\ inputs' = IF inputs = NULL THEN i ELSE inputs
     /\ n_pins' = n_pins + 1
     /\ user_port' = [user_port EXCEPT ![i] = n_pins]
     /\ id' = [id EXCEPT ![i] = IdOf(fn, free)]
     /\ irq_mode' = [irq_mode EXCEPT
          ![i] = IF free /\ (line \notin irq \/ contested) THEN "edges" ELSE "none"]
     /\ irq' = IF free THEN irq \cup {line} ELSE irq
     /\ IF contested THEN phase' = "contest" /\ j' = 0 /\ UNCHANGED i
        ELSE Proceed("assign", "table") /\ UNCHANGED j

AssignIrq ==
  /\ phase = "assign"
  /\ \/ AssignAux
     \/ /\ inputpin[i].group # "aux"
        /\ Proceed("assign", "table")
        /\ UNCHANGED <<assigned, j>>
  /\ UNCHANGED <<inputpin, table>>

\* Mutant: the line is taken, the function stays.
Lose_KeepsId(k) == irq_mode' = [irq_mode EXCEPT ![k] = "none"] /\ UNCHANGED id

\* An entry that loses its line is no more than a numbered input, except a probe,
\* which is read and needs no interrupt.
Lose(k) ==
  /\ irq_mode' = [irq_mode EXCEPT ![k] = "none"]
  /\ id' = [id EXCEPT ![k] = IF @ \in Probe THEN @ ELSE Aux(user_port[k])]

\* Mutant: the last one before the entry is left out.
Rivals_ButLast == n_pins - 2

\* The auxiliary inputs before the entry.
Rivals == n_pins - 1

\* Entry i against an earlier one: a main signal takes the line from it, and so does a
\* function with a lower number.
Wins(rival) == id[i] < id[rival] \/ inputpin[i].fn \in Main

\* One turn of the loop over the auxiliary inputs before entry i.
Contest ==
  /\ phase = "contest"
  /\ LET rival == inputs + j IN
     \/ /\ inputpin[i].pin = inputpin[rival].pin
        /\ IF Wins(rival) THEN Lose(rival) ELSE Lose(i)
     \/ inputpin[i].pin # inputpin[rival].pin /\ UNCHANGED <<id, irq_mode>>
  /\ j' = j + 1
  /\ IF j' < Rivals THEN UNCHANGED <<phase, i>> ELSE Proceed("assign", "table")
  /\ UNCHANGED <<inputpin, user_port, inputs, n_pins, irq, table>>

-----------------------------------------------------------------------------
(* The loop of driver_init.                                                *)

\* An auxiliary input: its function is noted and its line entered.
EnterAux ==
  /\ inputpin[i].group = "aux"
  /\ remapped' = IF id[i] \in Function THEN remapped \cup {[entry |-> i, fn |-> id[i]]}
                 ELSE remapped
  /\ id' = [id EXCEPT ![i] = Aux(user_port[i])]
  /\ IF irq_mode[i] # "none"
     THEN /\ aux_irq' = aux_irq \cup {inputpin[i].pin}
          /\ pin_irq' = [pin_irq EXCEPT ![inputpin[i].pin] = i]
     ELSE UNCHANGED <<aux_irq, pin_irq>>

\* A limit or card switch.
EnterDriver ==
  /\ inputpin[i].group \in Driver
  /\ pin_irq' = [pin_irq EXCEPT ![inputpin[i].pin] = i]
  /\ UNCHANGED <<id, aux_irq, remapped>>

EnterInput ==
  /\ phase = "table"
  /\ EnterAux \/ EnterDriver
  /\ Proceed("table", "done")
  /\ UNCHANGED <<inputpin, irq_mode, user_port, inputs, n_pins, irq, j>>

-----------------------------------------------------------------------------
Next == AssignIrq \/ Contest \/ EnterInput

Spec == Init /\ [][Next]_vars

-----------------------------------------------------------------------------
(* Properties.                                                             *)

\* The registers and indices stay in their ranges: the contest looks at auxiliary inputs
\* before its own, and nowhere else in inputpin.
TypeOK ==
  /\ id \in [Index -> Function \cup {Aux(n) : n \in 0 .. Len(inputpin)}]
  /\ irq_mode \in [Index -> {"none", "edges"}]
  /\ user_port \in [Index -> 0 .. Len(inputpin)]
  /\ inputs \in {NULL} \cup Index /\ n_pins \in 0 .. Len(inputpin)
  /\ irq \subseteq 0 .. 15 /\ aux_irq \subseteq irq
  /\ pin_irq \in [0 .. 15 -> {NULL} \cup Index]
  /\ \A r \in remapped : r.entry \in Index /\ r.fn \in Function
  /\ phase \in {"assign", "contest", "table", "done"} /\ i \in Index
  /\ phase = "contest" => inputs + j < i /\ inputpin[inputs + j].group = "aux"

On(line) == {k \in Index : inputpin[k].pin = line}

\* In the end every line with an input has one owner, the one pin_irq names: the
\* driver's input where there is one, else one auxiliary input, the only one that is
\* told it can interrupt.  A contest may not leave two owners, nor none.
OneOwner ==
  phase = "done" =>
    \A line \in 0 .. 15 :
      LET driver == {k \in On(line) : inputpin[k].group \in Driver}
          edges  == {k \in On(line) : irq_mode[k] = "edges"}
      IN IF driver # {} THEN edges = {} /\ pin_irq[line] \in driver
         ELSE IF On(line) # {} THEN edges = {pin_irq[line]} /\ line \in aux_irq
         ELSE pin_irq[line] = NULL

\* A control input that is announced to the core under its function is the owner of
\* its line: no button is left that is taken for one that interrupts and does not.
\* Probes are read, and motor faults may be.
ControlsInterrupt ==
  phase = "done" =>
    \A r \in remapped :
      r.fn \notin Probe \cup MotorFault => pin_irq[inputpin[r.entry].pin] = r.entry
=============================================================================
