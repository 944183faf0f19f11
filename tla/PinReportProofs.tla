--------------------------- MODULE PinReportProofs ---------------------------
(***************************************************************************)
(* For every board, whatever functions its inputs have and however they    *)
(* are numbered, no control input is announced that does not own its EXTI  *)
(* line; every line of an input has one owner, if the numbers of the       *)
(* functions do not let an input win against the owner of a line and lose  *)
(* against one that has lost it before; and every report shows the pins as *)
(* they were registered and described.                                     *)
(***************************************************************************)
EXTENDS PinReport, SequenceTheorems, WellFoundedInduction, TLAPS

\* The condition of EveryLineOwned: a motor fault, which keeps its function without a
\* line, is numbered behind the controls that contest, and so is the second of two
\* probes behind the main signals, as a main signal takes the line from a probe in front
\* of it, which keeps its function, too.
NumberedApart ==
  /\ \A f \in Function \ (Main \cup MotorFault), m \in MotorFault : f < m
  /\ \A p, q \in Probe, m \in Main : p < q => ~(q < m)

-----------------------------------------------------------------------------
(* The inductive invariant of the loops.                                   *)

IsAux(k) == inputpin[k].group = "aux"

\* Entries aux_assign_irq has come to, entries the loop of driver_init has been at, and
\* the auxiliary inputs in between.
Assigned(k) == phase \in {"table", "done"} \/ k < i \/ (phase = "contest" /\ k = i)
Entered(k)  == phase = "done" \/ (phase = "table" /\ k < i)
Pending(k)  == Assigned(k) /\ IsAux(k) /\ ~Entered(k)

IBoard == inputpin \in Seq(Entry) \ {<<>>} /\ WellFormed(inputpin)

\* The auxiliary inputs so far are those from inputs on, numbered by their ports.
IPlaces ==
  /\ (inputs = NULL <=> n_pins = 0) /\ (n_pins = 0 => irq = {})
  /\ inputs .. inputs + n_pins - 1 \subseteq Index
  /\ \A k \in Index : Assigned(k) /\ IsAux(k) <=> k \in inputs .. inputs + n_pins - 1
  /\ \A k \in Index : Assigned(k) /\ IsAux(k) => user_port[k] = k - inputs
  /\ phase = "contest" => i = inputs + n_pins - 1 /\ j \in 0 .. n_pins - 2
  /\ phase = "contest" => inputpin[i].fn \in Function \ MotorFault /\ inputpin[i].pin \in irq

\* An input has its function or its number.  One with an interrupt has its function, if
\* there is one, and a control that has its function has an interrupt.
INames ==
  \A k \in Index : Pending(k) =>
    /\ id[k] = Aux(user_port[k]) \/ (id[k] = inputpin[k].fn /\ id[k] \in Function)
    /\ irq_mode[k] = "edges" /\ inputpin[k].fn # None => id[k] = inputpin[k].fn
    /\ id[k] \in Function \ (Probe \cup MotorFault) => irq_mode[k] = "edges"

\* The lines given away are those of the auxiliary inputs so far that are not of the
\* driver, and only these interrupt.
IFree ==
  /\ \A k \in Index : irq_mode[k] = "edges" => inputpin[k].pin \in irq /\ Assigned(k) /\ IsAux(k)
  /\ \A k \in Index : Assigned(k) /\ IsAux(k) => inputpin[k].pin \in irq \cup DRIVER_IRQMASK
  /\ irq \cap DRIVER_IRQMASK = {}

\* Of two inputs with an interrupt on one line one is the contestant, and it has not met
\* the other one yet.
ISingle ==
  \A k, l \in Index :
    /\ irq_mode[k] = "edges" /\ irq_mode[l] = "edges"
    /\ inputpin[k].pin = inputpin[l].pin /\ k < l
    => phase = "contest" /\ l = i /\ k >= inputs + j

\* The owners that have been entered are in the table, and controls that have been
\* announced are among them.
ITable ==
  /\ \A line \in 0 .. 15 : pin_irq[line] # NULL => inputpin[pin_irq[line]].pin = line
  /\ \A k \in Index : Entered(k) =>
       /\ inputpin[k].group \in Driver =>
            pin_irq[inputpin[k].pin] # NULL /\ inputpin[pin_irq[inputpin[k].pin]].group \in Driver
       /\ irq_mode[k] = "edges" =>
            pin_irq[inputpin[k].pin] = k /\ inputpin[k].pin \in aux_irq
  /\ \A r \in remapped : r.fn \notin Probe \cup MotorFault =>
       Entered(r.entry) /\ irq_mode[r.entry] = "edges"

ILoops == IBoard /\ TypeOK /\ IPlaces /\ INames /\ IFree /\ ISingle /\ ITable

-----------------------------------------------------------------------------
(* The owner of a line.                                                    *)

\* The owner h stays ahead of k: an input with a lower number than h has one lower than
\* k, unless k is a probe in front of h that has lost its line to h, a main signal.
Ahead(h, k) ==
  /\ id[h] \in Function \/ h < k
  /\ \/ id[h] < id[k] \/ id[k] \in MotorFault
     \/ k < h /\ inputpin[h].fn \in Main /\ id[k] \in Probe

\* h owns its line among the entries before i.
Owns(h) ==
  /\ h < i /\ irq_mode[h] = "edges"
  /\ \A k \in Index \ {h} : k < i /\ inputpin[k].pin = inputpin[h].pin => Ahead(h, k)

\* The entries the contestant has on its line.
Rival(k) == k < i /\ inputpin[k].pin = inputpin[i].pin
Met(k)   == k < inputs + j

\* The contestant beats them all.
WinsAll ==
  /\ irq_mode[i] = "edges" /\ id[i] = inputpin[i].fn
  /\ \A k \in Index : Rival(k) => IF Met(k) THEN Ahead(i, k) ELSE Wins(k)

\* It loses to the owner, as its number is higher, or will be by then: it loses its
\* function to another one first.
LosesTo(h) ==
  /\ Rival(h) /\ Owns(h) /\ inputpin[i].fn \notin Main
  /\ \/ id[h] < id[i]
     \/ /\ id[i] = inputpin[i].fn /\ id[i] \notin Probe
        /\ \E k \in Index : Rival(k) /\ ~Met(k) /\ k < h /\ ~Wins(k)

IOwned ==
  /\ \A line \in irq :
       \/ phase = "contest" /\ line = inputpin[i].pin
       \/ \E h \in Index :
            /\ inputpin[h].pin = line /\ irq_mode[h] = "edges"
            /\ phase \in {"assign", "contest"} => Owns(h)
  /\ phase = "contest" => WinsAll \/ \E h \in Index : LosesTo(h)

-----------------------------------------------------------------------------
(* The loops, whatever the numbers of the functions.                       *)

LEMMA Board ==
  ASSUME IBoard
  PROVE  /\ Len(inputpin) \in Nat \ {0} /\ Index = 1 .. Len(inputpin)
         /\ \A k \in Index : /\ inputpin[k].group \in Driver \cup {"aux"}
                             /\ inputpin[k].pin \in 0 .. 15
                             /\ inputpin[k].fn \in Function \cup {None}
<1>1. inputpin \in Seq(Entry) /\ inputpin # <<>>
  BY DEF IBoard
<1>2. /\ Len(inputpin) \in Nat \ {0} /\ Index = 1 .. Len(inputpin)
      /\ \A k \in 1 .. Len(inputpin) : inputpin[k] \in Entry
  BY <1>1 DEF Index
<1> QED BY <1>2 DEF Entry

\* The entries come one after the other.
LEMMA Proceeds ==
  ASSUME IBoard, i \in Index, NEW here, NEW next, Proceed(here, next)
  PROVE  /\ i' \in Index
         /\ \/ i < Len(inputpin) /\ i' = i + 1 /\ phase' = here
            \/ i = Len(inputpin) /\ i' = 1 /\ phase' = next
BY Board DEF Proceed

LEMMA Ranges ==
  ASSUME ILoops
  PROVE  /\ Len(inputpin) \in Nat \ {0} /\ Index = 1 .. Len(inputpin)
         /\ i \in Index /\ i \in Nat /\ n_pins \in Nat /\ inputs \in Nat
         /\ \A k \in Index : /\ inputpin[k].group \in Driver \cup {"aux"}
                             /\ inputpin[k].pin \in 0 .. 15
                             /\ inputpin[k].fn \in Function \cup {None}
<1>1. IBoard /\ TypeOK
  BY DEF ILoops
<1>2. /\ Len(inputpin) \in Nat \ {0} /\ Index = 1 .. Len(inputpin)
      /\ \A k \in Index : /\ inputpin[k].group \in Driver \cup {"aux"}
                          /\ inputpin[k].pin \in 0 .. 15
                          /\ inputpin[k].fn \in Function \cup {None}
  BY <1>1, Board
<1> HIDE DEF Index
<1>3. i \in Index /\ n_pins \in 0 .. Len(inputpin) /\ inputs \in {0} \cup Index
  BY <1>1 DEF TypeOK, NULL
<1> QED BY <1>2, <1>3

LEMMA InitLoops == Init => ILoops
<1> SUFFICES ASSUME Init PROVE ILoops
  OBVIOUS
<1>1. IBoard
  BY ConstantsAssumption DEF Init, IBoard
<1>2. /\ Len(inputpin) \in Nat \ {0} /\ Index = 1 .. Len(inputpin)
  BY <1>1, Board
<1>3. TypeOK
  BY <1>2, ConstantsAssumption DEF Init, TypeOK, Aux
<1>4. \A k \in Index : ~Assigned(k) /\ ~Entered(k)
  BY <1>2 DEF Init, Assigned, Entered
<1>5. IPlaces
  BY <1>2, <1>4 DEF Init, IPlaces, NULL
<1>6. INames /\ IFree /\ ISingle /\ ITable
  BY <1>4 DEF Init, INames, IFree, ISingle, ITable, Pending, NULL
<1> QED BY <1>1, <1>3, <1>5, <1>6 DEF ILoops

\* When aux_assign_irq leaves entry i it has come to it, and to no later one.
LEMMA AssignTurn ==
  ASSUME ILoops, phase = "assign",
         Proceed("assign", "table") \/ (phase' = "contest" /\ UNCHANGED i),
         UNCHANGED inputpin
  PROVE  /\ i \in Index /\ i' \in Index /\ phase' \in {"assign", "contest", "table"}
         /\ \A k \in Index : /\ Assigned(k) <=> k < i
                             /\ Assigned(k)' <=> k <= i
                             /\ ~Entered(k) /\ ~Entered(k)'
<1>1. i \in Index /\ IBoard
  BY DEF ILoops, TypeOK
<1>2. Len(inputpin) \in Nat \ {0} /\ Index = 1 .. Len(inputpin)
  BY <1>1, Board
<1>3. CASE Proceed("assign", "table")
  BY <1>1, <1>2, <1>3, Proceeds DEF Assigned, Entered
<1>4. CASE phase' = "contest" /\ UNCHANGED i
  BY <1>1, <1>2, <1>4 DEF Assigned, Entered
<1> QED BY <1>3, <1>4

\* The auxiliary inputs before entry i end right before it.
LEMMA NextPlace ==
  ASSUME ILoops, phase = "assign", IsAux(i)
  PROVE  inputs # NULL => i = inputs + n_pins
<1> SUFFICES ASSUME inputs # NULL PROVE i = inputs + n_pins
  OBVIOUS
<1>1. /\ i \in Index /\ inputs \in Index /\ n_pins \in Nat /\ n_pins # 0
      /\ Len(inputpin) \in Nat \ {0} /\ Index = 1 .. Len(inputpin)
  BY Ranges DEF ILoops, TypeOK, IPlaces, NULL
<1>2. \A k \in Index : k < i /\ IsAux(k) <=> k \in inputs .. inputs + n_pins - 1
  BY <1>1 DEF ILoops, IPlaces, Assigned
<1>3. inputs < i /\ IsAux(inputs) /\ inputs + n_pins <= i
  <2>1. inputs + n_pins - 1 \in inputs .. inputs + n_pins - 1
    BY <1>1
  <2>2. inputs + n_pins - 1 \in Index
    BY <2>1 DEF ILoops, IPlaces
  <2> QED BY <1>1, <1>2, <2>1, <2>2
<1>4. ASSUME inputs + n_pins < i PROVE FALSE
  <2>1. ~IsAux(inputs + n_pins)
    BY <1>1, <1>2, <1>3, <1>4
  <2>2. WellFormed(inputpin)
    BY DEF ILoops, IBoard
  <2>3. inputs < inputs + n_pins /\ inputs + n_pins \in DOMAIN inputpin
    BY <1>1, <1>3, <1>4 DEF Index
  <2> QED BY <1>1, <1>3, <1>4, <2>1, <2>2, <2>3 DEF WellFormed, IsAux, Index
<1> QED BY <1>1, <1>3, <1>4

\* What AssignAux does with entry i.
Free      == inputpin[i].pin \notin DRIVER_IRQMASK
Contested == /\ Free /\ inputpin[i].pin \in irq
             /\ inputpin[i].fn # None /\ inputpin[i].fn \notin MotorFault

Assignment ==
  /\ inputs' = (IF inputs = NULL THEN i ELSE inputs) /\ n_pins' = n_pins + 1
  /\ user_port' = [user_port EXCEPT ![i] = n_pins]
  /\ id' = [id EXCEPT ![i] = IdOf(inputpin[i].fn, Free)]
  /\ irq_mode' = [irq_mode EXCEPT
       ![i] = IF Free /\ (inputpin[i].pin \notin irq \/ Contested) THEN "edges" ELSE "none"]
  /\ irq' = IF Free THEN irq \cup {inputpin[i].pin} ELSE irq
  /\ IF Contested THEN phase' = "contest" /\ j' = 0 /\ UNCHANGED i
     ELSE Proceed("assign", "table") /\ UNCHANGED j

LEMMA AssignFacts ==
  ASSUME ILoops, phase = "assign", AssignAux, UNCHANGED inputpin
  PROVE  /\ Assignment
         /\ IsAux(i) /\ i \in Index /\ n_pins \in Nat /\ n_pins = i - inputs'
         /\ inputpin[i].fn \in Function \cup {None} /\ inputpin[i].pin \in 0 .. 15
         /\ \/ id'[i] = Aux(n_pins) /\ (Free => inputpin[i].fn = None)
            \/ /\ id'[i] = inputpin[i].fn /\ id'[i] \in Function
               /\ Free \/ id'[i] \in Probe \cup MotorFault
         /\ phase' \in {"assign", "contest", "table"} /\ i' \in Index
         /\ \A k \in Index : /\ Assigned(k) <=> k < i
                             /\ Assigned(k)' <=> k <= i
                             /\ ~Entered(k) /\ ~Entered(k)'
<1>1. /\ i \in Index /\ n_pins \in Nat /\ Len(inputpin) \in Nat \ {0}
      /\ inputpin[i].fn \in Function \cup {None} /\ inputpin[i].pin \in 0 .. 15
      /\ Index = 1 .. Len(inputpin) /\ inputs \in Nat
  BY Ranges
<1>2. IsAux(i)
  BY DEF AssignAux, IsAux
<1>3. Assignment
  BY DEF AssignAux, Assignment, Free, Contested
<1>4. n_pins = i - inputs'
  BY <1>1, <1>2, <1>3, NextPlace DEF ILoops, IPlaces, Assignment
<1>5. id'[i] = IdOf(inputpin[i].fn, Free)
  BY <1>1, <1>3 DEF ILoops, TypeOK, Assignment
<1>6. \/ id'[i] = Aux(n_pins) /\ (Free => inputpin[i].fn = None)
      \/ /\ id'[i] = inputpin[i].fn /\ id'[i] \in Function
         /\ Free \/ id'[i] \in Probe \cup MotorFault
  BY <1>1, <1>5, ConstantsAssumption DEF IdOf
<1>7. Proceed("assign", "table") \/ (phase' = "contest" /\ UNCHANGED i)
  BY <1>3 DEF Assignment
<1> QED BY <1>1, <1>2, <1>3, <1>4, <1>6, <1>7, AssignTurn

LEMMA AssignAuxLoops ==
  ASSUME ILoops, phase = "assign", AssignAux, UNCHANGED <<inputpin, table>>
  PROVE  ILoops'
<1>1. /\ Len(inputpin) \in Nat \ {0} /\ Index = 1 .. Len(inputpin) /\ inputs \in Nat
      /\ \A k \in Index : IsAux(k)' = IsAux(k)
      /\ DRIVER_IRQMASK' = DRIVER_IRQMASK /\ Index' = Index
  BY Ranges DEF DRIVER_IRQMASK, Index, IsAux
<1>2. IBoard'
  BY DEF ILoops, IBoard
<1>3. IPlaces'
  <2>1. inputs' # NULL /\ n_pins' # 0 /\ inputs' + n_pins' - 1 = i /\ inputs' \in Index
    <3>1. /\ inputs' = (IF inputs = NULL THEN i ELSE inputs) /\ n_pins' = n_pins + 1
          /\ n_pins = i - inputs' /\ inputs \in {0} \cup Index
      BY AssignFacts DEF Assignment, ILoops, TypeOK, NULL
    <3>2. i \in Nat /\ i # 0 /\ inputs \in Nat /\ n_pins \in Nat /\ i \in Index
      BY Ranges
    <3>3. inputs' # NULL /\ inputs' \in Index /\ inputs' \in Nat
      BY <3>1, <3>2 DEF NULL
    <3> QED BY <3>1, <3>2, <3>3
  <2>2. \A k \in Index : k < i /\ IsAux(k) <=> k \in inputs .. inputs + n_pins - 1
    BY AssignFacts DEF ILoops, IPlaces
  <2>3. \A k \in Index : k <= i /\ IsAux(k) <=> k \in inputs' .. inputs' + n_pins' - 1
    <3>1. /\ inputs' = (IF inputs = NULL THEN i ELSE inputs) /\ n_pins' = n_pins + 1
          /\ inputs = NULL => n_pins = 0
          /\ IsAux(i) /\ i \in Nat /\ inputs \in Nat /\ n_pins \in Nat
          /\ \A k \in Index : k \in Nat
      BY AssignFacts, Ranges DEF Assignment, ILoops, IPlaces
    <3>2. \A k \in Index : k \in inputs' .. inputs' + n_pins' - 1 <=>
                            k = i \/ k \in inputs .. inputs + n_pins - 1
      BY <2>1, <3>1
    <3>3. \A k \in Index : k <= i <=> k < i \/ k = i
      BY <3>1
    <3> QED BY <2>2, <3>1, <3>2, <3>3
  <2>4. \A k \in Index : k <= i /\ IsAux(k) => user_port'[k] = k - inputs'
    <3> SUFFICES ASSUME NEW k \in Index, k <= i, IsAux(k)
                 PROVE  user_port'[k] = k - inputs'
      OBVIOUS
    <3>1. /\ inputs' = (IF inputs = NULL THEN i ELSE inputs) /\ n_pins = i - inputs'
          /\ user_port' = [user_port EXCEPT ![i] = n_pins]
          /\ user_port \in [Index -> 0 .. Len(inputpin)] /\ i \in Index
      BY AssignFacts DEF Assignment, ILoops, TypeOK
    <3>2. CASE k = i
      BY <3>1, <3>2
    <3>3. CASE k # i
      <4>1. k < i /\ k \in Nat /\ i \in Nat
        BY <3>3, Ranges
      <4>2. user_port[k] = k - inputs /\ n_pins # 0
        <5>1. /\ inputs \in Nat /\ n_pins \in Nat /\ k \in inputs .. inputs + n_pins - 1
              /\ Assigned(k)
          BY <2>2, <4>1, AssignFacts, Ranges
        <5> QED BY <5>1 DEF ILoops, IPlaces
      <4> QED BY <3>1, <3>3, <4>2 DEF ILoops, IPlaces
    <3> QED BY <3>2, <3>3
  <2>5. phase' = "contest" => i' = i /\ j' = 0 /\ Contested
    BY AssignFacts DEF Assignment, Proceed
  <2>6. phase' = "contest" => j' \in 0 .. n_pins' - 2
    <3>1. phase' = "contest" => j' = 0 /\ n_pins # 0 /\ n_pins' = n_pins + 1
      BY <2>5, AssignFacts DEF Assignment, Contested, ILoops, IPlaces
    <3> QED BY <3>1, AssignFacts
  <2>7. phase' = "contest" =>
          inputpin'[i'].fn \in Function \ MotorFault /\ inputpin'[i'].pin \in irq'
    BY <2>5, AssignFacts DEF Assignment, Contested, Free
  <2>8. \A k \in Index : Assigned(k)' /\ IsAux(k)' <=> k \in (inputs .. inputs + n_pins - 1)'
    BY <1>1, <2>3, AssignFacts
  <2> QED BY <1>1, <2>1, <2>4, <2>5, <2>6, <2>7, <2>8, AssignFacts, Ranges DEF IPlaces
<1>4. TypeOK'
  <2>1. /\ inputs' \in {NULL} \cup Index /\ n_pins' \in 0 .. Len(inputpin)
        /\ phase' = "contest" => inputs' + j' < i' /\ inputpin[inputs' + j'].group = "aux"
    <3>1. /\ inputs' = (IF inputs = NULL THEN i ELSE inputs) /\ n_pins = i - inputs'
          /\ n_pins' = n_pins + 1 /\ inputs \in {NULL} \cup Index /\ i \in Index
          /\ i \in Nat /\ inputs \in Nat /\ Index = 1 .. Len(inputpin) /\ Len(inputpin) \in Nat
      BY AssignFacts, Ranges DEF Assignment, ILoops, TypeOK
    <3>2. inputs' \in Index /\ inputs' \in Nat /\ inputs' <= i /\ n_pins' = i - inputs' + 1
      <4>1. inputs' \in Index
        BY <3>1
      <4>2. n_pins \in Nat
        BY AssignFacts
      <4> QED BY <3>1, <4>1, <4>2
    <3>3. ASSUME phase' = "contest"
          PROVE  inputs' + j' < i' /\ inputpin[inputs' + j'].group = "aux"
      <4>1. i' = i /\ j' = 0 /\ n_pins # 0
        BY <3>3, AssignFacts DEF Assignment, Proceed, Contested, ILoops, IPlaces
      <4>2. inputs' \in inputs' .. inputs' + n_pins' - 1 /\ inputs' < i
        BY <3>1, <3>2, <4>1
      <4>3. IsAux(inputs')
        BY <1>1, <1>3, <3>2, <4>2 DEF IPlaces, IsAux
      <4> QED BY <3>1, <3>2, <4>1, <4>2, <4>3 DEF IsAux
    <3>4. n_pins' \in 0 .. Len(inputpin)
      BY <3>1, <3>2
    <3> QED BY <3>2, <3>3, <3>4
  <2>2. user_port' \in [Index -> 0 .. Len(inputpin)]
    <3>1. n_pins \in 0 .. Len(inputpin)
      BY DEF ILoops, TypeOK
    <3> QED BY <3>1, AssignFacts DEF Assignment, ILoops, TypeOK
  <2>3. id' \in [Index -> Function \cup {Aux(n) : n \in 0 .. Len(inputpin)}]
    <3>1. n_pins \in 0 .. Len(inputpin)
      BY DEF ILoops, TypeOK
    <3>2. IdOf(inputpin[i].fn, Free) \in Function \cup {Aux(n) : n \in 0 .. Len(inputpin)}
      BY <3>1, AssignFacts DEF IdOf
    <3> QED BY <3>2, AssignFacts DEF Assignment, ILoops, TypeOK
  <2>4. irq_mode' \in [Index -> {"none", "edges"}]
    BY AssignFacts DEF Assignment, ILoops, TypeOK
  <2>5. irq' \subseteq 0 .. 15 /\ irq \subseteq irq'
    BY AssignFacts DEF Assignment, ILoops, TypeOK
  <2> QED BY <1>1, <2>1, <2>2, <2>3, <2>4, <2>5, AssignFacts DEF TypeOK, ILoops, table, Aux
<1>5. INames'
  <2> SUFFICES ASSUME NEW k \in Index, k <= i, IsAux(k)
               PROVE  /\ \/ id'[k] = Aux(user_port'[k])
                         \/ id'[k] = inputpin[k].fn /\ id'[k] \in Function
                      /\ irq_mode'[k] = "edges" /\ inputpin[k].fn # None
                           => id'[k] = inputpin[k].fn
                      /\ id'[k] \in Function \ (Probe \cup MotorFault)
                           => irq_mode'[k] = "edges"
    BY <1>1, AssignFacts DEF INames, Pending, Aux
  <2>1. CASE k = i
    <3>1. /\ user_port'[i] = n_pins
          /\ irq_mode'[i] = IF Free /\ (inputpin[i].pin \notin irq \/ Contested) THEN "edges"
                             ELSE "none"
      BY AssignFacts DEF Assignment, ILoops, TypeOK
    <3>2. \A f \in Function : f # Aux(n_pins)
      BY AssignFacts, ConstantsAssumption DEF Aux
    <3> QED BY <2>1, <3>1, <3>2, AssignFacts, ConstantsAssumption DEF Contested
  <2>2. CASE k # i
    <3>1. k < i
      BY <2>2, Ranges
    <3>2. Pending(k)
      BY <3>1, AssignFacts DEF Pending
    <3> QED BY <2>2, <3>2, AssignFacts DEF Assignment, ILoops, TypeOK, INames
  <2> QED BY <2>1, <2>2
<1>6. IFree'
  <2>1. /\ irq' = IF Free THEN irq \cup {inputpin[i].pin} ELSE irq
        /\ \A k \in Index \ {i} : irq_mode'[k] = irq_mode[k]
        /\ irq_mode'[i] = "edges" => Free
    BY AssignFacts DEF Assignment, ILoops, TypeOK
  <2>2. \A k \in Index : irq_mode'[k] = "edges" => inputpin[k].pin \in irq' /\ k <= i /\ IsAux(k)
    BY <2>1, AssignFacts, Ranges DEF ILoops, IFree
  <2>3. \A k \in Index : k <= i /\ IsAux(k) => inputpin[k].pin \in irq' \cup DRIVER_IRQMASK
    BY <2>1, AssignFacts, Ranges DEF ILoops, IFree, Free
  <2>4. irq' \cap DRIVER_IRQMASK = {}
    BY <2>1 DEF ILoops, IFree, Free
  <2> QED BY <1>1, <2>2, <2>3, <2>4, AssignFacts DEF IFree
<1>7. ISingle'
  <2> SUFFICES ASSUME NEW k \in Index, NEW l \in Index,
                      irq_mode'[k] = "edges", irq_mode'[l] = "edges",
                      inputpin[k].pin = inputpin[l].pin, k < l
               PROVE  phase' = "contest" /\ l = i' /\ k >= inputs' + j'
    BY <1>1 DEF ISingle
  <2>1. /\ \A m \in Index \ {i} : irq_mode'[m] = irq_mode[m]
        /\ irq_mode'[i] = "edges" => inputpin[i].pin \notin irq \/ Contested
        /\ \A m \in Index : irq_mode[m] = "edges" => inputpin[m].pin \in irq /\ m < i /\ IsAux(m)
    BY AssignFacts DEF Assignment, ILoops, TypeOK, IFree
  <2>2. k # i
    BY <2>1, Ranges
  <2>3. irq_mode[k] = "edges" /\ inputpin[k].pin \in irq /\ k < i /\ IsAux(k)
    BY <2>1, <2>2
  <2>4. l = i
    BY <2>1, <2>3 DEF ILoops, ISingle
  <2>5. Contested
    BY <2>1, <2>3, <2>4
  <2>6. phase' = "contest" /\ i' = i /\ j' = 0
    BY <2>5, AssignFacts DEF Assignment
  <2>7. k >= inputs /\ inputs # NULL
    <3>1. k \in inputs .. inputs + n_pins - 1 /\ Assigned(k)
      BY <2>3, AssignFacts DEF ILoops, IPlaces
    <3> QED BY <3>1, Ranges DEF ILoops, IPlaces
  <2> QED BY <2>4, <2>6, <2>7, AssignFacts, Ranges DEF Assignment
<1>8. ITable'
  <2>1. \A k \in Index : ~Entered(k) /\ ~Entered(k)'
    BY AssignFacts
  <2>2. \A r \in remapped : r.fn \in Probe \cup MotorFault
    BY <2>1 DEF ILoops, ITable, TypeOK
  <2>3. \A line \in 0 .. 15 : pin_irq[line] # NULL => inputpin[pin_irq[line]].pin = line
    BY DEF ILoops, ITable
  <2>4. UNCHANGED <<pin_irq, aux_irq, remapped>>
    BY DEF table
  <2> QED BY <1>1, <2>1, <2>2, <2>3, <2>4 DEF ITable
<1> QED BY <1>2, <1>3, <1>4, <1>5, <1>6, <1>7, <1>8 DEF ILoops

\* An entry that is no auxiliary input is passed over.
LEMMA PassLoops ==
  ASSUME ILoops, phase = "assign", ~IsAux(i), Proceed("assign", "table"),
         UNCHANGED <<inputpin, assigned, table, j>>
  PROVE  ILoops'
<1> USE DEF assigned, table
<1>1. /\ i' \in Index /\ phase' \in {"assign", "table"}
      /\ \A k \in Index : /\ Assigned(k)' /\ IsAux(k)' <=> Assigned(k) /\ IsAux(k)
                          /\ Assigned(k) => Assigned(k)'
                          /\ ~Entered(k) /\ ~Entered(k)'
  <2>1. /\ i \in Index /\ i' \in Index /\ phase' \in {"assign", "contest", "table"}
        /\ \A k \in Index : /\ Assigned(k) <=> k < i
                            /\ Assigned(k)' <=> k <= i
                            /\ ~Entered(k) /\ ~Entered(k)'
    BY AssignTurn, Ranges
  <2>2. \A k \in Index : k <= i <=> k < i \/ k = i
    BY Ranges
  <2>3. phase' \in {"assign", "table"} /\ \A k \in Index : IsAux(k)' <=> IsAux(k)
    BY DEF Proceed, IsAux
  <2> QED BY <2>1, <2>2, <2>3
<1>2. Index' = Index /\ DRIVER_IRQMASK' = DRIVER_IRQMASK
  BY DEF Index, DRIVER_IRQMASK
<1>3. IBoard' /\ TypeOK'
  BY <1>1, <1>2 DEF ILoops, IBoard, TypeOK, Aux
<1>4. IPlaces'
  BY <1>1, <1>2 DEF ILoops, IPlaces
<1>5. INames'
  BY <1>1, <1>2 DEF ILoops, INames, Pending, Aux
<1>6. IFree' /\ ISingle'
  BY <1>1, <1>2 DEF ILoops, IFree, ISingle
<1>7. ITable'
  BY <1>1, <1>2 DEF ILoops, ITable, TypeOK
<1> QED BY <1>3, <1>4, <1>5, <1>6, <1>7 DEF ILoops

-----------------------------------------------------------------------------
(* The contest.                                                            *)

\* A turn: the opponent, and the entry that loses, if the two are on one line.
Opponent == inputs + j
Loser    == IF Wins(Opponent) THEN Opponent ELSE i
Loses(k) == k = Loser /\ inputpin[i].pin = inputpin[Opponent].pin

LEMMA ContestFacts ==
  ASSUME ILoops, Contest
  PROVE  /\ Opponent \in Index /\ i \in Index /\ Opponent < i /\ IsAux(Opponent) /\ IsAux(i)
         /\ Opponent \in Nat /\ i \in Nat /\ Opponent >= inputs
         /\ \A k \in Index :
              /\ irq_mode'[k] = IF Loses(k) THEN "none" ELSE irq_mode[k]
              /\ id'[k] = IF Loses(k) /\ id[k] \notin Probe THEN Aux(user_port[k]) ELSE id[k]
         /\ DOMAIN irq_mode' = Index /\ DOMAIN id' = Index
         /\ irq_mode' = [k \in Index |-> irq_mode'[k]] /\ id' = [k \in Index |-> id'[k]]
         /\ UNCHANGED <<inputpin, user_port, inputs, n_pins, irq, table, Index>>
         /\ i' \in Index /\ j' = j + 1 /\ phase' \in {"assign", "contest", "table"}
         /\ phase' = "contest" => i' = i /\ j' < n_pins - 1
         /\ phase' # "contest" => Opponent = i - 1
         /\ \A k \in Index : /\ Assigned(k) <=> k <= i
                             /\ Assigned(k)' <=> k <= i
                             /\ ~Entered(k) /\ ~Entered(k)'
                             /\ IsAux(k)' = IsAux(k)
<1>1. /\ phase = "contest" /\ i = inputs + n_pins - 1 /\ j \in 0 .. n_pins - 2
      /\ IsAux(inputs + j) /\ inputs + j < i
  BY DEF Contest, ILoops, IPlaces, TypeOK, IsAux
<1>2. /\ Len(inputpin) \in Nat \ {0} /\ Index = 1 .. Len(inputpin)
      /\ i \in Index /\ i \in Nat /\ n_pins \in Nat /\ inputs \in Nat /\ j \in Nat
  BY <1>1, Ranges
<1>3. inputs + j \in Index /\ i \in inputs .. inputs + n_pins - 1
  BY <1>1, <1>2 DEF ILoops, IPlaces
<1>4. IsAux(i)
  BY <1>2, <1>3 DEF ILoops, IPlaces
<1>5. UNCHANGED <<inputpin, user_port, inputs, n_pins, irq, table, Index>> /\ j' = j + 1
  BY DEF Contest, Index
<1>6. /\ i' \in Index /\ phase' \in {"assign", "contest", "table"}
      /\ phase' = "contest" => i' = i /\ j' < n_pins - 1
      /\ phase' # "contest" => inputs + j = i - 1
      /\ \A k \in Index : /\ Assigned(k) <=> k <= i
                          /\ Assigned(k)' <=> k <= i
                          /\ ~Entered(k) /\ ~Entered(k)'
  <2>1. CASE j' < n_pins - 1
    <3>1. phase' = phase /\ i' = i
      BY <2>1 DEF Contest, Rivals
    <3> QED BY <1>1, <1>2, <2>1, <3>1 DEF Assigned, Entered
  <2>2. CASE ~(j' < n_pins - 1)
    <3>1. Proceed("assign", "table")
      BY <2>2 DEF Contest, Rivals
    <3>2. \/ i < Len(inputpin) /\ i' = i + 1 /\ phase' = "assign"
          \/ i = Len(inputpin) /\ i' = 1 /\ phase' = "table"
      BY <3>1, <1>2, Proceeds DEF ILoops
    <3> QED BY <1>1, <1>2, <1>5, <2>2, <3>2 DEF Assigned, Entered
  <2> QED BY <2>1, <2>2
<1>7. \A k \in Index : IsAux(k)' = IsAux(k)
  BY <1>5 DEF IsAux
<1>8. /\ irq_mode \in [Index -> {"none", "edges"}]
      /\ id \in [Index -> Function \cup {Aux(n) : n \in 0 .. Len(inputpin)}]
  BY DEF ILoops, TypeOK
<1>9. \/ inputpin[i].pin = inputpin[Opponent].pin /\ Lose(Loser)
      \/ inputpin[i].pin # inputpin[Opponent].pin /\ UNCHANGED <<id, irq_mode>>
  BY DEF Contest, Opponent, Loser
<1>10. /\ \A k \in Index :
            /\ irq_mode'[k] = IF Loses(k) THEN "none" ELSE irq_mode[k]
            /\ id'[k] = IF Loses(k) /\ id[k] \notin Probe THEN Aux(user_port[k]) ELSE id[k]
       /\ irq_mode' = [k \in Index |-> irq_mode'[k]] /\ id' = [k \in Index |-> id'[k]]
  BY <1>8, <1>9 DEF Lose, Loses
<1> QED BY <1>1, <1>2, <1>3, <1>4, <1>5, <1>6, <1>7, <1>10 DEF Opponent

LEMMA ContestLoops ==
  ASSUME ILoops, Contest
  PROVE  ILoops'
<1>1. UNCHANGED <<inputpin, user_port, inputs, n_pins, irq, table, Index, DRIVER_IRQMASK>>
  BY ContestFacts DEF DRIVER_IRQMASK
<1>2. /\ phase = "contest" /\ i = inputs + n_pins - 1 /\ j \in 0 .. n_pins - 2
      /\ inputpin[i].fn \in Function \ MotorFault /\ inputpin[i].pin \in irq
  BY DEF Contest, ILoops, IPlaces
<1>3. IBoard'
  BY <1>1 DEF ILoops, IBoard
<1>4. phase' = "contest" => j' \in 0 .. n_pins' - 2
  BY <1>1, <1>2, ContestFacts, Ranges
<1>5. IPlaces'
  BY <1>1, <1>2, <1>4, ContestFacts DEF ILoops, IPlaces
<1>6. TypeOK'
  <2>1. irq_mode' \in [Index -> {"none", "edges"}]
    BY ContestFacts DEF ILoops, TypeOK
  <2>2. id' \in [Index -> Function \cup {Aux(n) : n \in 0 .. Len(inputpin)}]
    BY ContestFacts DEF ILoops, TypeOK
  <2>3. phase' = "contest" => inputs' + j' < i' /\ inputpin[inputs' + j'].group = "aux"
    <3>1. SUFFICES ASSUME phase' = "contest"
                   PROVE  inputs + j + 1 < i /\ IsAux(inputs + j + 1)
      BY <1>1, ContestFacts, Ranges, <1>2 DEF IsAux
    <3>2. inputs + j + 1 \in inputs .. inputs + n_pins - 1 /\ inputs + j + 1 < i
      BY <1>2, <3>1, ContestFacts, Ranges
    <3> QED BY <3>2 DEF ILoops, IPlaces
  <2> QED BY <1>1, <2>1, <2>2, <2>3, ContestFacts DEF ILoops, TypeOK, table, Aux
<1>7. INames'
  <2> SUFFICES ASSUME NEW k \in Index, Pending(k)
               PROVE  /\ id'[k] = Aux(user_port[k])
                         \/ (id'[k] = inputpin[k].fn /\ id'[k] \in Function)
                      /\ irq_mode'[k] = "edges" /\ inputpin[k].fn # None
                           => id'[k] = inputpin[k].fn
                      /\ id'[k] \in Function \ (Probe \cup MotorFault)
                           => irq_mode'[k] = "edges"
    BY <1>1, ContestFacts DEF INames, Pending, Aux
  <2>1. \A f \in Function : f # Aux(user_port[k])
    BY ConstantsAssumption DEF Aux, ILoops, TypeOK
  <2> QED BY <2>1, ContestFacts DEF ILoops, INames
<1>8. IFree'
  BY <1>1, ContestFacts DEF ILoops, IFree
<1>9. ISingle'
  <2> SUFFICES ASSUME NEW k \in Index, NEW l \in Index,
                      irq_mode'[k] = "edges", irq_mode'[l] = "edges",
                      inputpin[k].pin = inputpin[l].pin, k < l
               PROVE  phase' = "contest" /\ l = i' /\ k >= inputs' + j'
    BY <1>1 DEF ISingle
  <2>1. irq_mode[k] = "edges" /\ irq_mode[l] = "edges" /\ ~Loses(k) /\ ~Loses(l)
    BY ContestFacts
  <2>2. l = i /\ k >= Opponent
    BY <2>1 DEF ILoops, ISingle, Opponent
  <2>3. k # Opponent
    BY <2>1, <2>2 DEF Loses, Loser
  <2>4. k \in Nat /\ k >= inputs + j + 1 /\ k < i
    BY <2>2, <2>3, ContestFacts, Ranges, <1>2 DEF Opponent
  <2>5. phase' = "contest"
    BY <2>4, ContestFacts, <1>2 DEF Opponent
  <2> QED BY <1>1, <1>2, <2>2, <2>4, <2>5, ContestFacts, Ranges
<1>10. ITable'
  <2>1. \A k \in Index : ~Entered(k) /\ ~Entered(k)'
    BY ContestFacts
  <2>2. \A r \in remapped : r.fn \in Probe \cup MotorFault
    BY <2>1 DEF ILoops, ITable, TypeOK
  <2> QED BY <1>1, <2>1, <2>2 DEF ILoops, ITable, table
<1> QED BY <1>3, <1>5, <1>6, <1>7, <1>8, <1>9, <1>10 DEF ILoops
-----------------------------------------------------------------------------
(* The loop of driver_init.                                                *)

LEMMA EnterFacts ==
  ASSUME ILoops, EnterInput
  PROVE  /\ i \in Index /\ i' \in Index /\ phase' \in {"table", "done"}
         /\ IF IsAux(i) THEN EnterAux ELSE EnterDriver
         /\ UNCHANGED <<inputpin, irq_mode, user_port, inputs, n_pins, irq, Index, DRIVER_IRQMASK>>
         /\ \A k \in Index : /\ Assigned(k) /\ Assigned(k)'
                             /\ Entered(k) <=> k < i
                             /\ Entered(k)' <=> k < i \/ k = i
                             /\ IsAux(k)' = IsAux(k)
                             /\ inputpin[k].group \in Driver \cup {"aux"}
                             /\ inputpin[k].pin \in 0 .. 15
<1>1. /\ Len(inputpin) \in Nat \ {0} /\ Index = 1 .. Len(inputpin)
      /\ i \in Index /\ i \in Nat /\ phase = "table"
      /\ \A k \in Index : inputpin[k].group \in Driver \cup {"aux"} /\ inputpin[k].pin \in 0 .. 15
  BY Ranges DEF EnterInput
<1>2. UNCHANGED <<inputpin, irq_mode, user_port, inputs, n_pins, irq, Index, DRIVER_IRQMASK>>
  BY DEF EnterInput, Index, DRIVER_IRQMASK
<1>3. IF IsAux(i) THEN EnterAux ELSE EnterDriver
  BY DEF EnterInput, EnterAux, EnterDriver, IsAux, Driver
<1>4. /\ i' \in Index
      /\ \/ i < Len(inputpin) /\ i' = i + 1 /\ phase' = "table"
         \/ i = Len(inputpin) /\ i' = 1 /\ phase' = "done"
  BY <1>1, Proceeds DEF EnterInput, ILoops
<1>5. \A k \in Index : /\ Assigned(k) /\ Assigned(k)'
                       /\ Entered(k) <=> k < i
                       /\ Entered(k)' <=> k < i \/ k = i
                       /\ IsAux(k)' = IsAux(k)
  BY <1>1, <1>2, <1>4 DEF Assigned, Entered, IsAux
<1> QED BY <1>1, <1>2, <1>3, <1>4, <1>5

LEMMA EnterLoops ==
  ASSUME ILoops, EnterInput
  PROVE  ILoops'
<1>1. UNCHANGED <<inputpin, irq_mode, user_port, inputs, n_pins, irq, Index, DRIVER_IRQMASK>>
  BY EnterFacts
<1>2. phase' \in {"table", "done"} /\ phase = "table"
  BY EnterFacts DEF EnterInput
<1>3. IBoard'
  BY <1>1 DEF ILoops, IBoard
<1>4. IPlaces'
  BY <1>1, <1>2, EnterFacts DEF ILoops, IPlaces
<1>5. TypeOK'
  <2>1. id' \in [Index -> Function \cup {Aux(n) : n \in 0 .. Len(inputpin)}]
    <3>1. Aux(user_port[i]) \in {Aux(n) : n \in 0 .. Len(inputpin)}
      BY EnterFacts DEF ILoops, TypeOK
    <3>2. id' = id \/ id' = [id EXCEPT ![i] = Aux(user_port[i])]
      BY EnterFacts DEF EnterAux, EnterDriver
    <3>3. id \in [Index -> Function \cup {Aux(n) : n \in 0 .. Len(inputpin)}] /\ i \in Index
      BY EnterFacts DEF ILoops, TypeOK
    <3> DEFINE new == Aux(user_port[i])
               Ids == Function \cup {Aux(n) : n \in 0 .. Len(inputpin)}
    <3>4. new \in Ids
      BY <3>1
    <3> HIDE DEF new, Ids
    <3>5. id \in [Index -> Ids] /\ (id' = id \/ id' = [id EXCEPT ![i] = new])
      BY <3>2, <3>3 DEF new, Ids
    <3>6. id' \in [Index -> Ids]
      BY <3>3, <3>4, <3>5
    <3> QED BY <3>6 DEF Ids
  <2>2. aux_irq' \subseteq irq
    <3>1. irq_mode[i] # "none" => inputpin[i].pin \in irq
      BY EnterFacts DEF ILoops, IFree, TypeOK
    <3> QED BY <3>1, EnterFacts DEF EnterAux, EnterDriver, ILoops, TypeOK
  <2>3. pin_irq' \in [0 .. 15 -> {NULL} \cup Index]
    BY EnterFacts DEF EnterAux, EnterDriver, ILoops, TypeOK
  <2>4. \A r \in remapped' : r.entry \in Index /\ r.fn \in Function
    BY EnterFacts DEF EnterAux, EnterDriver, ILoops, TypeOK
  <2> QED BY <1>1, <1>2, <2>1, <2>2, <2>3, <2>4, EnterFacts DEF ILoops, TypeOK, Aux
<1>6. INames'
  <2>1. \A k \in Index : Pending(k)' => Pending(k) /\ k # i
    BY EnterFacts DEF Pending
  <2>2. \A k \in Index : k # i => id'[k] = id[k]
    BY EnterFacts DEF EnterAux, EnterDriver, ILoops, TypeOK
  <2> QED BY <1>1, <2>1, <2>2 DEF ILoops, INames, Aux
<1>7. IFree' /\ ISingle'
  BY <1>1, <1>2, EnterFacts DEF ILoops, IFree, ISingle, EnterInput
<1>8. ITable'
  <2>1. \A line \in 0 .. 15 : pin_irq'[line] # NULL => inputpin[pin_irq'[line]].pin = line
    <3>1. pin_irq' = pin_irq \/ pin_irq' = [pin_irq EXCEPT ![inputpin[i].pin] = i]
      BY EnterFacts DEF EnterAux, EnterDriver
    <3>2. ASSUME NEW line \in 0 .. 15
          PROVE  pin_irq'[line] = pin_irq[line] \/ (pin_irq'[line] = i /\ inputpin[i].pin = line)
      BY <3>1, EnterFacts DEF ILoops, TypeOK
    <3> QED BY <3>2 DEF ILoops, ITable
  <2>2. ASSUME NEW k \in Index, k < i \/ k = i, inputpin[k].group \in Driver
        PROVE  /\ pin_irq'[inputpin[k].pin] # NULL
               /\ inputpin[pin_irq'[inputpin[k].pin]].group \in Driver
    <3>1. CASE IsAux(i)
      <4>1. k < i
        BY <2>2, <3>1 DEF IsAux, Driver
      <4>2. irq_mode[i] # "none" => inputpin[i].pin # inputpin[k].pin
        BY <2>2, EnterFacts DEF ILoops, IFree, TypeOK, DRIVER_IRQMASK
      <4> QED BY <3>1, <4>1, <4>2, <2>2, EnterFacts DEF EnterAux, ILoops, TypeOK, ITable
    <3>2. CASE ~IsAux(i)
      <4>1. pin_irq' = [pin_irq EXCEPT ![inputpin[i].pin] = i] /\ inputpin[i].group \in Driver
        BY <3>2, EnterFacts DEF EnterDriver
      <4>2. i # NULL
        BY Ranges DEF NULL
      <4>3. CASE inputpin[k].pin = inputpin[i].pin
        BY <4>1, <4>2, <4>3, EnterFacts DEF ILoops, TypeOK
      <4>4. CASE inputpin[k].pin # inputpin[i].pin
        BY <4>1, <4>4, <2>2, EnterFacts DEF ILoops, TypeOK, ITable
      <4> QED BY <4>3, <4>4
    <3> QED BY <3>1, <3>2
  <2>3. ASSUME NEW k \in Index, k < i \/ k = i, irq_mode[k] = "edges"
        PROVE  pin_irq'[inputpin[k].pin] = k /\ inputpin[k].pin \in aux_irq'
    <3>1. IsAux(k) /\ inputpin[k].pin \in irq
      BY <2>3 DEF ILoops, IFree
    <3>2. CASE k = i
      BY <2>3, <3>1, <3>2, EnterFacts DEF EnterAux, ILoops, TypeOK
    <3>3. CASE k < i
      <4>1. pin_irq[inputpin[k].pin] = k /\ inputpin[k].pin \in aux_irq
        BY <2>3, <3>3, EnterFacts DEF ILoops, ITable
      <4>2. CASE IsAux(i)
        <5>1. irq_mode[i] # "none" => inputpin[i].pin # inputpin[k].pin
          BY <1>2, <2>3, <3>3, EnterFacts DEF ILoops, ISingle, TypeOK
        <5> QED BY <4>1, <4>2, <5>1, EnterFacts DEF EnterAux, ILoops, TypeOK
      <4>3. CASE ~IsAux(i)
        <5>1. inputpin[i].pin # inputpin[k].pin
          BY <3>1, <4>3, EnterFacts DEF EnterDriver, ILoops, IFree, DRIVER_IRQMASK
        <5> QED BY <4>1, <4>3, <5>1, EnterFacts DEF EnterDriver, ILoops, TypeOK
      <4> QED BY <4>2, <4>3
    <3> QED BY <2>3, <3>2, <3>3
  <2>4. ASSUME NEW r \in remapped', r.fn \notin Probe \cup MotorFault
        PROVE  (r.entry < i \/ r.entry = i) /\ irq_mode[r.entry] = "edges" /\ r.entry \in Index
    <3>1. CASE r \in remapped
      BY <2>4, <3>1, EnterFacts DEF ILoops, TypeOK, ITable
    <3>2. CASE r \notin remapped
      <4>1. IsAux(i) /\ r = [entry |-> i, fn |-> id[i]] /\ id[i] \in Function
        BY <3>2, EnterFacts DEF EnterAux, EnterDriver
      <4>2. Pending(i)
        BY <4>1, EnterFacts, Ranges DEF Pending
      <4> QED BY <2>4, <4>1, <4>2, EnterFacts DEF ILoops, INames
    <3> QED BY <3>1, <3>2
  <2> QED BY <1>1, <2>1, <2>2, <2>3, <2>4, EnterFacts DEF ITable
<1> QED BY <1>3, <1>4, <1>5, <1>6, <1>7, <1>8 DEF ILoops

LEMMA StepLoops ==
  ASSUME ILoops, [Next]_vars
  PROVE  ILoops'
<1>1. CASE AssignIrq
  <2>1. CASE AssignAux
    BY <1>1, <2>1, AssignAuxLoops DEF AssignIrq
  <2>2. CASE ~IsAux(i) /\ Proceed("assign", "table") /\ UNCHANGED <<assigned, j>>
    BY <1>1, <2>2, PassLoops DEF AssignIrq
  <2> QED BY <1>1, <2>1, <2>2 DEF AssignIrq, IsAux
<1>2. CASE Contest
  BY <1>2, ContestLoops
<1>3. CASE EnterInput
  BY <1>3, EnterLoops
<1>4. CASE UNCHANGED vars
  <2> USE <1>4 DEF vars, assigned, table
  <2>1. IBoard' /\ TypeOK'
    BY DEF ILoops, IBoard, TypeOK, Index, Aux
  <2>2. IPlaces' /\ INames' /\ IFree' /\ ISingle' /\ ITable'
    BY DEF ILoops, IPlaces, INames, IFree, ISingle, ITable, Pending, Assigned, Entered,
           IsAux, Aux, Index, DRIVER_IRQMASK
  <2> QED BY <2>1, <2>2 DEF ILoops
<1> QED BY <1>1, <1>2, <1>3, <1>4 DEF Next

\* Every index of the loops, the ones inside the contest too, stays in the array, and
\* the lines that interrupt are among those given away, on every board.
THEOREM LineTypes == Spec => []TypeOK
<1>1. ILoops => TypeOK
  BY DEF ILoops
<1> QED BY <1>1, InitLoops, StepLoops, PTL DEF Spec

\* No control input is announced to the core that does not own its line: whoever loses
\* a contest loses its function with it, on every board and for every numbering.
THEOREM ControlsAreServed == Spec => []ControlsInterrupt
<1>1. ILoops => ControlsInterrupt
  <2> SUFFICES ASSUME ILoops, phase = "done",
                      NEW r \in remapped, r.fn \notin Probe \cup MotorFault
               PROVE  pin_irq[inputpin[r.entry].pin] = r.entry
    BY DEF ControlsInterrupt
  <2> QED BY DEF ILoops, TypeOK, ITable, Entered
<1> QED BY <1>1, InitLoops, StepLoops, PTL DEF Spec
-----------------------------------------------------------------------------
(* The owner.                                                              *)

LEMMA Numbers ==
  ASSUME ILoops, phase \in {"assign", "contest"}
  PROVE  /\ Input_Aux0 \in Nat /\ inputs \in Nat /\ i \in Nat /\ i \in Index
         /\ \A f \in Function : f \in Nat /\ f < Input_Aux0 /\ f # None
         /\ \A k \in Index : k \in Nat /\ id[k] \in Nat
         /\ \A k \in Index : Assigned(k) /\ IsAux(k) =>
              /\ k >= inputs /\ Aux(user_port[k]) = Input_Aux0 + (k - inputs)
              /\ \/ id[k] = inputpin[k].fn /\ id[k] \in Function
                 \/ id[k] = Input_Aux0 + (k - inputs)
              /\ irq_mode[k] = "edges" /\ inputpin[k].fn # None => id[k] = inputpin[k].fn
<1>1. /\ Input_Aux0 \in Nat /\ inputs \in Nat /\ i \in Nat /\ i \in Index
      /\ Index = 1 .. Len(inputpin) /\ Len(inputpin) \in Nat
      /\ \A f \in Function : f \in Nat /\ f < Input_Aux0 /\ f # None
  BY Ranges, ConstantsAssumption
<1>2. ASSUME NEW k \in Index PROVE k \in Nat /\ id[k] \in Nat
  <2>1. id[k] \in Function \/ \E n \in 0 .. Len(inputpin) : id[k] = Aux(n)
    BY DEF ILoops, TypeOK
  <2>2. \A n \in 0 .. Len(inputpin) : Aux(n) \in Nat
    BY <1>1 DEF Aux
  <2> QED BY <1>1, <2>1, <2>2
<1>3. ASSUME NEW k \in Index, Assigned(k), IsAux(k)
      PROVE  /\ k >= inputs /\ Aux(user_port[k]) = Input_Aux0 + (k - inputs)
             /\ \/ id[k] = inputpin[k].fn /\ id[k] \in Function
                \/ id[k] = Input_Aux0 + (k - inputs)
             /\ irq_mode[k] = "edges" /\ inputpin[k].fn # None => id[k] = inputpin[k].fn
  <2>1. k \in inputs .. inputs + n_pins - 1 /\ user_port[k] = k - inputs
    BY <1>3 DEF ILoops, IPlaces
  <2>2. Pending(k)
    BY <1>3 DEF Pending, Entered
  <2> QED BY <1>1, <2>1, <2>2, Ranges DEF ILoops, INames, Aux
<1> QED BY <1>1, <1>2, <1>3

\* What is on a line that has been given away is an auxiliary input.
LEMMA OnTaken ==
  ASSUME ILoops, NEW k \in Index, inputpin[k].pin \in irq
  PROVE  IsAux(k) /\ inputpin[k].pin \notin DRIVER_IRQMASK
<1>1. inputpin[k].group \in Driver \cup {"aux"}
  BY Ranges
<1> QED BY <1>1 DEF ILoops, IFree, IsAux, DRIVER_IRQMASK

\* Two inputs with one number are one.
LEMMA Different ==
  ASSUME ILoops, phase \in {"assign", "contest"}, NEW k \in Index, NEW l \in Index,
         IsAux(k), Assigned(k), id[k] = inputpin[l].fn, inputpin[l].fn \in Function
  PROVE  k = l
<1>1. id[k] = inputpin[k].fn /\ id[k] # None
  BY Numbers, SMT
<1>2. WellFormed(inputpin)
  BY DEF ILoops, IBoard
<1> QED BY <1>1, <1>2 DEF WellFormed, Index

LEMMA InitOwned == Init => IOwned
BY DEF Init, IOwned

\* A step that leaves the contest out of it keeps the owner h of a line.
LEMMA KeepsOwner ==
  ASSUME ILoops, phase = "assign", NEW h \in Index, Owns(h),
         UNCHANGED inputpin, i \in Index, i' = i \/ i' = i + 1,
         \A k \in Index \ {i} : id'[k] = id[k] /\ irq_mode'[k] = irq_mode[k],
         \A k \in Index : k = i /\ i' # i /\ inputpin[i].pin = inputpin[h].pin => Ahead(h, k)'
  PROVE  Owns(h)' /\ irq_mode'[h] = "edges"
<1>1. h < i /\ irq_mode[h] = "edges" /\ h # i /\ i \in Nat /\ \A k \in Index : k \in Nat
  BY Numbers DEF Owns
<1>2. irq_mode'[h] = "edges" /\ h < i' /\ Index' = Index
  BY <1>1 DEF Index
<1>3. ASSUME NEW k \in Index \ {h}, k < i', inputpin[k].pin = inputpin[h].pin
      PROVE  Ahead(h, k)'
  <2>1. CASE k = i
    <3>1. i' # i
      BY <1>1, <1>3, <2>1
    <3> QED BY <1>1, <1>3, <2>1, <3>1 DEF Ahead
  <2>2. CASE k # i
    <3>1. k \in Nat /\ k \in Index /\ (i' = i \/ i' = i + 1)
      BY <1>1
    <3>2. k < i
      BY <1>1, <1>3, <2>2, <3>1
    <3>3. Ahead(h, k)
      BY <1>3, <3>2 DEF Owns
    <3> QED BY <1>1, <2>2, <3>1, <3>3 DEF Ahead
  <2> QED BY <2>1, <2>2
<1> QED BY <1>2, <1>3 DEF Owns

LEMMA PassOwned ==
  ASSUME ILoops, IOwned, phase = "assign", ~IsAux(i), Proceed("assign", "table"),
         UNCHANGED <<inputpin, assigned, table, j>>
  PROVE  IOwned'
<1>1. i \in Index /\ phase' \in {"assign", "table"} /\ Index' = Index /\ irq' = irq
  BY Numbers DEF Proceed, Index, assigned
<1>2. ASSUME NEW line \in irq
      PROVE  \E h \in Index : /\ inputpin[h].pin = line /\ irq_mode'[h] = "edges"
                              /\ phase' \in {"assign", "contest"} => Owns(h)'
  <2>1. PICK h \in Index : inputpin[h].pin = line /\ irq_mode[h] = "edges" /\ Owns(h)
    BY <1>2 DEF IOwned
  <2>2. \A k \in Index : id'[k] = id[k] /\ irq_mode'[k] = irq_mode[k]
    BY DEF assigned
  <2>3. inputpin[i].pin # inputpin[h].pin
    BY <1>1, <1>2, <2>1, OnTaken
  <2>4. ASSUME phase' = "assign" PROVE Owns(h)'
    <3>1. i' = i + 1
      BY <2>4 DEF Proceed
    <3> QED BY <1>1, <2>1, <2>2, <2>3, <3>1, KeepsOwner
  <2> QED BY <1>1, <2>1, <2>2, <2>4
<1> QED BY <1>1, <1>2 DEF IOwned

\* Who already has entry i's line.
LEMMA Beaten ==
  ASSUME ILoops, IOwned, NumberedApart, phase = "assign", IsAux(i),
         Contested, NEW h \in Index, inputpin[h].pin = inputpin[i].pin, Owns(h),
         NEW k \in Index, Rival(k), ~(inputpin[i].fn < id[k]), inputpin[i].fn \notin Main
  PROVE  \/ id[h] < inputpin[i].fn
         \/ inputpin[i].fn \notin Probe /\ k < h
<1>1. /\ h < i /\ k < i /\ i \in Index /\ i \in Nat /\ k \in Nat /\ h \in Nat
      /\ IsAux(h) /\ IsAux(k) /\ Assigned(h) /\ Assigned(k)
      /\ irq_mode[h] = "edges"
  BY Numbers, OnTaken DEF Contested, Owns, Rival, Assigned
<1>2. inputpin[i].fn \in Function \ (Main \cup MotorFault)
  BY <1>1, Ranges DEF Contested
<1>3. /\ id[h] \in Nat /\ id[k] \in Nat /\ inputpin[i].fn \in Nat
      /\ id[h] # inputpin[i].fn /\ id[k] # inputpin[i].fn
  BY <1>1, <1>2, Numbers, Different
<1> SUFFICES ASSUME ~(id[h] < inputpin[i].fn)
             PROVE  inputpin[i].fn \notin Probe /\ k < h
  OBVIOUS
<1>4. id[k] < inputpin[i].fn /\ inputpin[i].fn < id[h] /\ k # h
  BY <1>3
<1>5. Ahead(h, k)
  BY <1>1, <1>4 DEF Owns, Rival
<1>6. id[k] \notin MotorFault
  BY <1>2, <1>3, <1>4 DEF NumberedApart
<1>7. k < h /\ inputpin[h].fn \in Main /\ id[k] \in Probe
  BY <1>3, <1>4, <1>5, <1>6 DEF Ahead
<1>8. id[h] = inputpin[h].fn
  BY <1>1, <1>7, Numbers, ConstantsAssumption
<1> QED BY <1>4, <1>7, <1>8 DEF NumberedApart

LEMMA AssignAuxOwned ==
  ASSUME ILoops, IOwned, NumberedApart, phase = "assign", AssignAux,
         UNCHANGED <<inputpin, table>>
  PROVE  IOwned'
<1>1. /\ Assignment /\ IsAux(i) /\ i \in Index /\ i \in Nat
      /\ phase' \in {"assign", "contest", "table"} /\ Index' = Index
      /\ \A k \in Index : k \in Nat
  BY AssignFacts, Numbers DEF Index
<1>2. \A k \in Index \ {i} : id'[k] = id[k] /\ irq_mode'[k] = irq_mode[k]
  BY <1>1 DEF Assignment, ILoops, TypeOK
<1>3. /\ irq' = IF Free THEN irq \cup {inputpin[i].pin} ELSE irq
      /\ irq_mode'[i] = IF Free /\ (inputpin[i].pin \notin irq \/ Contested) THEN "edges" ELSE "none"
      /\ id'[i] = IdOf(inputpin[i].fn, Free)
  BY <1>1 DEF Assignment, ILoops, TypeOK
<1>4. /\ phase' = "contest" => Contested /\ i' = i /\ j' = 0
      /\ phase' = "assign" => ~Contested /\ i' = i + 1
  BY <1>1 DEF Assignment, Proceed
<1>5. ASSUME NEW h \in Index, inputpin[h].pin \in irq, irq_mode[h] = "edges", Owns(h),
             phase' \in {"assign", "contest"}
      PROVE  Owns(h)' /\ irq_mode'[h] = "edges"
  <2>1. ASSUME i' # i, inputpin[i].pin = inputpin[h].pin
        PROVE  id'[h] < id'[i] \/ id'[i] \in MotorFault
    <3>1. Free /\ ~Contested /\ IsAux(h) /\ h < i /\ h # i /\ Assigned(h)
      <4>1. IsAux(h) /\ inputpin[h].pin \notin DRIVER_IRQMASK
        BY <1>5, OnTaken
      <4>2. h < i /\ h \in Nat
        BY <1>1, <1>5 DEF Owns
      <4>3. phase' = "assign"
        BY <1>4, <1>5, <2>1
      <4> QED BY <1>1, <1>4, <2>1, <4>1, <4>2, <4>3 DEF Free, Assigned
    <3>2. inputpin[i].fn = None \/ inputpin[i].fn \in MotorFault
      BY <1>5, <2>1, <3>1 DEF Contested
    <3>3. CASE inputpin[i].fn \in MotorFault
      BY <1>3, <3>1, <3>3, ConstantsAssumption DEF IdOf
    <3>4. CASE inputpin[i].fn = None
      <4>1. id'[i] = Input_Aux0 + n_pins
        BY <1>3, <3>4 DEF IdOf, Aux
      <4>2. inputs # NULL
        BY <1>5 DEF ILoops, IPlaces
      <4>3. n_pins = i - inputs
        BY <1>1, <4>2, AssignFacts DEF Assignment
      <4>4. /\ id[h] \in Function \/ id[h] = Input_Aux0 + (h - inputs)
            /\ \A f \in Function : f \in Nat /\ f < Input_Aux0
            /\ Input_Aux0 \in Nat /\ inputs \in Nat /\ n_pins \in Nat /\ h \in Nat
        BY <3>1, Numbers, Ranges
      <4>5. id[h] < Input_Aux0 + n_pins
        BY <1>1, <3>1, <4>3, <4>4
      <4> QED BY <1>2, <3>1, <4>1, <4>5
    <3> QED BY <3>2, <3>3, <3>4
  <2>2. \A k \in Index : k = i /\ i' # i /\ inputpin[i].pin = inputpin[h].pin => Ahead(h, k)'
    BY <1>5, <2>1 DEF Ahead, Owns
  <2> QED BY <1>1, <1>2, <1>4, <1>5, <2>2, KeepsOwner
<1>6. ASSUME NEW line \in irq', line = inputpin[i].pin => phase' # "contest"
      PROVE  \E h \in Index : /\ inputpin[h].pin = line /\ irq_mode'[h] = "edges"
                              /\ phase' \in {"assign", "contest"} => Owns(h)'
  <2>1. CASE line \in irq
    <3>1. PICK h \in Index : inputpin[h].pin = line /\ irq_mode[h] = "edges" /\ Owns(h)
      BY <2>1 DEF IOwned
    <3>2. irq_mode'[h] = "edges"
      BY <1>1, <1>2, <3>1 DEF Owns
    <3> QED BY <1>5, <2>1, <3>1, <3>2
  <2>2. CASE line \notin irq
    <3>1. line = inputpin[i].pin /\ Free /\ irq_mode'[i] = "edges"
      BY <1>3, <1>6, <2>2
    <3>2. ASSUME NEW k \in Index, k < i PROVE inputpin[k].pin # line
      <4>1. IsAux(k) => inputpin[k].pin \in irq \cup DRIVER_IRQMASK
        BY <3>2 DEF ILoops, IFree, Assigned
      <4>2. ~IsAux(k) => inputpin[k].pin \in DRIVER_IRQMASK
        BY <3>2, Ranges DEF IsAux, DRIVER_IRQMASK
      <4> QED BY <2>2, <3>1, <4>1, <4>2 DEF Free
    <3>3. ASSUME phase' \in {"assign", "contest"} PROVE i < i' /\ \A k \in Index \ {i} : k < i' => k < i
      BY <1>1, <1>4, <1>6, <3>1, <3>3
    <3>4. ASSUME phase' \in {"assign", "contest"} PROVE \A h \in Index : h = i => Owns(h)'
      BY <1>1, <3>1, <3>2, <3>3, <3>4 DEF Owns
    <3> QED BY <1>1, <3>1, <3>4
  <2> QED BY <2>1, <2>2
<1>7. ASSUME phase' = "contest"
      PROVE  WinsAll' \/ \E h \in Index : LosesTo(h)'
  <2>1. /\ Contested /\ i' = i /\ j' = 0 /\ inputs' = inputs /\ inputs \in Nat
        /\ inputpin[i].pin \in irq /\ inputpin[i].fn \in Function \ MotorFault
    BY <1>1, <1>4, <1>7, Ranges DEF Assignment, Contested, ILoops, IPlaces
  <2>2. id'[i] = inputpin[i].fn /\ irq_mode'[i] = "edges"
    BY <1>3, <2>1 DEF Contested, IdOf
  <2>3. ASSUME NEW k \in Index, Rival(k)
        PROVE  /\ ~Met(k)' /\ k # i /\ id'[k] = id[k]
               /\ Wins(k)' <=> inputpin[i].fn < id[k] \/ inputpin[i].fn \in Main
    <3>1. k < i /\ IsAux(k) /\ k \in Nat /\ Assigned(k)
      BY <1>1, <2>1, <2>3, OnTaken DEF Rival, Assigned
    <3>2. k >= inputs /\ k # i
      BY <1>1, <3>1, Numbers
    <3>3. id'[k] = id[k]
      BY <1>2, <3>2
    <3>4. ~Met(k)'
      BY <2>1, <3>1, <3>2 DEF Met
    <3> QED BY <2>1, <2>2, <3>2, <3>3, <3>4 DEF Wins
  <2>4. \A k \in Index : Rival(k)' <=> Rival(k)
    BY <2>1 DEF Rival
  <2>5. CASE \A k \in Index : Rival(k) => Wins(k)'
    <3>1. \A k \in Index' : Rival(k)' => IF Met(k)' THEN Ahead(i, k)' ELSE Wins(k)'
      BY <1>1, <2>3, <2>4, <2>5
    <3> QED BY <1>1, <2>1, <2>2, <3>1 DEF WinsAll
  <2>6. ASSUME NEW k \in Index, Rival(k), ~Wins(k)' PROVE \E h \in Index : LosesTo(h)'
    <3>1. PICK h \in Index : inputpin[h].pin = inputpin[i].pin /\ irq_mode[h] = "edges" /\ Owns(h)
      BY <2>1 DEF IOwned
    <3>2. ~(inputpin[i].fn < id[k]) /\ inputpin[i].fn \notin Main /\ ~Met(k)'
      BY <2>3, <2>6
    <3>3. id[h] < inputpin[i].fn \/ (inputpin[i].fn \notin Probe /\ k < h)
      BY <1>1, <2>1, <2>6, <3>1, <3>2, Beaten
    <3>4. Rival(h) /\ h # i /\ id'[h] = id[h]
      <4>1. h < i /\ h # i
        BY <1>1, <3>1 DEF Owns
      <4>2. id'[h] = id[h]
        BY <1>2, <4>1
      <4> QED BY <3>1, <4>1, <4>2 DEF Rival
    <3>5. Owns(h)'
      BY <1>5, <1>7, <2>1, <3>1
    <3> QED BY <1>1, <2>1, <2>2, <2>4, <2>6, <3>2, <3>3, <3>4, <3>5 DEF LosesTo
  <2> QED BY <2>5, <2>6
<1> QED BY <1>1, <1>4, <1>6, <1>7 DEF IOwned

\* What the inputs of the contest have for a number, c being the contestant.
LEMMA Contestants ==
  ASSUME ILoops, Contest, NEW c \in Index, c = i
  PROVE  /\ inputpin[c].fn \in Function \ MotorFault
         /\ c \in Nat /\ Opponent \in Nat /\ Opponent \in Index /\ Opponent < c
         /\ Index' = Index
         /\ \A f \in Function : f \in Nat /\ f < Input_Aux0
         /\ \A k \in Index : /\ k \in Nat /\ id[k] \in Nat
                             /\ irq_mode'[k] = IF Loses(k) THEN "none" ELSE irq_mode[k]
         /\ \A k \in Index : Rival(k) \/ k = c =>
              /\ k >= inputs
              /\ \/ id[k] = inputpin[k].fn /\ id[k] \in Function
                 \/ id[k] = Input_Aux0 + (k - inputs)
              /\ id'[k] = IF Loses(k) /\ id[k] \notin Probe THEN Input_Aux0 + (k - inputs)
                         ELSE id[k]
<1>1. phase = "contest" /\ inputpin[i].fn \in Function \ MotorFault /\ inputpin[i].pin \in irq
  BY DEF Contest, ILoops, IPlaces
<1>2. /\ \A f \in Function : f \in Nat /\ f < Input_Aux0
      /\ \A k \in Index : k \in Nat /\ id[k] \in Nat
  BY <1>1, Numbers
<1>3. ASSUME NEW k \in Index, Rival(k) \/ k = c
      PROVE  IsAux(k) /\ Assigned(k)
  BY <1>1, <1>3, OnTaken DEF Rival, Assigned
<1>4. ASSUME NEW k \in Index, Rival(k) \/ k = c
      PROVE  /\ k >= inputs /\ Aux(user_port[k]) = Input_Aux0 + (k - inputs)
             /\ \/ id[k] = inputpin[k].fn /\ id[k] \in Function
                \/ id[k] = Input_Aux0 + (k - inputs)
  BY <1>1, <1>3, <1>4, Numbers
<1>5. \A k \in Index :
        /\ irq_mode'[k] = IF Loses(k) THEN "none" ELSE irq_mode[k]
        /\ id'[k] = IF Loses(k) /\ id[k] \notin Probe THEN Aux(user_port[k]) ELSE id[k]
  BY ContestFacts
<1>6. /\ c \in Nat /\ Opponent \in Nat /\ Opponent \in Index /\ Opponent < c /\ Index' = Index
  BY ContestFacts
<1> QED BY <1>1, <1>2, <1>4, <1>5, <1>6

\* A turn, when the contestant is to win.
LEMMA WinsTurn ==
  ASSUME ILoops, Contest, WinsAll, NEW c \in Index, c = i
  PROVE  /\ irq_mode'[c] = "edges" /\ id'[c] = inputpin[c].fn
         /\ \A k \in Index : Rival(k) =>
              IF k <= Opponent THEN Ahead(c, k)'
              ELSE id'[c] < id'[k] \/ inputpin[c].fn \in Main
<1>1. /\ inputpin[c].fn \in Function /\ c \in Nat /\ Opponent \in Nat /\ Opponent \in Index
      /\ Opponent < c /\ irq_mode[c] = "edges" /\ id[c] = inputpin[c].fn
      /\ inputpin' = inputpin
  BY Contestants DEF WinsAll, Contest
<1>2. ~Loses(c)
  <2>1. ASSUME inputpin[c].pin = inputpin[Opponent].pin PROVE Wins(Opponent)
    BY <1>1, <2>1 DEF WinsAll, Rival, Met, Opponent
  <2> QED BY <1>1, <2>1 DEF Loses, Loser
<1>3. irq_mode'[c] = "edges" /\ id'[c] = inputpin[c].fn
  BY <1>1, <1>2, Contestants
<1>4. ASSUME NEW k \in Index, Rival(k)
      PROVE  IF k <= Opponent THEN Ahead(c, k)' ELSE id'[c] < id'[k] \/ inputpin[c].fn \in Main
  <2>1. k \in Nat /\ k < c /\ k # c /\ inputpin[k].pin = inputpin[c].pin
    BY <1>1, <1>4, Contestants DEF Rival
  <2>2. CASE k = Opponent
    <3>1. Wins(k)
      BY <1>1, <1>4, <2>2 DEF WinsAll, Met, Opponent
    <3>2. id'[k] = IF id[k] \notin Probe THEN Input_Aux0 + (k - inputs) ELSE id[k]
      BY <1>4, <2>1, <2>2, <3>1, Contestants DEF Loses, Loser
    <3>3. id'[c] < id'[k] \/ (inputpin[c].fn \in Main /\ id'[k] \in Probe)
      <4>1. CASE id[k] \in Probe
        BY <1>1, <1>3, <3>1, <3>2, <4>1 DEF Wins
      <4>2. CASE id[k] \notin Probe
        <5>1. /\ id'[k] = Input_Aux0 + (k - inputs) /\ inputpin[c].fn < Input_Aux0 /\ k >= inputs
              /\ Input_Aux0 \in Nat /\ inputs \in Nat /\ inputpin[c].fn \in Nat
          BY <1>1, <1>4, <3>2, <4>2, Contestants, Ranges, ConstantsAssumption
        <5> QED BY <1>3, <2>1, <5>1
      <4> QED BY <4>1, <4>2
    <3> QED BY <1>1, <1>3, <2>1, <2>2, <3>3 DEF Ahead
  <2>3. CASE k # Opponent
    <3>1. ~Loses(k) /\ id'[k] = id[k]
      BY <1>4, <2>1, <2>3, Contestants DEF Loses, Loser
    <3>2. CASE k <= Opponent
      <4>1. Met(k)
        BY <1>1, <2>1, <2>3, <3>2 DEF Met, Opponent
      <4>2. Ahead(c, k)
        BY <1>4, <4>1 DEF WinsAll
      <4> QED BY <1>1, <1>3, <3>1, <3>2, <4>2 DEF Ahead
    <3>3. CASE ~(k <= Opponent)
      <4>1. ~Met(k)
        BY <1>1, <2>1, <3>3 DEF Met, Opponent
      <4>2. Wins(k)
        BY <1>4, <4>1 DEF WinsAll
      <4> QED BY <1>1, <1>3, <3>1, <3>3, <4>2 DEF Wins
    <3> QED BY <3>2, <3>3
  <2> QED BY <2>2, <2>3
<1> QED BY <1>3, <1>4

\* A turn, when the contestant is to lose to h.
LEMMA LosesTurn ==
  ASSUME ILoops, Contest, NEW c \in Index, c = i, NEW h \in Index, LosesTo(h)
  PROVE  /\ h < c /\ inputpin[h].pin = inputpin[c].pin /\ irq_mode'[h] = "edges"
         /\ inputpin[c].fn \notin Main
         /\ \A k \in Index \ {h} : k < c /\ inputpin[k].pin = inputpin[h].pin => Ahead(h, k)'
         /\ \/ id'[h] < id'[c]
            \/ /\ id'[c] = inputpin[c].fn /\ id'[c] \notin Probe
               /\ \E k \in Index : Rival(k) /\ k > Opponent /\ k < h /\ ~(id'[c] < id'[k])
<1>1. /\ Rival(h) /\ Owns(h) /\ inputpin[c].fn \notin Main
      /\ h < c /\ h # c /\ inputpin[h].pin = inputpin[c].pin /\ irq_mode[h] = "edges"
  BY Contestants DEF LosesTo, Owns, Rival
<1>2. /\ c \in Nat /\ h \in Nat /\ Opponent \in Nat /\ Opponent \in Index /\ Opponent < c
      /\ \A f \in Function : f \in Nat /\ f < Input_Aux0
      /\ \A k \in Index : k \in Nat /\ id[k] \in Nat
      /\ Input_Aux0 \in Nat /\ inputs \in Nat
      /\ \A k \in Index : irq_mode'[k] = IF Loses(k) THEN "none" ELSE irq_mode[k]
      /\ inputpin' = inputpin
  BY Contestants, Ranges, ConstantsAssumption DEF Contest
<1>3. /\ \A k \in Index : Rival(k) \/ k = c =>
           /\ k >= inputs
           /\ \/ id[k] = inputpin[k].fn /\ id[k] \in Function
              \/ id[k] = Input_Aux0 + (k - inputs)
           /\ id'[k] = IF Loses(k) /\ id[k] \notin Probe THEN Input_Aux0 + (k - inputs)
                      ELSE id[k]
  BY Contestants
<1>4. \A k \in Index : Wins(k) <=> id[c] < id[k]
  BY <1>1 DEF Wins
\* The owner's number is below any number the contestant is left with.
<1>5. id[h] < Input_Aux0 + (c - inputs)
  BY <1>1, <1>2, <1>3
\* The owner does not lose the turn.
<1>6. ~Loses(h)
  <2>1. ASSUME h = Opponent PROVE ~Wins(h)
    BY <1>1, <1>2, <1>4, <2>1 DEF LosesTo, Met, Opponent
  <2> QED BY <1>1, <2>1 DEF Loses, Loser
<1>7. id'[h] = id[h] /\ irq_mode'[h] = "edges"
  BY <1>1, <1>2, <1>3, <1>6
\* It stays ahead of those behind the contestant.
<1>8. ASSUME NEW k \in Index \ {h}, k < c, inputpin[k].pin = inputpin[h].pin
      PROVE  Ahead(h, k)'
  <2>1. Ahead(h, k) /\ Rival(k) /\ k # c /\ k \in Nat
    BY <1>1, <1>2, <1>8 DEF Owns, Rival
  <2>2. CASE id'[k] = id[k]
    BY <1>2, <1>7, <2>1, <2>2 DEF Ahead
  <2>3. CASE id'[k] # id[k]
    <3>1. k = Opponent /\ id[c] < id[k] /\ id'[k] = Input_Aux0 + (k - inputs)
      BY <1>3, <1>4, <2>1, <2>3 DEF Loses, Loser
    <3>2. id[h] \in Function
      <4>1. CASE id[h] < id[c]
        <5>1. \/ id[c] \in Function
              \/ id[c] = Input_Aux0 + (c - inputs)
          BY <1>3
        <5>2. \/ id[k] \in Function
              \/ id[k] = Input_Aux0 + (k - inputs)
          BY <1>3, <2>1
        <5>3. id[c] \in Function
          <6>1. k < c /\ id[c] < id[k] /\ c >= inputs /\ k >= inputs
            BY <1>3, <1>8, <2>1, <3>1
          <6>2. ASSUME id[c] = Input_Aux0 + (c - inputs) PROVE FALSE
            <7>1. id[k] = Input_Aux0 + (k - inputs) => FALSE
              BY <1>2, <2>1, <6>1, <6>2
            <7>2. id[k] \in Function => FALSE
              <8>1. Input_Aux0 <= id[c]
                BY <1>2, <6>1, <6>2
              <8> QED BY <1>2, <6>1, <8>1
            <7> QED BY <5>2, <7>1, <7>2
          <6> QED BY <5>1, <6>2
        <5>4. id[h] < Input_Aux0
          BY <1>2, <4>1, <5>3
        <5> QED BY <1>1, <1>2, <1>3, <5>4
      <4>2. CASE ~(id[h] < id[c])
        <5>1. PICK l \in Index : Rival(l) /\ ~Met(l) /\ l < h /\ ~Wins(l)
          BY <1>1, <1>2, <4>2 DEF LosesTo
        <5>2. l >= Opponent /\ l # Opponent /\ l \in Nat
          BY <1>2, <1>4, <3>1, <5>1 DEF Met, Opponent
        <5>3. ~(h < k)
          BY <1>2, <2>1, <3>1, <5>1, <5>2
        <5> QED BY <2>1, <5>3 DEF Ahead
      <4> QED BY <4>1, <4>2
    <3>3. id'[h] < id'[k]
      BY <1>2, <1>3, <1>7, <2>1, <3>1, <3>2
    <3> QED BY <1>7, <2>1, <3>2, <3>3 DEF Ahead
  <2> QED BY <2>2, <2>3
<1>9. \/ id'[h] < id'[c]
      \/ /\ id'[c] = inputpin[c].fn /\ id'[c] \notin Probe
         /\ \E k \in Index : Rival(k) /\ k > Opponent /\ k < h /\ ~(id'[c] < id'[k])
  <2>1. CASE id[h] < id[c]
    BY <1>3, <1>5, <1>7, <2>1
  <2>2. CASE ~(id[h] < id[c])
    <3>1. id[c] = inputpin[c].fn /\ id[c] \notin Probe
      BY <2>2 DEF LosesTo
    <3>2. PICK l \in Index : Rival(l) /\ ~Met(l) /\ l < h /\ ~Wins(l)
      BY <2>2 DEF LosesTo
    <3>3. CASE Loses(c)
      BY <1>3, <1>5, <1>7, <3>1, <3>3
    <3>4. CASE ~Loses(c)
      <4>1. l >= Opponent /\ l \in Nat /\ l # c
        BY <1>1, <1>2, <3>2 DEF Met, Opponent
      <4>2. l # Opponent
        BY <3>2, <3>4 DEF Loses, Loser, Rival
      <4>3. ~Loses(l)
        BY <4>1, <4>2 DEF Loses, Loser
      <4>4. id'[l] = id[l] /\ id'[c] = id[c]
        BY <1>3, <3>2, <3>4, <4>3
      <4>5. l > Opponent
        BY <1>2, <4>1, <4>2
      <4> QED BY <1>4, <3>1, <3>2, <4>4, <4>5
    <3> QED BY <3>3, <3>4
  <2> QED BY <2>1, <2>2
<1> QED BY <1>1, <1>7, <1>8, <1>9

\* After the last turn the contestant has met them all.
LEMMA ContestOwned ==
  ASSUME ILoops, IOwned, Contest
  PROVE  IOwned'
<1>1. /\ phase = "contest" /\ irq' = irq /\ Index' = Index /\ inputpin' = inputpin
      /\ inputs' = inputs /\ j' = j + 1
      /\ i \in Index /\ i \in Nat /\ Opponent \in Nat /\ inputs \in Nat /\ j \in Nat
      /\ phase' \in {"assign", "contest", "table"}
      /\ phase' = "contest" => i' = i
      /\ phase' # "contest" => Opponent = i - 1
      /\ phase' = "assign" => i' = i + 1
      /\ \A k \in Index : k \in Nat
  <2>1. phase = "contest" /\ (phase' = "assign" => i' = i + 1)
    BY DEF Contest, Proceed
  <2>2. j \in Nat
    BY <2>1 DEF ILoops, IPlaces
  <2> QED BY <2>1, <2>2, ContestFacts, Numbers
<1>2. ASSUME phase' = "contest"
      PROVE  WinsAll' \/ \E h \in Index : LosesTo(h)'
  <2>1. i' = i /\ \A k \in Index : k = i => k = i'
    BY <1>1, <1>2
  <2>2. \A k \in Index : /\ Rival(k)' <=> Rival(k)
                         /\ Met(k)' <=> k <= Opponent
    BY <1>1, <2>1 DEF Rival, Met, Opponent
  <2>3. CASE WinsAll
    <3>1. /\ irq_mode'[i] = "edges" /\ id'[i] = inputpin[i].fn
          /\ \A k \in Index : Rival(k) =>
               IF k <= Opponent THEN \A c \in Index : c = i => Ahead(c, k)'
               ELSE id'[i] < id'[k] \/ inputpin[i].fn \in Main
      BY <1>1, <2>3, WinsTurn
    <3>2. \A k \in Index : Rival(k)' => IF Met(k)' THEN Ahead(i, k)' ELSE Wins(k)'
      BY <1>1, <2>1, <2>2, <3>1 DEF Ahead, Wins
    <3> QED BY <1>1, <2>1, <3>1, <3>2 DEF WinsAll
  <2>4. ASSUME NEW h \in Index, LosesTo(h) PROVE LosesTo(h)'
    <3>1. /\ h < i /\ inputpin[h].pin = inputpin[i].pin /\ irq_mode'[h] = "edges"
          /\ inputpin[i].fn \notin Main
          /\ \A k \in Index \ {h} : k < i /\ inputpin[k].pin = inputpin[h].pin => Ahead(h, k)'
          /\ \/ id'[h] < id'[i]
             \/ /\ id'[i] = inputpin[i].fn /\ id'[i] \notin Probe
                /\ \E k \in Index : Rival(k) /\ k > Opponent /\ k < h /\ ~(id'[i] < id'[k])
      BY <1>1, <2>4, LosesTurn
    <3>2. Owns(h)' /\ Rival(h)'
      BY <1>1, <2>1, <3>1 DEF Owns, Rival
    <3>3. ASSUME NEW k \in Index, Rival(k), k > Opponent, ~(id'[i] < id'[k])
          PROVE  Rival(k)' /\ ~Met(k)' /\ ~Wins(k)'
      BY <1>1, <2>1, <2>2, <3>1, <3>3 DEF Wins
    <3> QED BY <1>1, <2>1, <3>1, <3>2, <3>3 DEF LosesTo
  <2> QED BY <1>1, <2>3, <2>4 DEF IOwned
<1>3. ASSUME NEW line \in irq, line = inputpin[i].pin => phase' # "contest"
      PROVE  \E h \in Index : /\ inputpin[h].pin = line /\ irq_mode'[h] = "edges"
                              /\ phase' \in {"assign", "contest"} => Owns(h)'
  <2>1. CASE line # inputpin[i].pin
    <3>1. PICK h \in Index : inputpin[h].pin = line /\ irq_mode[h] = "edges" /\ Owns(h)
      BY <1>1, <2>1 DEF IOwned
    <3>2. \A k \in Index : inputpin[k].pin = line => id'[k] = id[k] /\ irq_mode'[k] = irq_mode[k]
      BY <2>1, ContestFacts DEF Loses, Loser
    <3>3. ASSUME phase' \in {"assign", "contest"} PROVE Owns(h)'
      <4>1. h < i /\ h < i'
        BY <1>1, <3>1, <3>3 DEF Owns
      <4>2. \A k \in Index : k < i' /\ inputpin[k].pin = line => k < i
        BY <1>1, <2>1, <3>3
      <4> QED BY <1>1, <3>1, <3>2, <4>1, <4>2 DEF Owns, Ahead
    <3> QED BY <1>1, <3>1, <3>2, <3>3
  <2>2. CASE line = inputpin[i].pin
    <3>1. phase' # "contest" /\ Opponent = i - 1
      BY <1>1, <1>3, <2>2
    <3>2. \A k \in Index : k < i => k <= Opponent
      BY <1>1, <3>1
    <3>3. \A k \in Index : k < i' /\ phase' = "assign" => k < i \/ k = i
      BY <1>1
    <3>4. CASE WinsAll
      <4>1. /\ irq_mode'[i] = "edges"
            /\ \A k \in Index : Rival(k) => \A c \in Index : c = i => Ahead(c, k)'
        BY <1>1, <3>2, <3>4, WinsTurn DEF Rival
      <4>2. ASSUME phase' = "assign" PROVE \A c \in Index : c = i => Owns(c)'
        BY <1>1, <3>3, <4>1, <4>2 DEF Owns, Rival
      <4> QED BY <1>1, <2>2, <3>1, <4>1, <4>2
    <3>5. ASSUME NEW h \in Index, LosesTo(h)
          PROVE  /\ inputpin[h].pin = line /\ irq_mode'[h] = "edges"
                 /\ phase' = "assign" => Owns(h)'
      <4>1. /\ h < i /\ inputpin[h].pin = inputpin[i].pin /\ irq_mode'[h] = "edges"
            /\ \A k \in Index \ {h} : k < i /\ inputpin[k].pin = inputpin[h].pin => Ahead(h, k)'
            /\ \/ id'[h] < id'[i]
               \/ \E k \in Index : Rival(k) /\ k > Opponent
        BY <1>1, <3>5, LosesTurn
      <4>2. id'[h] < id'[i]
        BY <1>1, <3>2, <4>1 DEF Rival
      <4>3. \A k \in Index : k = i => Ahead(h, k)'
        BY <4>1, <4>2 DEF Ahead
      <4>4. ASSUME phase' = "assign" PROVE Owns(h)'
        <5>1. h < i'
          BY <1>1, <4>1, <4>4
        <5> QED BY <1>1, <3>3, <4>1, <4>3, <4>4, <5>1 DEF Owns
      <4> QED BY <2>2, <4>1, <4>4
    <3> QED BY <1>1, <3>1, <3>4, <3>5 DEF IOwned
  <2> QED BY <2>1, <2>2
<1> QED BY <1>1, <1>2, <1>3 DEF IOwned

LEMMA StepOwned ==
  ASSUME ILoops, IOwned, NumberedApart, [Next]_vars
  PROVE  IOwned'
<1>1. CASE AssignIrq
  <2>1. CASE AssignAux
    BY <1>1, <2>1, AssignAuxOwned DEF AssignIrq
  <2>2. CASE ~IsAux(i) /\ Proceed("assign", "table") /\ UNCHANGED <<assigned, j>>
    BY <1>1, <2>2, PassOwned DEF AssignIrq
  <2> QED BY <1>1, <2>1, <2>2 DEF AssignIrq, IsAux
<1>2. CASE Contest
  BY <1>2, ContestOwned
<1>3. CASE EnterInput
  <2>1. /\ phase = "table" /\ phase' \in {"table", "done"}
        /\ UNCHANGED <<inputpin, irq_mode, irq, Index>>
    BY <1>3, EnterFacts DEF EnterInput
  <2> QED BY <2>1 DEF IOwned
<1>4. CASE UNCHANGED vars
  BY <1>4 DEF vars, assigned, table, IOwned, WinsAll, LosesTo, Owns, Ahead, Rival, Met, Wins, Index
<1> QED BY <1>1, <1>2, <1>3, <1>4 DEF Next

\* Every line with an input has one owner in the end, on every board whose functions
\* are numbered apart: the driver's input, or the one auxiliary input that is told it
\* can interrupt, and the table names it.
THEOREM EveryLineOwned ==
  ASSUME NumberedApart
  PROVE  Spec => []OneOwner
<1>1. ILoops /\ IOwned => OneOwner
  <2> SUFFICES ASSUME ILoops, IOwned, phase = "done", NEW line \in 0 .. 15
               PROVE  LET driver == {k \in On(line) : inputpin[k].group \in Driver}
                          edges  == {k \in On(line) : irq_mode[k] = "edges"}
                      IN IF driver # {} THEN edges = {} /\ pin_irq[line] \in driver
                         ELSE IF On(line) # {} THEN edges = {pin_irq[line]} /\ line \in aux_irq
                         ELSE pin_irq[line] = NULL
    BY DEF OneOwner
  <2> DEFINE driver == {k \in On(line) : inputpin[k].group \in Driver}
             edges  == {k \in On(line) : irq_mode[k] = "edges"}
  <2>1. pin_irq[line] # NULL => pin_irq[line] \in On(line)
    BY DEF ILoops, TypeOK, ITable, On
  <2>2. ASSUME NEW k \in driver PROVE edges = {} /\ pin_irq[line] \in driver
    <3>1. line \in DRIVER_IRQMASK
      BY <2>2 DEF On, DRIVER_IRQMASK
    <3>2. pin_irq[line] # NULL /\ inputpin[pin_irq[line]].group \in Driver
      BY <2>2 DEF ILoops, ITable, Entered, On
    <3> QED BY <2>1, <3>1, <3>2 DEF ILoops, IFree, On
  <2>3. ASSUME driver = {}, NEW k \in On(line) PROVE edges = {pin_irq[line]} /\ line \in aux_irq
    <3>1. line \notin DRIVER_IRQMASK /\ IsAux(k)
      BY <2>3, Ranges DEF On, DRIVER_IRQMASK, IsAux
    <3>2. line \in irq
      BY <2>3, <3>1 DEF ILoops, IFree, Assigned, On
    <3>3. PICK h \in Index : inputpin[h].pin = line /\ irq_mode[h] = "edges"
      BY <3>2 DEF IOwned
    <3>4. \A l \in edges : pin_irq[line] = l /\ line \in aux_irq
      BY DEF ILoops, ITable, Entered, On
    <3> QED BY <3>3, <3>4 DEF On
  <2>4. ASSUME On(line) = {} PROVE pin_irq[line] = NULL
    BY <2>1, <2>4
  <2> QED BY <2>2, <2>3, <2>4
<1> QED BY <1>1, InitLoops, StepLoops, InitOwned, StepOwned, PTL DEF Spec

-----------------------------------------------------------------------------
(* The report.                                                             *)

Registrable == PluginPins \cup {rx0, tx0}
Text        == Descriptions \cup {None}

\* Entries of the log about pins with one name, the texts given after pin n, and
\* whether a pin of its name was there before it.
Same(m, n) == log[m].pin.function = log[n].pin.function /\ log[m].pin.group = log[n].pin.group
Texts(n)   == {m \in n + 1 .. Len(log) : log[m].text # None /\ Same(m, n)}
Twin(n)    == \E m \in 1 .. n - 1 : log[m].text = None /\ Same(m, n)

IHistory ==
  /\ registered \in 0 .. 2
  /\ log \in Seq([pin : Registrable, text : Text])
  /\ periph_pins \in Seq([pin : Registrable, description : Text])
  /\ places \in Seq(Nat) /\ Len(places) = Len(periph_pins)

\* The list holds the pins of the log, in its order,
IOrder ==
  /\ \A k \in 1 .. Len(places) :
       /\ places[k] \in 1 .. Len(log) /\ log[places[k]].text = None
       /\ periph_pins[k].pin = log[places[k]].pin
  /\ \A k, l \in 1 .. Len(places) : k < l => places[k] < places[l]
  /\ \A m \in 1 .. Len(log) : log[m].text = None => \E k \in 1 .. Len(places) : places[k] = m

\* with the texts last given: the first pin of a name has them all.
ITexts ==
  \A k \in 1 .. Len(places) :
    IF Twin(places[k]) \/ Texts(places[k]) = {} THEN periph_pins[k].description = None
    ELSE /\ Max(Texts(places[k])) \in Texts(places[k])
         /\ periph_pins[k].description = log[Max(Texts(places[k]))].text

IReport == IHistory /\ IOrder /\ ITexts

LEMMA InitReport == ReportInit => IReport
<1> SUFFICES ASSUME ReportInit PROVE IReport
  OBVIOUS
<1>1. /\ log = <<>> /\ periph_pins = <<>> /\ places = <<>> /\ Len(<<>>) = 0 /\ registered = 0
  BY EmptySeq DEF ReportInit
<1>2. IHistory
  BY <1>1, EmptySeq DEF IHistory
<1>3. 1 .. 0 = {}
  OBVIOUS
<1> QED BY <1>1, <1>2, <1>3 DEF IReport, IOrder, ITexts

\* The first of some numbers.
LEMMA First ==
  ASSUME NEW S \in SUBSET Nat, S # {}
  PROVE  Min(S) \in S /\ \A n \in S : Min(S) <= n
<1> DEFINE Less == {p \in Nat \X Nat : p[1] < p[2]}
<1>1. IsWellFoundedOn(Less, Nat)
  BY NatLessThanWellFounded DEF OpToRel
<1> HIDE DEF Less
<1>2. S \subseteq Nat
  OBVIOUS
<1>3. \E m \in S : \A n \in S : <<n, m>> \notin Less
  BY <1>1, <1>2, WFMin
<1>4. PICK m \in S : \A n \in S : <<n, m>> \notin Less
  BY <1>3
<1>5. ASSUME NEW n \in S PROVE m <= n
  <2>1. m \in Nat /\ n \in Nat
    BY <1>2
  <2>2. n < m => <<n, m>> \in Less
    BY <2>1 DEF Less
  <2> QED BY <1>4, <2>1, <2>2
<1> QED BY <1>4, <1>5 DEF Min

\* A new entry of the log is at its end, and changes nothing for a pin before it, except
\* that it may be a text for it.
LEMMA LogGrows ==
  ASSUME IHistory, NEW e \in [pin : Registrable, text : Text], log' = Append(log, e)
  PROVE  /\ log' \in Seq([pin : Registrable, text : Text])
         /\ Len(log) \in Nat /\ Len(log') = Len(log) + 1 /\ log'[Len(log) + 1] = e
         /\ \A n \in 1 .. Len(log) :
              /\ log'[n] = log[n] /\ Twin(n)' = Twin(n)
              /\ Texts(n)' = IF /\ e.text # None
                               /\ e.pin.function = log[n].pin.function
                               /\ e.pin.group = log[n].pin.group
                            THEN Texts(n) \cup {Len(log) + 1} ELSE Texts(n)
<1>1. /\ log' \in Seq([pin : Registrable, text : Text])
      /\ Len(log) \in Nat /\ Len(log') = Len(log) + 1 /\ log'[Len(log) + 1] = e
      /\ \A n \in 1 .. Len(log) : log'[n] = log[n]
  BY AppendProperties DEF IHistory
<1>2. ASSUME NEW n \in 1 .. Len(log)
      PROVE  /\ Twin(n)' = Twin(n)
             /\ Texts(n)' = IF /\ e.text # None
                              /\ e.pin.function = log[n].pin.function
                              /\ e.pin.group = log[n].pin.group
                           THEN Texts(n) \cup {Len(log) + 1} ELSE Texts(n)
  <2>1. \A m \in 1 .. Len(log) : Same(m, n)' <=> Same(m, n)
    BY <1>1 DEF Same
  <2>2. \A m \in 1 .. n - 1 : m \in 1 .. Len(log)
    BY <1>1
  <2>3. Twin(n)' = Twin(n)
    BY <1>1, <2>1, <2>2 DEF Twin
  <2>4. n + 1 .. Len(log') = (n + 1 .. Len(log)) \cup {Len(log) + 1}
    BY <1>1
  <2>5. \A m \in n + 1 .. Len(log) : m \in 1 .. Len(log) /\ m # Len(log) + 1
    BY <1>1
  <2>6. ASSUME NEW m \in n + 1 .. Len(log)
        PROVE  log'[m].text # None /\ Same(m, n)' <=> log[m].text # None /\ Same(m, n)
    BY <1>1, <2>1, <2>5
  <2>7. ASSUME NEW m, m = Len(log) + 1
        PROVE  log'[m].text # None /\ Same(m, n)' <=>
                 /\ e.text # None
                 /\ e.pin.function = log[n].pin.function /\ e.pin.group = log[n].pin.group
    BY <1>1, <2>7 DEF Same
  <2>8. ASSUME NEW m
        PROVE  m \in Texts(n)' <=>
                 \/ m \in Texts(n)
                 \/ m = Len(log) + 1 /\ log'[m].text # None /\ Same(m, n)'
    BY <2>4, <2>5, <2>6 DEF Texts
  <2> QED BY <2>3, <2>7, <2>8
<1> QED BY <1>1, <1>2

LEMMA RegisterReport ==
  ASSUME IReport, NEW pin \in Registrable, registered' \in 0 .. 2,
         periph_pins' = Linked(periph_pins, pin),
         log' = Append(log, [pin |-> pin, text |-> None]), places' = Append(places, Len(log'))
  PROVE  IReport'
<1> DEFINE e == [pin |-> pin, text |-> None]
           d == [pin |-> pin, description |-> None]
           last == Len(places) + 1
<1>1. e \in [pin : Registrable, text : Text] /\ d \in [pin : Registrable, description : Text]
  BY DEF Text
<1>2. IHistory
  BY DEF IReport
<1>3. /\ log' \in Seq([pin : Registrable, text : Text])
      /\ Len(log) \in Nat /\ Len(log') = Len(log) + 1 /\ log'[Len(log) + 1] = e
      /\ \A n \in 1 .. Len(log) :
           log'[n] = log[n] /\ Twin(n)' = Twin(n) /\ Texts(n)' = Texts(n)
  BY <1>1, <1>2, LogGrows
<1>4. /\ periph_pins' \in Seq([pin : Registrable, description : Text])
      /\ Len(places) \in Nat /\ Len(periph_pins') = Len(places) + 1
      /\ \A k \in 1 .. Len(places) : periph_pins'[k] = periph_pins[k]
      /\ periph_pins'[Len(places) + 1] = d
  BY <1>1, <1>2, AppendProperties DEF IHistory, Linked
<1>5. /\ places' \in Seq(Nat) /\ Len(places') = Len(places) + 1
      /\ \A k \in 1 .. Len(places) : places'[k] = places[k]
      /\ places'[Len(places) + 1] = Len(log) + 1
  <2>1. Len(log') \in Nat
    BY <1>3
  <2> QED BY <1>2, <1>3, <2>1, AppendProperties DEF IHistory
<1>6. IHistory'
  BY <1>3, <1>4, <1>5 DEF IHistory
<1>7. \A k \in 1 .. Len(places') : k \in 1 .. Len(places) \/ k = Len(places) + 1
  BY <1>4, <1>5
<1>8. \A k \in 1 .. Len(places) : places[k] \in 1 .. Len(log) /\ places[k] # Len(log) + 1
  BY <1>3 DEF IReport, IOrder
<1>9. IOrder'
  <2>1. ASSUME NEW k \in 1 .. Len(places')
        PROVE  /\ places'[k] \in 1 .. Len(log') /\ log'[places'[k]].text = None
               /\ periph_pins'[k].pin = log'[places'[k]].pin
    <3>1. CASE k \in 1 .. Len(places)
      <4>1. /\ places[k] \in 1 .. Len(log) /\ log[places[k]].text = None
            /\ periph_pins[k].pin = log[places[k]].pin
        BY <3>1 DEF IReport, IOrder
      <4>2. /\ places'[k] = places[k] /\ periph_pins'[k] = periph_pins[k]
            /\ log'[places[k]] = log[places[k]] /\ places[k] \in 1 .. Len(log')
        BY <1>3, <1>4, <1>5, <3>1, <4>1
      <4> QED BY <4>1, <4>2
    <3>2. CASE k = Len(places) + 1
      BY <1>3, <1>4, <1>5, <3>2
    <3> QED BY <1>7, <3>1, <3>2
  <2>2. ASSUME NEW k \in 1 .. Len(places'), NEW l \in 1 .. Len(places'), k < l
        PROVE  places'[k] < places'[l]
    <3>1. k \in 1 .. Len(places)
      BY <1>4, <1>5, <2>2
    <3>2. CASE l \in 1 .. Len(places)
      BY <1>5, <2>2, <3>1, <3>2 DEF IReport, IOrder
    <3>3. CASE l = Len(places) + 1
      BY <1>3, <1>5, <1>8, <3>1, <3>3
    <3> QED BY <1>7, <3>2, <3>3
  <2>3. ASSUME NEW m \in 1 .. Len(log'), log'[m].text = None
        PROVE  \E k \in 1 .. Len(places') : places'[k] = m
    <3>1. CASE m \in 1 .. Len(log)
      <4>1. PICK k \in 1 .. Len(places) : places[k] = m
        BY <1>3, <2>3, <3>1 DEF IReport, IOrder
      <4>2. k \in 1 .. Len(places')
        BY <1>4, <1>5
      <4> QED BY <1>5, <4>1, <4>2
    <3>2. CASE m = Len(log) + 1
      <4>1. Len(places) + 1 \in 1 .. Len(places')
        BY <1>4, <1>5
      <4> QED BY <1>5, <3>2, <4>1
    <3> QED BY <1>3, <3>1, <3>2
  <2> QED BY <2>1, <2>2, <2>3 DEF IOrder
<1>10. ITexts'
  <2> SUFFICES ASSUME NEW k \in 1 .. Len(places'), NEW n, n = places'[k]
               PROVE  IF Twin(n)' \/ Texts(n)' = {} THEN periph_pins'[k].description = None
                      ELSE /\ Max(Texts(n)') \in Texts(n)'
                           /\ periph_pins'[k].description = log'[Max(Texts(n)')].text
    BY DEF ITexts
  <2>1. CASE k \in 1 .. Len(places)
    <3>1. /\ n = places[k] /\ n \in 1 .. Len(log) /\ Twin(n)' = Twin(n) /\ Texts(n)' = Texts(n)
          /\ periph_pins'[k] = periph_pins[k]
      BY <1>3, <1>4, <1>5, <1>8, <2>1
    <3>2. IF Twin(n) \/ Texts(n) = {} THEN periph_pins[k].description = None
          ELSE /\ Max(Texts(n)) \in Texts(n)
               /\ periph_pins[k].description = log[Max(Texts(n))].text
      BY <2>1, <3>1 DEF IReport, ITexts
    <3>3. \A m \in Texts(n) : log'[m] = log[m]
      BY <1>3, <3>1 DEF Texts
    <3> QED BY <3>1, <3>2, <3>3
  <2>2. CASE k = Len(places) + 1
    <3>1. Texts(n)' = {}
      BY <1>3, <1>5, <2>2 DEF Texts
    <3> QED BY <1>4, <2>2, <3>1
  <2> QED BY <1>7, <2>1, <2>2
<1> QED BY <1>6, <1>9, <1>10 DEF IReport

\* The first pin of a name is described.
LEMMA DescribeReport ==
  ASSUME IReport, NEW pin \in Registrable, NEW text \in Descriptions,
         NEW found, found = Named(periph_pins, pin.function, pin.group),
         periph_pins' = IF found = {} THEN periph_pins
                        ELSE [periph_pins EXCEPT ![Min(found)].description = text],
         log' = Append(log, [pin |-> pin, text |-> text]), UNCHANGED <<places, registered>>
  PROVE  IReport'
<1> DEFINE e == [pin |-> pin, text |-> text]
           its(n) == pin.function = log[n].pin.function /\ pin.group = log[n].pin.group
<1>1. e \in [pin : Registrable, text : Text] /\ text # None /\ text \in Text
  BY ReportAssumption DEF Text
<1>2. IHistory
  BY DEF IReport
<1>3. /\ log' \in Seq([pin : Registrable, text : Text])
      /\ Len(log) \in Nat /\ Len(log') = Len(log) + 1 /\ log'[Len(log) + 1] = e
      /\ \A n \in 1 .. Len(log) :
           /\ log'[n] = log[n] /\ Twin(n)' = Twin(n)
           /\ Texts(n)' = IF its(n) THEN Texts(n) \cup {Len(log) + 1} ELSE Texts(n)
  BY <1>1, <1>2, LogGrows
<1>4. /\ periph_pins \in Seq([pin : Registrable, description : Text])
      /\ Len(places) \in Nat /\ Len(periph_pins) = Len(places)
      /\ DOMAIN periph_pins = 1 .. Len(places)
      /\ places' = places
  BY <1>2 DEF IHistory
<1>5. /\ \A k \in 1 .. Len(places) :
           /\ places[k] \in 1 .. Len(log) /\ log[places[k]].text = None
           /\ periph_pins[k].pin = log[places[k]].pin
      /\ \A k, l \in 1 .. Len(places) : k < l => places[k] < places[l]
      /\ \A m \in 1 .. Len(log) : log[m].text = None => \E k \in 1 .. Len(places) : places[k] = m
  BY DEF IReport, IOrder
<1>6. \A k \in 1 .. Len(places) : k \in found <=> its(places[k])
  BY <1>4, <1>5 DEF Named
<1>7. found \subseteq 1 .. Len(places)
  BY <1>4 DEF Named
<1>8. found # {} => Min(found) \in found /\ \A k \in found : Min(found) <= k
  <2>1. found \in SUBSET Nat
    BY <1>7
  <2> QED BY <2>1, First
\* What becomes of the list.
<1>9. /\ periph_pins' \in Seq([pin : Registrable, description : Text])
      /\ Len(periph_pins') = Len(places)
      /\ \A k \in 1 .. Len(places) :
           /\ periph_pins'[k].pin = periph_pins[k].pin
           /\ periph_pins'[k].description = IF found # {} /\ k = Min(found) THEN text
                                           ELSE periph_pins[k].description
  <2>1. CASE found = {}
    BY <1>4, <2>1
  <2>2. CASE found # {}
    <3> DEFINE f == Min(found)
               d == [periph_pins[f] EXCEPT !.description = text]
    <3>1. f \in 1 .. Len(periph_pins) /\ periph_pins[f] \in [pin : Registrable, description : Text]
      <4>1. f \in 1 .. Len(periph_pins)
        <5>1. f \in found
          BY <1>8, <2>2
        <5> QED BY <1>4, <1>7, <5>1
      <4> HIDE DEF f
      <4> QED BY <1>4, <4>1, ElementOfSeq
    <3>2. /\ d \in [pin : Registrable, description : Text]
          /\ d.pin = periph_pins[f].pin /\ d.description = text
      BY <1>1, <3>1
    <3>3. periph_pins' = [periph_pins EXCEPT ![f] = d]
      BY <2>2
    <3> HIDE DEF d, f
    <3>4. /\ periph_pins' \in Seq([pin : Registrable, description : Text])
          /\ Len(periph_pins') = Len(periph_pins)
          /\ \A k \in 1 .. Len(periph_pins) : periph_pins'[k] = IF k = f THEN d ELSE periph_pins[k]
      <4> DEFINE new == [periph_pins EXCEPT ![f] = d]
                 T == [pin : Registrable, description : Text]
      <4>1. periph_pins \in Seq(T) /\ f \in 1 .. Len(periph_pins) /\ d \in T
        BY <1>4, <3>1, <3>2
      <4> HIDE DEF T
      <4>2. /\ new \in Seq(T) /\ Len(new) = Len(periph_pins)
            /\ \A k \in 1 .. Len(periph_pins) : new[k] = IF k = f THEN d ELSE periph_pins[k]
        BY <4>1, ExceptSeq
      <4> QED BY <3>3, <4>2 DEF T
    <3> QED BY <1>4, <2>2, <3>2, <3>4 DEF f
  <2> QED BY <2>1, <2>2
<1>10. IHistory'
  BY <1>2, <1>3, <1>4, <1>9 DEF IHistory
<1>11. IOrder'
  <2>1. ASSUME NEW k \in 1 .. Len(places)
        PROVE  /\ places[k] \in 1 .. Len(log') /\ log'[places[k]].text = None
               /\ periph_pins'[k].pin = log'[places[k]].pin
    BY <1>3, <1>5, <1>9
  <2>2. ASSUME NEW m \in 1 .. Len(log'), log'[m].text = None
        PROVE  \E k \in 1 .. Len(places) : places[k] = m
    <3>1. m # Len(log) + 1
      BY <1>1, <1>3, <2>2
    <3>2. m \in 1 .. Len(log)
      BY <1>3, <3>1
    <3> QED BY <1>3, <1>5, <2>2, <3>2
  <2> QED BY <1>4, <1>5, <2>1, <2>2 DEF IOrder
<1>12. ITexts'
  <2> SUFFICES ASSUME NEW k \in 1 .. Len(places), NEW n, n = places[k]
               PROVE  IF Twin(n)' \/ Texts(n)' = {} THEN periph_pins'[k].description = None
                      ELSE /\ Max(Texts(n)') \in Texts(n)'
                           /\ periph_pins'[k].description = log'[Max(Texts(n)')].text
    BY <1>4 DEF ITexts
  <2>1. /\ n \in 1 .. Len(log) /\ Twin(n)' = Twin(n)
        /\ Texts(n)' = IF its(n) THEN Texts(n) \cup {Len(log) + 1} ELSE Texts(n)
    BY <1>3, <1>5
  <2>2. IF Twin(n) \/ Texts(n) = {} THEN periph_pins[k].description = None
        ELSE /\ Max(Texts(n)) \in Texts(n)
             /\ periph_pins[k].description = log[Max(Texts(n))].text
    BY DEF IReport, ITexts
  <2>3. \A m \in Texts(n) : m \in 1 .. Len(log) /\ log'[m] = log[m]
    BY <1>3, <2>1 DEF Texts
  \* Another name.
  <2>4. CASE ~its(n)
    <3>1. periph_pins'[k].description = periph_pins[k].description /\ Texts(n)' = Texts(n)
      BY <1>6, <1>8, <1>9, <2>1, <2>4
    <3> QED BY <2>1, <2>2, <2>3, <3>1
  \* The first of the name: nothing before it has it.
  <2>5. CASE its(n) /\ k = Min(found)
    <3>1. ~Twin(n)
      <4>1. SUFFICES ASSUME NEW m \in 1 .. n - 1, log[m].text = None, Same(m, n) PROVE FALSE
        BY DEF Twin
      <4>2. m \in 1 .. Len(log) /\ m < n
        BY <1>3, <2>1
      <4>3. PICK l \in 1 .. Len(places) : places[l] = m
        BY <1>5, <4>1, <4>2
      <4>4. l < k
        <5>1. k < l => n < m
          BY <1>5, <4>3
        <5>2. k \in Nat /\ l \in Nat /\ n \in Nat /\ m \in Nat
          BY <1>3, <1>4, <2>1, <4>2
        <5> QED BY <4>2, <4>3, <5>1, <5>2
      <4>5. l \in found
        BY <1>6, <2>5, <4>1, <4>3 DEF Same
      <4>6. k <= l
        BY <1>8, <2>5, <4>5
      <4> QED BY <1>4, <4>4, <4>6
    <3>2. Max(Texts(n)') = Len(log) + 1
      <4>1. Len(log) + 1 \in Texts(n)' /\ \A m \in Texts(n)' : m \in Nat /\ Len(log) + 1 >= m
        <5>1. Texts(n)' = Texts(n) \cup {Len(log) + 1}
          BY <2>1, <2>5
        <5>2. \A m \in Texts(n) : m \in Nat /\ Len(log) + 1 >= m
          <6>1. \A m \in 1 .. Len(log) : m \in Nat /\ Len(log) + 1 >= m
            BY <1>3
          <6> QED BY <2>3, <6>1
        <5>3. Len(log) + 1 \in Nat /\ Len(log) + 1 >= Len(log) + 1
          BY <1>3
        <5> QED BY <5>1, <5>2, <5>3
      <4>2. \A x \in Texts(n)' : (\A y \in Texts(n)' : x >= y) <=> x = Len(log) + 1
        BY <1>3, <4>1
      <4> QED BY <4>1, <4>2 DEF Max
    <3>3. found # {}
      BY <1>6, <2>5
    <3>4. periph_pins'[k].description = text /\ log'[Len(log) + 1].text = text
      <4>1. log'[Len(log) + 1].text = text
        BY <1>3
      <4>2. periph_pins'[k].description = IF found # {} /\ k = Min(found) THEN text
                                          ELSE periph_pins[k].description
        BY <1>9
      <4> QED BY <2>5, <3>3, <4>1, <4>2
    <3>5. Len(log) + 1 \in Texts(n)' /\ ~Twin(n)'
      BY <2>1, <2>5, <3>1
    <3> QED BY <3>2, <3>4, <3>5
  \* A later one.
  <2>6. CASE its(n) /\ k # Min(found)
    <3>1. k \in found
      BY <1>6, <2>6
    <3>2. Min(found) < k /\ Min(found) \in 1 .. Len(places)
      <4>1. Min(found) \in found /\ Min(found) <= k
        BY <1>8, <3>1
      <4>2. Min(found) \in 1 .. Len(places) /\ Min(found) # k
        BY <1>7, <2>6, <4>1
      <4> QED BY <1>4, <4>1, <4>2
    <3>3. Twin(n)
      <4> DEFINE m == places[Min(found)]
      <4>1. m < n /\ m \in 1 .. Len(log) /\ log[m].text = None
        BY <1>5, <3>2
      <4>2. Same(m, n)
        BY <1>6, <1>8, <2>6, <3>1, <3>2 DEF Same
      <4>3. m \in 1 .. n - 1
        BY <1>3, <2>1, <4>1
      <4> QED BY <4>1, <4>2, <4>3 DEF Twin
    <3>4. periph_pins'[k].description = periph_pins[k].description
      BY <1>9, <2>6
    <3> QED BY <2>1, <2>2, <3>3, <3>4
  <2> QED BY <2>4, <2>5, <2>6
<1> QED BY <1>10, <1>11, <1>12 DEF IReport

LEMMA StepReport ==
  ASSUME IReport, [ReportNext]_allVars
  PROVE  IReport'
<1>1. \A n : streamPins[1] \in Registrable /\ streamPins[2] \in Registrable
  BY DEF streamPins, Registrable
<1>2. registered \in 0 .. 2 /\ Len(streamPins) = 2
  BY DEF IReport, IHistory, streamPins
<1>3. ASSUME UNCHANGED <<periph_pins, log, places>>, registered' \in 0 .. 2
      PROVE  IReport'
  <2>1. IHistory' /\ IOrder'
    BY <1>3 DEF IReport, IHistory, IOrder
  <2>2. \A n : Texts(n)' = Texts(n) /\ Twin(n)' = Twin(n)
    BY <1>3 DEF Twin, Texts, Same
  <2>3. ITexts'
    BY <1>3, <2>2 DEF IReport, ITexts
  <2> QED BY <2>1, <2>3 DEF IReport
<1>4. ASSUME NEW pin \in Registrable, registerPeriphPin(pin), registered' \in 0 .. 2
      PROVE  IReport'
  <2>1. CASE /\ periph_pins' = Linked(periph_pins, pin)
             /\ log' = Append(log, [pin |-> pin, text |-> None])
             /\ places' = Append(places, Len(log'))
    BY <1>4, <2>1, RegisterReport
  <2>2. CASE UNCHANGED <<periph_pins, log, places>>
    BY <1>3, <1>4, <2>2
  <2> QED BY <1>4, <2>1, <2>2 DEF registerPeriphPin
<1>5. CASE serialRegisterStreams
  <2>1. registered' = registered + 1 /\ registered < 2
    BY <1>2, <1>5 DEF serialRegisterStreams
  <2>2. registered' \in 1 .. 2
    BY <1>2, <2>1
  <2>3. streamPins[registered'] \in Registrable /\ registerPeriphPin(streamPins[registered'])
    BY <1>1, <1>5, <2>2 DEF serialRegisterStreams
  <2> QED BY <1>4, <2>2, <2>3
<1>6. CASE RegisterPlugin
  <2>1. PICK pin \in PluginPins : registerPeriphPin(pin)
    BY <1>6 DEF RegisterPlugin
  <2> QED BY <1>2, <1>4, <1>6, <2>1 DEF RegisterPlugin, Registrable
<1>7. CASE setPeriphPinDescription
  <2>1. PICK pin \in PluginPins, text \in Descriptions :
          LET found == Named(periph_pins, pin.function, pin.group)
          IN /\ periph_pins' = IF found = {} THEN periph_pins
                               ELSE [periph_pins EXCEPT ![Min(found)].description = text]
             /\ log' = Append(log, [pin |-> pin, text |-> text])
    BY <1>7 DEF setPeriphPinDescription
  <2>2. UNCHANGED <<places, registered>> /\ pin \in Registrable
    BY <1>7 DEF setPeriphPinDescription, Registrable
  <2> QED BY <2>1, <2>2, DescribeReport
<1>8. CASE Assign \/ enumeratePins \/ UNCHANGED allVars
  BY <1>2, <1>3, <1>8 DEF Assign, enumeratePins, reportVars, allVars
<1> QED BY <1>5, <1>6, <1>7, <1>8 DEF ReportNext

\* The report is for the board as aux_assign_irq and driver_init have left it: no step
\* of the list or of the report is one of theirs.
LEMMA ReportRefines == ReportSpec => Spec
<1>1. ReportInit => Init
  BY DEF ReportInit
<1>2. [ReportNext]_allVars => [Next]_vars
  BY DEF ReportNext, Assign, serialRegisterStreams, RegisterPlugin, registerPeriphPin,
         setPeriphPinDescription, enumeratePins, allVars
<1> QED BY <1>1, <1>2, PTL DEF ReportSpec, Spec

LEMMA FunctionIsSeq ==
  ASSUME NEW T, NEW n \in Nat, NEW f \in [1 .. n -> T]
  PROVE  f \in Seq(T) /\ Len(f) = n
<1>1. f \in Seq(T)
  BY SeqDef
<1> QED BY <1>1, LenProperties

LEMMA ReportEnds ==
  ASSUME IBoard, IReport, enumeratePins
  PROVE  SubSeq(report', Len(inputpin) + Len(Outputs) + 1, Len(report'))
           = [k \in DOMAIN places |-> Expected(places[k])]
<1>1. /\ Len(inputpin) \in Nat /\ Index = 1 .. Len(inputpin)
      /\ Len(Outputs) \in Nat /\ DOMAIN Outputs = 1 .. Len(Outputs)
  BY Board, ReportAssumption, LenProperties
<1>2. /\ Len(places) \in Nat /\ DOMAIN places = 1 .. Len(places)
      /\ DOMAIN periph_pins = 1 .. Len(places)
  BY LenProperties DEF IReport, IHistory
<1> DEFINE T == {InputLines[n] : n \in 1 .. Len(inputpin)}
                  \cup {OutputLines[n] : n \in 1 .. Len(Outputs)}
                  \cup {PeriphLines[n] : n \in 1 .. Len(places)}
           front == InputLines \o OutputLines
           a == Len(inputpin) + Len(Outputs)
           b == Len(places)
<1>3. /\ InputLines \in [1 .. Len(inputpin) -> T]
      /\ OutputLines \in [1 .. Len(Outputs) -> T]
      /\ PeriphLines \in [1 .. Len(places) -> T]
  BY <1>1, <1>2 DEF InputLines, OutputLines, PeriphLines
<1> HIDE DEF T
<1>4. /\ InputLines \in Seq(T) /\ Len(InputLines) = Len(inputpin)
      /\ OutputLines \in Seq(T) /\ Len(OutputLines) = Len(Outputs)
      /\ PeriphLines \in Seq(T) /\ Len(PeriphLines) = b
  BY <1>1, <1>2, <1>3, FunctionIsSeq
<1>5. front \in Seq(T) /\ Len(front) = a
  BY <1>4, ConcatProperties
<1>6. a \in Nat /\ b \in Nat
  BY <1>1, <1>2
<1> HIDE DEF front, a, b
<1>7. /\ front \o PeriphLines \in Seq(T) /\ Len(front \o PeriphLines) = a + b
      /\ \A n \in 1 .. a + b : (front \o PeriphLines)[n] = IF n <= a THEN front[n] ELSE PeriphLines[n - a]
  <2>1. /\ front \o PeriphLines \in Seq(T)
        /\ Len(front \o PeriphLines) = Len(front) + Len(PeriphLines)
        /\ \A n \in 1 .. Len(front) + Len(PeriphLines) : (front \o PeriphLines)[n] =
             IF n <= Len(front) THEN front[n] ELSE PeriphLines[n - Len(front)]
    BY <1>4, <1>5, ConcatProperties
  <2> QED BY <1>4, <1>5, <2>1
<1>8. report' = front \o PeriphLines
  BY DEF enumeratePins, front
<1>9. SubSeq(report', a + 1, Len(report')) = PeriphLines
  <2>1. report' \in Seq(T) /\ Len(report') = a + b /\ a \in Nat /\ b \in Nat
    BY <1>7, <1>8, <1>6
  <2> DEFINE rest == SubSeq(report', a + 1, a + b)
  <2>2. \A n \in a + 1 .. a + b : report'[n] \in T
    BY <2>1, ElementOfSeq
  <2>3. /\ rest \in Seq(T) /\ Len(rest) = b
        /\ \A n \in 1 .. b : rest[n] = report'[a + n]
    <3>1. a + 1 \in Int /\ a + b \in Int /\ (a + b) - (a + 1) + 1 = b
      BY <2>1
    <3>2. /\ rest \in Seq(T)
          /\ Len(rest) = IF a + 1 <= a + b THEN (a + b) - (a + 1) + 1 ELSE 0
          /\ \A n \in 1 .. (a + b) - (a + 1) + 1 : rest[n] = report'[(a + 1) + n - 1]
      BY <2>1, <2>2, <3>1, SubSeqProperties
    <3>3. \A n \in 1 .. b : (a + 1) + n - 1 = a + n
      BY <2>1
    <3> HIDE DEF rest
    <3> QED BY <2>1, <3>1, <3>2, <3>3
  <2>4. \A n \in 1 .. b : rest[n] = PeriphLines[n]
    <3>1. ASSUME NEW n \in 1 .. b PROVE rest[n] = PeriphLines[n]
      <4>1. a + n \in 1 .. a + b /\ ~(a + n <= a) /\ (a + n) - a = n
        BY <2>1
      <4>2. report'[a + n] = PeriphLines[(a + n) - a]
        BY <1>7, <1>8, <4>1
      <4> HIDE DEF rest
      <4> QED BY <2>3, <4>1, <4>2
    <3> QED BY <3>1
  <2> HIDE DEF rest
  <2>5. rest = PeriphLines
    BY <1>4, <2>3, <2>4, SeqEqual
  <2> QED BY <2>1, <2>5 DEF rest
<1>10. PeriphLines = [k \in DOMAIN places |-> Expected(places[k])]
  <2>1. ASSUME NEW k \in 1 .. Len(places) PROVE PeriphLines[k] = Expected(places[k])
    <3> DEFINE n == places[k]
               pin == log[n].pin
    <3>1. periph_pins[k].pin = pin
      BY DEF IReport, IOrder
    <3>2. IF Twin(n) \/ Texts(n) = {} THEN periph_pins[k].description = None
          ELSE /\ Max(Texts(n)) \in Texts(n)
               /\ periph_pins[k].description = log[Max(Texts(n))].text
      BY DEF IReport, ITexts
    <3>3. PeriphLines[k] =
            [function |-> pin.function, mode |-> pin.mode,
             description |-> IF periph_pins[k].description = None THEN pin.group
                             ELSE periph_pins[k].description]
      BY <1>2, <3>1 DEF PeriphLines, Reported
    <3>4. Expected(n) =
            [function |-> pin.function, mode |-> pin.mode,
             description |-> IF Twin(n) \/ Texts(n) = {} THEN pin.group
                             ELSE log[Max(Texts(n))].text]
      BY DEF Expected, Twin, Texts, Same
    <3>5. \A m \in Texts(n) : log[m].text # None
      BY DEF Texts
    <3> QED BY <3>2, <3>3, <3>4, <3>5
  <2> QED BY <1>2, <2>1 DEF PeriphLines
<1> QED BY <1>9, <1>10 DEF a

\* Every report ends with the pins that found memory, in the order in which they were
\* registered, each with its own mode and the text last given for it: whatever the
\* board, the pins, their names and the order of the calls.
THEOREM ReportAsRegistered == ReportSpec => PinsAsRegistered
<1>1. Spec => []IBoard
  <2>1. ILoops => IBoard
    BY DEF ILoops
  <2> QED BY <2>1, InitLoops, StepLoops, PTL DEF Spec
<1>2. ReportSpec => []IReport
  BY InitReport, StepReport, PTL DEF ReportSpec
<1>3. ASSUME IBoard, IReport, [ReportNext]_allVars
      PROVE  [reports' # reports =>
                SubSeq(report', Len(inputpin) + Len(Outputs) + 1, Len(report'))
                  = [k \in DOMAIN places |-> Expected(places[k])]]_allVars
  <2>1. reports' # reports => enumeratePins
    BY <1>3 DEF ReportNext, Assign, serialRegisterStreams, RegisterPlugin, registerPeriphPin,
                setPeriphPinDescription, reportVars, allVars
  <2> QED BY <1>3, <2>1, ReportEnds
<1> QED BY <1>1, <1>2, <1>3, ReportRefines, PTL DEF ReportSpec, PinsAsRegistered
=============================================================================
