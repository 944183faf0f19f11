------------------------------- MODULE MCPins -------------------------------
(***************************************************************************)
(* Boards with a limit switch on line 6 and up to four auxiliary inputs on *)
(* lines 5 and 6.  The functions: 1 and 4 are main signals, 3 is another   *)
(* control, 2 a probe, 5 a motor fault.  Two outputs; plugins register an  *)
(* output of SPI, more than once, and describe it or a pin of the UART.    *)
(***************************************************************************)
EXTENDS PinReport

MCFunction == 1 .. 5
MCMain == {1, 4}
MCProbe == {2}
MCMotorFault == {5}

\* The other way round, for PinsNumbering: the motor fault before the probe.
MCLateMain == {4}
MCEarlyFault == {1}

MCAuxInput == [group : {"aux"}, pin : {5, 6}, fn : MCFunction \cup {None}]
MCLimit == [group |-> "limit", pin |-> 6, fn |-> None]
MCBoards == {<<MCLimit>> \o aux : aux \in UNION {[1 .. n -> MCAuxInput] : n \in 0 .. 4}}

MCOutputs == <<"StepX", "DirX">>
MCPluginPins == {[function |-> "SCK", group |-> "SPI0", mode |-> {"output"}], rx0}

\* The report does no more with the inputs than number them: two of them will do.
MCShortReport == registered > 0 => Len(inputpin) <= 3
=============================================================================
