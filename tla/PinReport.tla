----------------------------- MODULE PinReport ------------------------------
(***************************************************************************)
(* The report of the pins (driver.c): serialRegisterStreams and the        *)
(* plugins register the pins of their peripherals in the list periph_pins, *)
(* plugins describe them, and enumeratePins reports the inputs as          *)
(* driver_init has numbered them (Pins), the outputs and the peripherals.  *)
(* The report is built in a static xbar_t, whose mode outlives it.         *)
(*                                                                         *)
(* driver_init registers the pins of the UART before its loops; the loops  *)
(* do not look at them, and here they follow.                              *)
(***************************************************************************)
EXTENDS Pins, SequencesExt

CONSTANTS
  Outputs,        \* the functions of outputpin, in its order
  PluginPins,     \* what plugins register: records [function, group, mode]
  Descriptions,   \* texts plugins give
  MaxEvents,      \* bound on the registrations and descriptions
  MaxReports      \* bound on the reports

ASSUME ReportAssumption ==
  /\ Outputs \in Seq(Range(Outputs)) /\ None \notin Descriptions
  /\ MaxEvents \in Nat /\ MaxReports \in Nat

rx0 == [function |-> "RX", group |-> "UART0", mode |-> {}]
tx0 == [function |-> "TX", group |-> "UART0", mode |-> {"output"}]

VARIABLES
  periph_pins,    \* the list: records [pin, description]
  registered,     \* pins serialRegisterStreams has registered, or tried to
  mode,           \* pin.mode of enumeratePins
  report,         \* history: the last report, and how many there were
  reports,
  log,            \* history: the pins that found memory and the descriptions
  places          \* history: where in the log the pins of the list are

reportVars == <<periph_pins, registered, mode, report, reports, log, places>>
allVars    == <<vars, reportVars>>

ReportInit ==
  /\ Init
  /\ periph_pins = <<>> /\ registered = 0 /\ mode = {}
  /\ report = <<>> /\ reports = 0 /\ log = <<>> /\ places = <<>>

Assign == Next /\ UNCHANGED reportVars

-----------------------------------------------------------------------------
(* The list.                                                               *)

\* Mutant: the new pin is linked behind the first.
Linked_AfterFirst(list, pin) ==
  (IF list = <<>> THEN <<>> ELSE <<Head(list)>>) \o <<[pin |-> pin, description |-> None]>>

\* The list with a new pin at its end, not described.
Linked(list, pin) == Append(list, [pin |-> pin, description |-> None])

\* registerPeriphPin: malloc finds memory for the pin, or does not.
registerPeriphPin(pin) ==
  /\ \/ /\ periph_pins' = Linked(periph_pins, pin)
        /\ log' = Append(log, [pin |-> pin, text |-> None])
        /\ places' = Append(places, Len(log'))
     \/ UNCHANGED <<periph_pins, log, places>>
  /\ UNCHANGED <<mode, report, reports, vars>>

streamPins == <<rx0, tx0>>

\* serialRegisterStreams, one of its calls.
serialRegisterStreams ==
  /\ phase = "done" /\ registered < Len(streamPins)
  /\ registered' = registered + 1
  /\ registerPeriphPin(streamPins[registered'])

Started == registered = Len(streamPins)

\* A plugin registers a pin.
RegisterPlugin ==
  /\ Started /\ Len(log) < MaxEvents
  /\ \E pin \in PluginPins : registerPeriphPin(pin)
  /\ UNCHANGED registered

Named(list, function, group) ==
  {n \in DOMAIN list : list[n].pin.function = function /\ list[n].pin.group = group}

\* setPeriphPinDescription: the first pin of that function and group is described.
setPeriphPinDescription ==
  /\ Started /\ Len(log) < MaxEvents
  /\ \E pin \in PluginPins, text \in Descriptions :
       LET found == Named(periph_pins, pin.function, pin.group)
       IN /\ periph_pins' = IF found = {} THEN periph_pins
                            ELSE [periph_pins EXCEPT ![Min(found)].description = text]
          /\ log' = Append(log, [pin |-> pin, text |-> text])
  /\ UNCHANGED <<registered, mode, report, reports, places, vars>>

-----------------------------------------------------------------------------
(* The report.                                                             *)

\* The mode in the first loop, which assigns two bits and leaves the others as the
\* last report has left them.
InputMode == (mode \cup {"input"}) \ {"pwm"}

Reported(function, its) == [function |-> function, mode |-> its, description |-> None]

InputLines  == [n \in Index |-> Reported(id[n], InputMode)]
OutputLines == [n \in DOMAIN Outputs |-> Reported(Outputs[n], {"output"})]

\* A peripheral without a description has the name of its group.
PeriphLines ==
  [n \in DOMAIN periph_pins |->
     LET pin == periph_pins[n].pin IN
     [Reported(pin.function, pin.mode) EXCEPT
        !.description = IF periph_pins[n].description = None THEN pin.group
                        ELSE periph_pins[n].description]]

\* enumeratePins; the number of a line is its place.
enumeratePins ==
  /\ Started /\ reports < MaxReports
  /\ report' = InputLines \o OutputLines \o PeriphLines
  /\ mode' = IF periph_pins # <<>> THEN Last(periph_pins).pin.mode ELSE {"output"}
  /\ reports' = reports + 1
  /\ UNCHANGED <<periph_pins, registered, log, places, vars>>

-----------------------------------------------------------------------------
ReportNext ==
  Assign \/ serialRegisterStreams \/ RegisterPlugin \/ setPeriphPinDescription \/ enumeratePins

ReportSpec == ReportInit /\ [][ReportNext]_allVars

-----------------------------------------------------------------------------
(* Properties.                                                             *)

\* What a plugin expects to read of the pin in place n: the text it gave last, but of
\* two pins with one name only the first can be described.
Expected(n) ==
  LET pin   == log[n].pin
      Same(m) == log[m].pin.function = pin.function /\ log[m].pin.group = pin.group
      texts == {m \in n + 1 .. Len(log) : log[m].text # None /\ Same(m)}
      twin  == \E m \in 1 .. n - 1 : log[m].text = None /\ Same(m)
  IN [function |-> pin.function, mode |-> pin.mode,
      description |-> IF twin \/ texts = {} THEN pin.group ELSE log[Max(texts)].text]

\* Every report ends with all the pins that found memory, in the order of their
\* registration, each with its own mode and the text last given for it, whatever was
\* registered under the same name and whatever earlier reports have left behind.
PinsAsRegistered ==
  [][reports' # reports =>
       SubSeq(report', Len(inputpin) + Len(Outputs) + 1, Len(report'))
         = [k \in DOMAIN places |-> Expected(places[k])]]_allVars

\* An input is reported as an input and nothing else.  The code keeps this for the
\* first report only: mode is not cleared before the first loop.
InputsAreInputs ==
  \A n \in 1 .. Len(inputpin) : n \in DOMAIN report => report[n].mode = {"input"}
=============================================================================
