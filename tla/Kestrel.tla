------------------------------ MODULE Kestrel -------------------------------
(***************************************************************************)
(* The firmware of the kayak's Arduino (kestrel_v2), as operators on the    *)
(* state of its parts.  KayakMotor runs its loop together with iHoverKayak; *)
(* KayakRadio runs what switches the radio.                                *)
(*                                                                         *)
(* Times are ages, the units of time since something happened; they stop    *)
(* once they are past every timeout that reads them.  Thrust is in tenths of *)
(* a percent, angles in degrees.  Lights, counters, readings that are only  *)
(* printed, and the bytes of the lines are left out.                       *)
(***************************************************************************)
EXTENDS Integers, SequencesExt

CONSTANTS
  ConsoleTimeout,    \* 30 seconds
  RcTimeout,         \* half a second
  GumstixTimeout,    \* one second
  Detection,         \* 10 seconds: how long a voltage must stay
  ThrustStep,        \* what a key adds to the thrust, and to the rudder
  RudderStep

ASSUME KestrelParameters ==
  \A n \in {ConsoleTimeout, RcTimeout, GumstixTimeout, Detection, ThrustStep, RudderStep} :
    n \in Nat \ {0}

Never == -1
Thrust == -1000 .. 1000
Angle == -60 .. 60

Constrain(x, low, high) == IF x < low THEN low ELSE IF x > high THEN high ELSE x
Abs(x) == IF x < 0 THEN -x ELSE x

\* An age that has come to `limit' grows no more.
Aged(age, limit) == IF age = Never \/ age >= limit THEN age ELSE age + 1
-----------------------------------------------------------------------------
(* Interface: the console *)

Menu == {"main_menu", "radio_menu", "manual_control", "restart_prompt"}

\* What is typed until the console reads it: a number of a menu, a key of manual
\* control, the whole of "restart", or something else.
Key == {"1", "2", "4", "5", "9", "w", "s", "x", "n", "m", "b", " ", "q", "restart", "other"}

\* last_incoming_time = 0 is as old as a time can be.
Console == [menu : Menu, manual_enabled : BOOLEAN, thrust : Thrust, rudder : Angle,
            incoming : {Never} \cup 0 .. ConsoleTimeout + 1, manual : 0 .. ConsoleTimeout + 1]

InitConsole == [menu |-> "main_menu", manual_enabled |-> FALSE, thrust |-> 0, rudder |-> 0,
                incoming |-> Never, manual |-> 0]

OlderConsole(c) == [c EXCEPT !.incoming = Aged(@, ConsoleTimeout + 1),
                             !.manual = Aged(@, ConsoleTimeout + 1)]

LeaveManual(c) ==
  [c EXCEPT !.menu = "main_menu", !.manual_enabled = FALSE, !.thrust = 0, !.rudder = 0]

ManualTimedOut(c) == c.menu = "manual_control" /\ c.manual > ConsoleTimeout

InputIsIgnored(c) == c.incoming = Never \/ c.incoming > ConsoleTimeout

\* updateManualControls, after a key has changed a control.
Steered(c, thrust, rudder) ==
  [c EXCEPT !.thrust = Constrain(thrust, -1000, 1000), !.rudder = Constrain(rudder, -60, 60),
            !.manual = 0]

HandleManualControl(c, key) ==
  CASE key = "w" -> Steered(c, c.thrust + ThrustStep, c.rudder)
    [] key = "s" -> Steered(c, c.thrust - ThrustStep, c.rudder)
    [] key = "x" -> Steered(c, 0, c.rudder)
    [] key = "n" -> Steered(c, c.thrust, c.rudder - RudderStep)
    [] key = "m" -> Steered(c, c.thrust, c.rudder + RudderStep)
    [] key = "b" -> Steered(c, c.thrust, 0)
    [] key = " " -> Steered(c, c.thrust, c.rudder)
    [] key = "q" -> LeaveManual(c)
    [] OTHER -> c

\* The instructions are printed before the time of the last command is set; printing takes
\* up to a unit of time, by which the last input is then older than the last command.
MainMenuSelect(c, key, printing) ==
  CASE key = "4" -> [c EXCEPT !.menu = "radio_menu"]
    [] key = "5" -> [c EXCEPT !.menu = "manual_control", !.manual_enabled = TRUE,
                              !.thrust = 0, !.rudder = 0, !.manual = 0,
                              !.incoming = IF printing THEN 1 ELSE 0]
    [] key = "9" -> [c EXCEPT !.menu = "restart_prompt"]
    [] OTHER -> c

\* A number selects the radio; any input leads back to the main menu.
HandleRadioMenu(key, radio) ==
  CASE key = "1" -> "bullet" [] key = "2" -> "freewave" [] OTHER -> radio

\* "restart" in one burst pulls the board's reset.  A burst that stops halfway is an
\* "other", although the next one could complete it.
Restarts(c, key) == ~InputIsIgnored(c) /\ c.menu = "restart_prompt" /\ key = "restart"

HandleIncoming(c, key, printing) ==
  IF InputIsIgnored(c) THEN [c EXCEPT !.menu = "main_menu", !.incoming = 0]
  ELSE LET read == [c EXCEPT !.incoming = 0] IN
    CASE c.menu = "main_menu" -> MainMenuSelect(read, key, printing)
      [] c.menu = "manual_control" -> HandleManualControl(read, key)
      [] OTHER -> [read EXCEPT !.menu = "main_menu"]

\* Interface::doWork, when key has been typed or nothing ("").
ConsoleDoWork(c, key, printing) ==
  LET timed == IF ManualTimedOut(c) THEN LeaveManual(c) ELSE c IN
    IF key = "" THEN timed ELSE HandleIncoming(timed, key, printing)
-----------------------------------------------------------------------------
(* SBUS: the remote control *)

\* A frame from the receiver: whether it has contact, and its channels.  The thrust channel is
\* constrained to 1650 but mapped from 1630: a stick can ask for 31 more than full reverse.
Frame == [ok : BOOLEAN, thrust : -1031 .. 1000, rudder : Angle,
          thrust_enable : BOOLEAN, serial_enable : BOOLEAN]

Sbus == [use_rc : BOOLEAN, rc_lost : BOOLEAN, active : 0 .. RcTimeout + 1, frame : Frame]

InitSbus == [use_rc |-> FALSE, rc_lost |-> FALSE, active |-> 0,
             frame |-> [ok |-> FALSE, thrust |-> 0, rudder |-> 0,
                        thrust_enable |-> FALSE, serial_enable |-> FALSE]]

OlderSbus(s) == [s EXCEPT !.active = Aged(@, RcTimeout + 1)]

\* SBUS::doWork, when a frame is complete; nothing is done without one.
SbusFrame(s, frame) ==
  [use_rc |-> frame.ok \/ (s.use_rc /\ s.active <= RcTimeout),
   rc_lost |-> ~frame.ok,
   active |-> IF frame.ok THEN 0 ELSE s.active,
   frame |-> frame]
-----------------------------------------------------------------------------
(* GumstixSerial: the computer *)

\* The computer asks for up to 90 degrees; setAngle has the last word.
MotorCommand == [thrust : Thrust, rudder : -90 .. 90]

Gumstix == [command : MotorCommand, age : 0 .. GumstixTimeout + 1]

InitGumstix == [command |-> [thrust |-> 0, rudder |-> 0], age |-> 0]

OlderGumstix(g) == [g EXCEPT !.age = Aged(@, GumstixTimeout + 1)]

ParseMotorCommand(g, command) == [command |-> command, age |-> 0]

\* Fault: what was commanded once is available for ever.
CommandsAlwaysAvailable(g) == TRUE

\* Available from the start too, before any command: last_command_time is 0.
CommandsAvailable(g) == g.age <= GumstixTimeout
-----------------------------------------------------------------------------
(* Battery *)

\* What the voltage is below and above of: critical_voltage, low_voltage, okay_voltage.
Voltage == {"critical", "low", "between", "okay"}
Limit == {"okay", "low_limit", "crit_limit"}

Battery == [state : Limit, next : Limit \cup {"unset"}, detect : 0 .. Detection + 1]

InitBattery == [state |-> "okay", next |-> "unset", detect |-> 0]

OlderBattery(b) == [b EXCEPT !.detect = Aged(@, Detection + 1)]

ThrustLimit(b) == CASE b.state = "okay" -> 1000
                    [] b.state = "low_limit" -> 400
                    [] b.state = "crit_limit" -> 0

\* The state that a voltage calls for.
CalledFor(state, voltage) ==
  CASE state = "okay" /\ voltage \in {"critical", "low"} -> "low_limit"
    [] state = "low_limit" /\ voltage = "critical" -> "crit_limit"
    [] state = "low_limit" /\ voltage = "okay" -> "okay"
    [] state = "crit_limit" /\ voltage \in {"between", "okay"} -> "low_limit"
    [] OTHER -> "unset"

\* Fault: a detection goes on although the voltage has recovered.
BatteryHoldsOn(b, voltage) ==
  LET next == CalledFor(b.state, voltage) IN
    CASE next = "unset" -> b
      [] next # "unset" /\ b.next # next -> [b EXCEPT !.next = next, !.detect = 0]
      [] OTHER -> IF b.detect > Detection THEN [b EXCEPT !.state = next, !.next = "unset"] ELSE b

\* Battery::doWork
BatteryDoWork(b, voltage) ==
  LET next == CalledFor(b.state, voltage) IN
    CASE next = "unset" -> [b EXCEPT !.next = "unset"]
      [] next # "unset" /\ b.next # next -> [b EXCEPT !.next = next, !.detect = 0]
      [] OTHER -> IF b.detect > Detection THEN [b EXCEPT !.state = next, !.next = "unset"] ELSE b
-----------------------------------------------------------------------------
(* Azimuth: the servo that turns the thruster *)

Azimuth == [current : Angle, estimate : Angle, e_stop_on : BOOLEAN, limit_at_zero : BOOLEAN,
            power_off : BOOLEAN]

InitAzimuth == [current |-> 0, estimate |-> 0, e_stop_on |-> TRUE, limit_at_zero |-> FALSE,
                power_off |-> TRUE]

\* Azimuth::doWork, dt milliseconds after the last time.  The estimate moves by
\* DegPerSec = 60 for each of them.
AzimuthDoWork(a, dt) ==
  [a EXCEPT !.estimate = IF @ < a.current THEN Constrain(@ + 60 * dt, -60, a.current)
                         ELSE Constrain(@ - 60 * dt, a.current, 60)]

SetAngle(a, angle) == [a EXCEPT !.current = Constrain(angle, -60, 60)]

UpdatePower(a) == [a EXCEPT !.power_off = a.e_stop_on \/ a.limit_at_zero]

SetEStop(a, stopped) == UpdatePower([a EXCEPT !.e_stop_on = stopped])
SetThrustLimit(a, limit) == UpdatePower([a EXCEPT !.limit_at_zero = limit = 0])
-----------------------------------------------------------------------------
(* loop: whose commands are carried out *)

Source == {"s_rc", "s_manual", "s_gumstix", "s_no_input"}

CommandSource(c, s, g) ==
  CASE c.manual_enabled -> "s_manual"
    [] ~c.manual_enabled /\ s.use_rc /\ ~s.frame.serial_enable -> "s_rc"
    [] ~c.manual_enabled /\ ~(s.use_rc /\ ~s.frame.serial_enable) /\ CommandsAvailable(g) -> "s_gumstix"
    [] OTHER -> "s_no_input"

Desired(c, s, g) ==
  LET source == CommandSource(c, s, g) IN
    CASE source = "s_manual" -> [thrust |-> c.thrust, rudder |-> c.rudder]
      [] source = "s_rc" -> [thrust |-> IF s.frame.thrust_enable THEN s.frame.thrust ELSE 0,
                             rudder |-> s.frame.rudder]
      [] source = "s_gumstix" -> g.command
      [] OTHER -> [thrust |-> 0, rudder |-> 0]

LimitStartAngle == 30
TurnLimit(a) == (Abs(a.estimate) - LimitStartAngle) * 15

\* Fault: limited for the turn first, then for the battery, by assignment.
LimitedForTurnOnly(thrust, b, a) ==
  IF Abs(a.estimate) >= LimitStartAngle
  THEN Constrain(thrust, TurnLimit(a) - 1000, 1000 - TurnLimit(a))
  ELSE Constrain(thrust, -ThrustLimit(b), ThrustLimit(b))

\* Limited for the battery, then for the angle.
Limited(thrust, b, a) ==
  LET low == Constrain(thrust, -ThrustLimit(b), ThrustLimit(b)) IN
    IF Abs(a.estimate) >= LimitStartAngle
    THEN Constrain(low, TurnLimit(a) - 1000, 1000 - TurnLimit(a)) ELSE low
=============================================================================
