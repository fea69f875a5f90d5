----------------------------- MODULE KayakMotor -----------------------------
(***************************************************************************)
(* The kayak's propulsion: iHoverKayak passes the autonomy's commands to    *)
(* the Arduino, whose loop chooses among the console, the remote control    *)
(* and the computer, and limits what comes out.                            *)
(*                                                                         *)
(* The Arduino's loop runs at least once in every unit of time; iHoverKayak *)
(* may hang or die at any moment.  A line between them may be garbled.     *)
(***************************************************************************)
EXTENDS Kestrel

CONSTANTS
  CommandExpiry,     \* 5 seconds
  RUDDER_OFFSET, INVERT_RUDDER,
  Thrusts, Rudders,  \* what the autonomy asks for, in percent and degrees
  Frames,            \* what the remote control sends
  Keys,              \* what is typed at the console
  MaxEvents          \* bound: inputs of all kinds together

ASSUME MotorParameters ==
  /\ CommandExpiry \in Nat \ {0} /\ MaxEvents \in Nat
  /\ RUDDER_OFFSET \in Int /\ INVERT_RUDDER \in BOOLEAN
  /\ Thrusts \subseteq Int /\ Rudders \subseteq Int
  /\ Frames \subseteq Frame /\ Keys \subseteq Key

VARIABLES
  console, sbus, gumstix, battery, azimuth,   \* the parts of the firmware
  motor,       \* what loop chose last: the source, and the thrust for the motor
  sensed,      \* what the motor controller reports: voltage and stop switch
  kayak,       \* iHoverKayak: the command, and its age
  line,        \* the last motor command on its way to the Arduino, if any
  ran,         \* loop has run in this unit of time
  events,      \* how much of the bound is used up
  history      \* what properties refer to, no handler reads it

motorVars ==
  <<console, sbus, gumstix, battery, azimuth, motor, sensed, kayak, line, ran, events, history>>

firmware == <<console, sbus, gumstix, battery, azimuth, motor>>

\* The voltages that are a reason to change the limit.
Reasons == [below_low |-> {"critical", "low"}, below_critical |-> {"critical"},
            above_okay |-> {"okay"}, above_low |-> {"between", "okay"}]

\* Since when the autonomy has been silent, and since when a reason holds.
SilenceCap == CommandExpiry + GumstixTimeout + 3

MotorInit ==
  /\ console = InitConsole /\ sbus = InitSbus /\ gumstix = InitGumstix
  /\ battery = InitBattery /\ azimuth = InitAzimuth
  /\ motor = [source |-> "s_no_input", power |-> 0]
  /\ sensed = [voltage |-> "okay", stop |-> TRUE]
  /\ kayak = [thrust |-> 0, rudder |-> 0, age |-> 0]
  /\ line = {}
  /\ ran = FALSE
  /\ events = 0
  /\ history = [silence |-> 0, since |-> [r \in DOMAIN Reasons |-> 0]]

Happens == events < MaxEvents /\ events' = events + 1
-----------------------------------------------------------------------------
(* iHoverKayak *)

\* Fault: not limited.
MapThrustFreely(thrust) == thrust

MapThrust(thrust) == Constrain(thrust, -100, 100)

MapRudder(rudder) ==
  Constrain((rudder + RUDDER_OFFSET) * (IF INVERT_RUDDER THEN -1 ELSE 1), -90, 90)

\* DESIRED_THRUST, DESIRED_RUDDER: either renews the time of both.
OnDesired(desired) ==
  /\ Happens
  /\ kayak' = desired
  /\ history' = [history EXCEPT !.silence = 0]
  /\ UNCHANGED <<firmware, sensed, line, ran>>

OnDesiredThrust(thrust) == OnDesired([kayak EXCEPT !.thrust = MapThrust(thrust), !.age = 0])
OnDesiredRudder(rudder) == OnDesired([kayak EXCEPT !.rudder = MapRudder(rudder), !.age = 0])

\* Commands expire.
Expired(k) == IF k.age > CommandExpiry THEN [k EXCEPT !.thrust = 0, !.rudder = 0] ELSE k

\* Iterate: an earlier line that the Arduino has not read is followed by this one.
KayakIterates ==
  /\ kayak' = Expired(kayak)
  /\ line' = {[thrust |-> kayak'.thrust * 10, rudder |-> kayak'.rudder]}
  /\ UNCHANGED <<firmware, sensed, ran, events, history>>
-----------------------------------------------------------------------------
(* The motor controller reports *)

Sense(voltage, stop) ==
  /\ Happens
  /\ voltage = sensed.voltage \/ stop = sensed.stop
  /\ sensed' = [voltage |-> voltage, stop |-> stop]
  /\ UNCHANGED <<firmware, kayak, line, ran, history>>
-----------------------------------------------------------------------------
(* The firmware *)

\* loop, with what was typed, the frame that is complete, the command that was parsed,
\* and dt for the servo.
Loop(typed, frames, parsed, printing, dt) ==
  LET c == ConsoleDoWork(console, typed, printing)
      s == IF frames = {} THEN sbus ELSE SbusFrame(sbus, CHOOSE f \in frames : TRUE)
      g == IF parsed = {} THEN gumstix ELSE ParseMotorCommand(gumstix, CHOOSE m \in parsed : TRUE)
      b == BatteryDoWork(battery, sensed.voltage)
      a == SetThrustLimit(SetEStop(AzimuthDoWork(azimuth, dt), sensed.stop), ThrustLimit(b))
      desired == Desired(c, s, g)
  IN /\ IF typed = "" /\ frames = {} THEN UNCHANGED events ELSE Happens
     /\ ~Restarts(console, typed)
     /\ console' = c /\ sbus' = s /\ gumstix' = g /\ battery' = b
     /\ azimuth' = SetAngle(a, desired.rudder)
     /\ motor' = [source |-> CommandSource(c, s, g), power |-> Limited(desired.thrust, b, a)]
     /\ line' = {} /\ ran' = TRUE
     /\ history' = [history EXCEPT !.since =
                      [r \in DOMAIN Reasons |-> IF sensed.voltage \in Reasons[r] THEN @[r] ELSE 0]]
     /\ UNCHANGED <<sensed, kayak>>

\* The console's restart: setup, and everything begins anew.
Restart(typed) ==
  /\ Restarts(console, typed)
  /\ Happens
  /\ console' = InitConsole /\ sbus' = InitSbus /\ gumstix' = InitGumstix
  /\ battery' = InitBattery /\ azimuth' = InitAzimuth
  /\ motor' = [source |-> "s_no_input", power |-> 0]
  /\ line' = {} /\ ran' = TRUE
  /\ UNCHANGED <<sensed, kayak, history>>

MotorTick ==
  /\ ran
  /\ ran' = FALSE
  /\ console' = OlderConsole(console) /\ sbus' = OlderSbus(sbus)
  /\ gumstix' = OlderGumstix(gumstix) /\ battery' = OlderBattery(battery)
  /\ kayak' = [kayak EXCEPT !.age = Aged(@, CommandExpiry + 1)]
  /\ history' = [silence |-> Aged(history.silence, SilenceCap),
                 since |-> [r \in DOMAIN Reasons |-> Aged(history.since[r], Detection + 1)]]
  /\ UNCHANGED <<azimuth, motor, sensed, line, events>>

MotorNext ==
  \/ \E thrust \in Thrusts : OnDesiredThrust(thrust)
  \/ \E rudder \in Rudders : OnDesiredRudder(rudder)
  \/ KayakIterates
  \/ \E voltage \in Voltage, stop \in BOOLEAN : Sense(voltage, stop)
  \/ \E parsed \in {{}, line}, dt \in {1, 2} :
       \/ Loop("", {}, parsed, FALSE, dt)
       \/ \E frame \in Frames : Loop("", {frame}, parsed, FALSE, dt)
       \/ \E typed \in Keys, printing \in BOOLEAN : Loop(typed, {}, parsed, printing, dt)
  \/ \E typed \in Keys : Restart(typed)
  \/ MotorTick

MotorSpec == MotorInit /\ [][MotorNext]_motorVars
-----------------------------------------------------------------------------
(* Properties *)

\* The state keeps its shape.
MotorTypeOK ==
  /\ console \in Console /\ sbus \in Sbus /\ gumstix \in Gumstix
  /\ battery \in Battery /\ azimuth \in Azimuth
  /\ motor \in [source : Source, power : Thrust]
  /\ sensed \in [voltage : Voltage, stop : BOOLEAN]
  /\ kayak \in [thrust : -100 .. 100, rudder : -90 .. 90, age : 0 .. CommandExpiry + 1]
  /\ line \subseteq MotorCommand
  /\ ran \in BOOLEAN /\ events \in 0 .. MaxEvents

\* When the autonomy falls silent the motor stops, although iHoverKayak or the line fail:
\* the commands expire in one program, and the lack of commands is noticed in the other.
SilenceStops ==
  history.silence > CommandExpiry + GumstixTimeout + 2 /\ motor.source = "s_gumstix" =>
    motor.power = 0

\* The thrust respects the battery and the angle of the thruster, whoever commands, and
\* the servo has power only if neither the stop switch nor the battery forbids it.
WithinLimits ==
  /\ Abs(motor.power) <= ThrustLimit(battery)
  /\ Abs(azimuth.estimate) >= LimitStartAngle => Abs(motor.power) <= 1000 - TurnLimit(azimuth)
  /\ battery.state = "crit_limit" \/ azimuth.e_stop_on => azimuth.power_off

\* The limit changes only for a reason that all readings of the last seconds gave.
LimitIsSustained ==
  [][battery'.state # battery.state /\ ~(battery' = InitBattery) =>
       \E r \in DOMAIN Reasons :
         /\ history.since[r] > Detection
         /\ \A v \in Reasons[r] : CalledFor(battery.state, v) = battery'.state]_motorVars

\* Manual control ends when nothing is done for 30 seconds.
ManualTimesOut == ran /\ motor.source = "s_manual" => console.manual <= ConsoleTimeout
=============================================================================
