----------------------------- MODULE KayakProofs -----------------------------
(***************************************************************************)
(* What KayakMotor and KayakRadio promise, for all timeouts, steps, frames, *)
(* lags and bounds.                                                        *)
(*                                                                         *)
(* The parts of the firmware keep their types (the lemmas on Kestrel's      *)
(* operators); from that, each property of the motor has an inductive       *)
(* invariant of its own: the limits hold as they stand, silence is followed *)
(* from iHoverKayak through the line and the Arduino to the motor, and a    *)
(* limit's detection is never older than the reason for it.  The switch     *)
(* between the radios comes after: every interleaving of the threads, any   *)
(* number of switches, any lag of the serial thread.                       *)
(***************************************************************************)
EXTENDS KayakMotor, KayakRadio, TLAPS

-----------------------------------------------------------------------------
(* The operators of the firmware *)

\* An age grows by one, or stays at its limit.
LEMMA AgedType ==
  ASSUME NEW limit \in Nat, NEW age \in 0 .. limit
  PROVE  /\ Aged(age, limit) \in 0 .. limit
         /\ Aged(age, limit) = IF age = limit THEN age ELSE age + 1
BY DEF Aged, Never

LEMMA ConstrainType ==
  ASSUME NEW low \in Int, NEW high \in Int, low <= high, NEW x \in Int
  PROVE  Constrain(x, low, high) \in low .. high
BY DEF Constrain

\* What the handlers assign to the fields.
LEMMA FieldValues ==
  /\ 0 \in Thrust /\ 0 \in Angle /\ Menu # {}
  /\ "main_menu" \in Menu /\ "radio_menu" \in Menu
  /\ "manual_control" \in Menu /\ "restart_prompt" \in Menu
  /\ 0 \in {Never} \cup 0 .. ConsoleTimeout + 1 /\ 1 \in {Never} \cup 0 .. ConsoleTimeout + 1
  /\ 0 \in 0 .. ConsoleTimeout + 1 /\ 0 \in 0 .. RcTimeout + 1
  /\ 0 \in 0 .. GumstixTimeout + 1 /\ 0 \in 0 .. Detection + 1
BY KestrelParameters DEF Thrust, Angle, Menu

LEMMA Numbers ==
  \A x : x \in Thrust \/ x \in Angle \/ x \in -90 .. 90 \/ x \in -1031 .. 1000 => x \in Int
BY DEF Thrust, Angle

LEMMA CountedType ==
  ASSUME NEW max \in Nat, NEW n \in 0 .. max, NEW m, m = n \/ (n < max /\ m = n + 1)
  PROVE  m \in 0 .. max
OBVIOUS

LEMMA ChosenFromSet ==
  ASSUME NEW S, S # {}
  PROVE  (CHOOSE x \in S : TRUE) \in S
OBVIOUS

LEMMA InitialTypes ==
  /\ InitConsole \in Console /\ InitSbus \in Sbus /\ InitGumstix \in Gumstix
  /\ InitBattery \in Battery /\ InitAzimuth \in Azimuth
<1> USE KestrelParameters
<1>1. InitConsole \in Console
  BY DEF InitConsole, Console, Menu, Thrust, Angle
<1>2. InitSbus \in Sbus
  BY DEF InitSbus, Sbus, Frame, Angle
<1>3. InitGumstix \in Gumstix
  BY DEF InitGumstix, Gumstix, MotorCommand, Thrust
<1>4. InitBattery \in Battery
  BY DEF InitBattery, Battery, Limit
<1>5. InitAzimuth \in Azimuth
  BY DEF InitAzimuth, Azimuth, Angle
<1> QED BY <1>1, <1>2, <1>3, <1>4, <1>5

LEMMA LeaveManualType ==
  ASSUME NEW c \in Console
  PROVE  LeaveManual(c) \in Console
BY FieldValues DEF LeaveManual, Console

LEMMA SteeredType ==
  ASSUME NEW c \in Console, NEW thrust \in Int, NEW rudder \in Int
  PROVE  Steered(c, thrust, rudder) \in Console
<1> DEFINE t == Constrain(thrust, -1000, 1000)
           r == Constrain(rudder, -60, 60)
<1>1. t \in Thrust /\ r \in Angle
  BY DEF Constrain, Thrust, Angle
<1>2. Steered(c, thrust, rudder) = [c EXCEPT !.thrust = t, !.rudder = r, !.manual = 0]
  BY DEF Steered
<1> HIDE DEF t, r
<1> QED BY <1>1, <1>2, FieldValues DEF Console

LEMMA HandleManualControlType ==
  ASSUME NEW c \in Console, NEW key \in Key
  PROVE  HandleManualControl(c, key) \in Console
<1>1. c.thrust \in Thrust /\ c.rudder \in Angle
  BY DEF Console
<1>4. c.thrust \in Int /\ c.rudder \in Int
  BY <1>1, Numbers
<1>2. /\ 0 \in Int /\ c.thrust \in Int /\ c.rudder \in Int
      /\ c.thrust + ThrustStep \in Int /\ c.thrust - ThrustStep \in Int
      /\ c.rudder + RudderStep \in Int /\ c.rudder - RudderStep \in Int
  BY <1>4, KestrelParameters
<1>3. /\ LeaveManual(c) \in Console
      /\ \A thrust, rudder \in Int : Steered(c, thrust, rudder) \in Console
  BY SteeredType, LeaveManualType
<1> QED BY <1>2, <1>3 DEF HandleManualControl

LEMMA MainMenuSelectType ==
  ASSUME NEW c \in Console, NEW key \in Key, NEW printing \in BOOLEAN
  PROVE  MainMenuSelect(c, key, printing) \in Console
BY FieldValues DEF MainMenuSelect, Console

LEMMA HandleIncomingType ==
  ASSUME NEW c \in Console, NEW key \in Key, NEW printing \in BOOLEAN
  PROVE  HandleIncoming(c, key, printing) \in Console
<1> DEFINE read == [c EXCEPT !.incoming = 0]
<1>1. read \in Console /\ [read EXCEPT !.menu = "main_menu"] \in Console
  BY FieldValues DEF Console
<1>2. [c EXCEPT !.menu = "main_menu", !.incoming = 0] \in Console
  BY FieldValues DEF Console
<1> QED BY <1>1, <1>2, MainMenuSelectType, HandleManualControlType, Zenon DEF HandleIncoming

\* What the console finds: a key, or nothing.
Typing == Key \cup {""}

LEMMA ConsoleDoWorkType ==
  ASSUME NEW c \in Console, NEW key \in Typing, NEW printing \in BOOLEAN
  PROVE  ConsoleDoWork(c, key, printing) \in Console
<1>1. (IF ManualTimedOut(c) THEN LeaveManual(c) ELSE c) \in Console
  BY LeaveManualType, Zenon
<1> QED BY <1>1, HandleIncomingType, Zenon DEF ConsoleDoWork, Typing

LEMMA SbusFrameType ==
  ASSUME NEW s \in Sbus, NEW frame \in Frame
  PROVE  SbusFrame(s, frame) \in Sbus
BY KestrelParameters DEF SbusFrame, Sbus, Frame

LEMMA ParseMotorCommandType ==
  ASSUME NEW g \in Gumstix, NEW command \in MotorCommand
  PROVE  ParseMotorCommand(g, command) \in Gumstix
BY KestrelParameters DEF ParseMotorCommand, Gumstix

LEMMA CalledForType ==
  ASSUME NEW state \in Limit, NEW voltage \in Voltage
  PROVE  CalledFor(state, voltage) \in Limit \cup {"unset"}
BY DEF CalledFor, Limit

LEMMA BatteryDoWorkType ==
  ASSUME NEW b \in Battery, NEW voltage \in Voltage
  PROVE  BatteryDoWork(b, voltage) \in Battery
<1> DEFINE next == CalledFor(b.state, voltage)
<1>1. b.state \in Limit
  BY DEF Battery
<1>2. next \in Limit \cup {"unset"}
  BY <1>1, CalledForType
<1> HIDE DEF next
<1>3. /\ [b EXCEPT !.next = "unset"] \in Battery
      /\ [b EXCEPT !.next = next, !.detect = 0] \in Battery
      /\ next # "unset" => [b EXCEPT !.state = next, !.next = "unset"] \in Battery
  BY <1>1, <1>2, FieldValues DEF Battery
<1> QED BY <1>3, Zenon DEF BatteryDoWork, next

LEMMA ThrustLimitType ==
  ASSUME NEW b \in Battery
  PROVE  ThrustLimit(b) \in 0 .. 1000 /\ ThrustLimit(b) \in Nat
<1>1. b.state \in Limit
  BY DEF Battery
<1> QED BY <1>1 DEF ThrustLimit, Limit

LEMMA AzimuthDoWorkType ==
  ASSUME NEW a \in Azimuth, NEW dt \in Nat
  PROVE  AzimuthDoWork(a, dt) \in Azimuth
<1>1. a.current \in Angle /\ a.estimate \in Angle
  BY DEF Azimuth
<1>2. a.estimate + 60 * dt \in Int /\ a.estimate - 60 * dt \in Int
  BY <1>1 DEF Angle
<1> DEFINE up == a.estimate + 60 * dt
           down == a.estimate - 60 * dt
<1> HIDE DEF up, down
<1>3. up \in Int /\ down \in Int
  BY <1>2 DEF up, down
<1>4. Constrain(up, -60, a.current) \in Angle /\ Constrain(down, a.current, 60) \in Angle
  BY <1>1, <1>3 DEF Constrain, Angle
<1>5. AzimuthDoWork(a, dt) =
        [a EXCEPT !.estimate = IF a.estimate < a.current THEN Constrain(up, -60, a.current)
                               ELSE Constrain(down, a.current, 60)]
  BY DEF AzimuthDoWork, up, down
<1> QED BY <1>4, <1>5 DEF Azimuth

\* Whatever the stop switch and the limit: the type, the estimate, and when the power is off.
LEMMA ServoPower ==
  ASSUME NEW a \in Azimuth, NEW stopped \in BOOLEAN, NEW limit \in Nat
  PROVE  LET s == SetThrustLimit(SetEStop(a, stopped), limit) IN
           /\ s \in Azimuth
           /\ s.estimate = a.estimate
           /\ s.e_stop_on = stopped
           /\ s.power_off = (stopped \/ limit = 0)
<1> DEFINE stop == SetEStop(a, stopped)
<1>1. /\ stop \in Azimuth /\ stop.estimate = a.estimate /\ stop.e_stop_on = stopped
  BY DEF SetEStop, UpdatePower, Azimuth
<1> HIDE DEF stop
<1> DEFINE both == [stop EXCEPT !.limit_at_zero = limit = 0]
<1>2. /\ both \in Azimuth /\ both.estimate = a.estimate /\ both.e_stop_on = stopped
      /\ both.limit_at_zero = (limit = 0)
  BY <1>1 DEF Azimuth
<1> HIDE DEF both
<1>3. /\ UpdatePower(both) \in Azimuth /\ UpdatePower(both).estimate = a.estimate
      /\ UpdatePower(both).e_stop_on = stopped
      /\ UpdatePower(both).power_off = (stopped \/ limit = 0)
  BY <1>2 DEF UpdatePower, Azimuth
<1> QED BY <1>3, Zenon DEF both, stop, SetThrustLimit

LEMMA SetAngleType ==
  ASSUME NEW a \in Azimuth, NEW angle \in Int
  PROVE  /\ SetAngle(a, angle) \in Azimuth
         /\ SetAngle(a, angle).estimate = a.estimate
         /\ SetAngle(a, angle).e_stop_on = a.e_stop_on
         /\ SetAngle(a, angle).power_off = a.power_off
<1>1. Constrain(angle, -60, 60) \in Angle
  BY DEF Constrain, Angle
<1> QED BY <1>1 DEF SetAngle, Azimuth

\* Whoever commands, loop gets a thrust and an angle; without commands the thrust is 0, and
\* the computer commands only while its last command is not too old.
LEMMA DesiredType ==
  ASSUME NEW c \in Console, NEW s \in Sbus, NEW g \in Gumstix
  PROVE  /\ CommandSource(c, s, g) \in Source
         /\ Desired(c, s, g).thrust \in Int /\ Desired(c, s, g).rudder \in Int
         /\ CommandSource(c, s, g) = "s_gumstix" =>
              CommandsAvailable(g) /\ Desired(c, s, g).thrust = g.command.thrust
<1>0. /\ c.thrust \in Thrust /\ c.rudder \in Angle
      /\ s.frame.thrust \in -1031 .. 1000 /\ s.frame.rudder \in Angle
      /\ g.command.thrust \in Thrust /\ g.command.rudder \in -90 .. 90
  BY DEF Console, Sbus, Frame, Gumstix, MotorCommand
<1>1. /\ c.thrust \in Int /\ c.rudder \in Int
      /\ s.frame.thrust \in Int /\ s.frame.rudder \in Int
      /\ g.command.thrust \in Int /\ g.command.rudder \in Int
  BY <1>0, Numbers
<1>2. CommandSource(c, s, g) \in Source
  BY DEF CommandSource, Source
<1>3. CommandSource(c, s, g) = "s_gumstix" => CommandsAvailable(g) /\ Desired(c, s, g) = g.command
  BY DEF CommandSource, Desired
<1>4. CASE CommandSource(c, s, g) = "s_manual"
  BY <1>1, <1>2, <1>4 DEF Desired
<1>5. CASE CommandSource(c, s, g) = "s_rc"
  BY <1>1, <1>2, <1>5 DEF Desired
<1>6. CASE CommandSource(c, s, g) = "s_gumstix"
  BY <1>1, <1>2, <1>3, <1>6
<1>7. CASE CommandSource(c, s, g) = "s_no_input"
  BY <1>2, <1>7 DEF Desired
<1> QED BY <1>2, <1>4, <1>5, <1>6, <1>7 DEF Source

\* The limits hold together: limiting for the turn never raises what the battery allows.
LEMMA LimitedWithin ==
  ASSUME NEW thrust \in Int, NEW b \in Battery, NEW a \in Azimuth
  PROVE  /\ Limited(thrust, b, a) \in Thrust
         /\ Abs(Limited(thrust, b, a)) <= ThrustLimit(b)
         /\ Abs(a.estimate) >= LimitStartAngle =>
              Abs(Limited(thrust, b, a)) <= 1000 - TurnLimit(a)
         /\ thrust = 0 => Limited(thrust, b, a) = 0
<1> DEFINE limit == ThrustLimit(b)
           turn == TurnLimit(a)
<1>1. limit \in 0 .. 1000
  BY ThrustLimitType
<1>2. a.estimate \in -60 .. 60
  BY DEF Azimuth, Angle
<1>3. Abs(a.estimate) >= LimitStartAngle => turn \in 0 .. 450
  BY <1>2 DEF TurnLimit, Abs, LimitStartAngle
<1>4. Limited(thrust, b, a) =
        LET low == Constrain(thrust, -limit, limit) IN
          IF Abs(a.estimate) >= LimitStartAngle THEN Constrain(low, turn - 1000, 1000 - turn)
          ELSE low
  BY DEF Limited
<1> HIDE DEF limit, turn
<1>5. /\ Limited(thrust, b, a) \in Thrust
      /\ Abs(Limited(thrust, b, a)) <= limit
      /\ Abs(a.estimate) >= LimitStartAngle => Abs(Limited(thrust, b, a)) <= 1000 - turn
      /\ thrust = 0 => Limited(thrust, b, a) = 0
  <2>1. CASE Abs(a.estimate) >= LimitStartAngle
    <3> DEFINE low == Constrain(thrust, -limit, limit)
    <3>1. low \in -limit .. limit /\ (thrust = 0 => low = 0)
      BY <1>1 DEF Constrain
    <3>2. Limited(thrust, b, a) = Constrain(low, turn - 1000, 1000 - turn)
      BY <1>4, <2>1
    <3> HIDE DEF low
    <3>3. turn \in 0 .. 450
      BY <1>3, <2>1
    <3> QED BY <1>1, <3>1, <3>2, <3>3 DEF Constrain, Abs, Thrust
  <2>2. CASE ~(Abs(a.estimate) >= LimitStartAngle)
    BY <1>1, <1>4, <2>2 DEF Constrain, Abs, Thrust
  <2> QED BY <2>1, <2>2
<1> QED BY <1>5 DEF limit, turn

TurnCap(a) == 1000 - TurnLimit(a)

LEMMA LimitedForTurn ==
  ASSUME NEW thrust \in Int, NEW b \in Battery, NEW a \in Azimuth,
         Abs(a.estimate) >= LimitStartAngle
  PROVE  Abs(Limited(thrust, b, a)) <= TurnCap(a)
BY LimitedWithin DEF TurnCap

LEMMA NothingStaysNothing ==
  ASSUME NEW b \in Battery, NEW a \in Azimuth
  PROVE  Limited(0, b, a) = 0
BY LimitedWithin
-----------------------------------------------------------------------------
(* Types *)

LEMMA MapThrustType ==
  ASSUME NEW thrust \in Int
  PROVE  MapThrust(thrust) \in -100 .. 100
BY DEF MapThrust, Constrain

LEMMA MapRudderType ==
  ASSUME NEW rudder \in Int
  PROVE  MapRudder(rudder) \in -90 .. 90
<1> DEFINE turned == (rudder + RUDDER_OFFSET) * (IF INVERT_RUDDER THEN -1 ELSE 1)
<1>1. turned \in Int
  BY MotorParameters
<1> HIDE DEF turned
<1>2. Constrain(turned, -90, 90) \in -90 .. 90
  BY <1>1 DEF Constrain
<1> QED BY <1>2 DEF MapRudder, turned

KayakState == [thrust : -100 .. 100, rudder : -90 .. 90, age : 0 .. CommandExpiry + 1]

History == [silence : 0 .. SilenceCap, since : [DOMAIN Reasons -> 0 .. Detection + 1]]

\* The types of the state and of what the properties remember.
Typed == MotorTypeOK /\ history \in History

LEMMA ExpiredType ==
  ASSUME NEW k \in KayakState
  PROVE  /\ Expired(k) \in KayakState /\ Expired(k).age = k.age
         /\ Expired(k).thrust # 0 => k.age <= CommandExpiry
<1>1. 0 \in -100 .. 100 /\ 0 \in -90 .. 90 /\ k.age \in Nat
  BY MotorParameters DEF KayakState
<1>2. CASE k.age > CommandExpiry
  <2>1. Expired(k) = [k EXCEPT !.thrust = 0, !.rudder = 0]
    BY <1>2 DEF Expired
  <2> QED BY <1>1, <2>1 DEF KayakState
<1>3. CASE ~(k.age > CommandExpiry)
  BY <1>1, <1>3, MotorParameters DEF Expired
<1> QED BY <1>2, <1>3

\* What loop makes of the parts of the firmware.
LoopSbus(frames) == IF frames = {} THEN sbus ELSE SbusFrame(sbus, CHOOSE f \in frames : TRUE)
LoopGumstix(parsed) ==
  IF parsed = {} THEN gumstix ELSE ParseMotorCommand(gumstix, CHOOSE m \in parsed : TRUE)
LoopBattery == BatteryDoWork(battery, sensed.voltage)
LoopAzimuth(dt) ==
  SetThrustLimit(SetEStop(AzimuthDoWork(azimuth, dt), sensed.stop), ThrustLimit(LoopBattery))

LEMMA LoopTypes ==
  ASSUME Typed, NEW typed \in Typing, NEW frames \in SUBSET Frame,
         NEW parsed \in SUBSET line, NEW printing \in BOOLEAN, NEW dt \in Nat
  PROVE  /\ ConsoleDoWork(console, typed, printing) \in Console
         /\ LoopSbus(frames) \in Sbus
         /\ LoopGumstix(parsed) \in Gumstix
         /\ LoopBattery \in Battery
         /\ LoopAzimuth(dt) \in Azimuth
         /\ LoopAzimuth(dt).e_stop_on = sensed.stop
         /\ LoopAzimuth(dt).power_off = (sensed.stop \/ ThrustLimit(LoopBattery) = 0)
<1>0. /\ console \in Console /\ sbus \in Sbus /\ gumstix \in Gumstix /\ battery \in Battery
      /\ azimuth \in Azimuth /\ line \subseteq MotorCommand
      /\ sensed.voltage \in Voltage /\ sensed.stop \in BOOLEAN
  BY DEF Typed, MotorTypeOK
<1>1. ConsoleDoWork(console, typed, printing) \in Console
  BY <1>0, ConsoleDoWorkType
<1>2. LoopSbus(frames) \in Sbus
  <2>1. frames # {} => (CHOOSE f \in frames : TRUE) \in Frame
    BY ChosenFromSet
  <2> QED BY <1>0, <2>1, SbusFrameType DEF LoopSbus
<1>3. LoopGumstix(parsed) \in Gumstix
  <2>1. parsed # {} => (CHOOSE m \in parsed : TRUE) \in MotorCommand
    BY <1>0, ChosenFromSet
  <2> QED BY <1>0, <2>1, ParseMotorCommandType DEF LoopGumstix
<1>4. LoopBattery \in Battery
  BY <1>0, BatteryDoWorkType DEF LoopBattery
<1>5. ThrustLimit(LoopBattery) \in Nat
  BY <1>4, ThrustLimitType
<1>6. AzimuthDoWork(azimuth, dt) \in Azimuth
  BY <1>0, AzimuthDoWorkType
<1>7. /\ LoopAzimuth(dt) \in Azimuth
      /\ LoopAzimuth(dt).e_stop_on = sensed.stop
      /\ LoopAzimuth(dt).power_off = (sensed.stop \/ ThrustLimit(LoopBattery) = 0)
  BY <1>0, <1>5, <1>6, ServoPower, Zenon DEF LoopAzimuth
<1> QED BY <1>1, <1>2, <1>3, <1>4, <1>7, Zenon

\* What a run of loop does, in these terms.
LEMMA LoopEffect ==
  ASSUME Typed, NEW typed \in Typing, NEW frames \in SUBSET Frame,
         NEW parsed \in SUBSET line, NEW printing \in BOOLEAN, NEW dt \in Nat,
         Loop(typed, frames, parsed, printing, dt)
  PROVE  LET c == ConsoleDoWork(console, typed, printing)
             desired == Desired(c, LoopSbus(frames), LoopGumstix(parsed))
         IN /\ console' = c /\ sbus' = LoopSbus(frames) /\ gumstix' = LoopGumstix(parsed)
            /\ battery' = LoopBattery
            /\ azimuth' = SetAngle(LoopAzimuth(dt), desired.rudder)
            /\ motor' = [source |-> CommandSource(c, LoopSbus(frames), LoopGumstix(parsed)),
                         power |-> Limited(desired.thrust, LoopBattery, LoopAzimuth(dt))]
            /\ events' = events \/ (events < MaxEvents /\ events' = events + 1)
            /\ line' = {} /\ ran' = TRUE /\ sensed' = sensed /\ kayak' = kayak
            /\ history' = [history EXCEPT !.since =
                  [r \in DOMAIN Reasons |-> IF sensed.voltage \in Reasons[r] THEN @[r] ELSE 0]]
BY Zenon DEF Loop, Happens, LoopSbus, LoopGumstix, LoopBattery, LoopAzimuth

\* Init and the handlers of iHoverKayak.
LEMMA TypedInit == MotorInit => Typed
<1> SUFFICES ASSUME MotorInit PROVE Typed
  OBVIOUS
<1> USE DEF MotorInit
<1>1. /\ console \in Console /\ sbus \in Sbus /\ gumstix \in Gumstix
      /\ battery \in Battery /\ azimuth \in Azimuth
  BY InitialTypes
<1>2. "s_no_input" \in Source /\ 0 \in Thrust /\ "okay" \in Voltage
  BY FieldValues DEF Source, Voltage
<1>3. motor \in [source : Source, power : Thrust] /\ sensed \in [voltage : Voltage, stop : BOOLEAN]
  BY <1>2
<1>4. 0 \in -100 .. 100 /\ 0 \in -90 .. 90 /\ 0 \in 0 .. CommandExpiry + 1
  BY MotorParameters
<1>5. kayak \in [thrust : -100 .. 100, rudder : -90 .. 90, age : 0 .. CommandExpiry + 1]
  BY <1>4
<1>9. MaxEvents \in Nat
  BY MotorParameters
<1>6. line \subseteq MotorCommand /\ ran \in BOOLEAN
  BY Zenon
<1>10. events \in 0 .. MaxEvents
  BY <1>9
<1>7. 0 \in 0 .. SilenceCap /\ 0 \in 0 .. Detection + 1
  BY MotorParameters, KestrelParameters DEF SilenceCap
<1>8. history \in History
  BY <1>7 DEF History
<1> QED BY <1>1, <1>3, <1>5, <1>6, <1>8, <1>10, Zenon DEF Typed, MotorTypeOK

LEMMA TypedOnDesired ==
  ASSUME Typed, NEW desired \in KayakState, OnDesired(desired)
  PROVE  Typed'
<1> USE DEF Typed, MotorTypeOK, OnDesired, Happens, firmware
<1>1. kayak' \in [thrust : -100 .. 100, rudder : -90 .. 90, age : 0 .. CommandExpiry + 1]
  BY DEF KayakState
<1>2. events' \in 0 .. MaxEvents
  BY MotorParameters
<1>3. 0 \in 0 .. SilenceCap
  BY MotorParameters, KestrelParameters DEF SilenceCap
<1>4. history' \in History
  BY <1>3 DEF History
<1> QED BY <1>1, <1>2, <1>4

LEMMA TypedKayak ==
  ASSUME Typed,
         \/ \E thrust \in Thrusts : OnDesiredThrust(thrust)
         \/ \E rudder \in Rudders : OnDesiredRudder(rudder)
         \/ KayakIterates
  PROVE  Typed'
<1>1. kayak \in KayakState /\ 0 \in 0 .. CommandExpiry + 1
  BY MotorParameters DEF Typed, MotorTypeOK, KayakState
<1>2. ASSUME NEW thrust \in Thrusts, OnDesiredThrust(thrust)
      PROVE  Typed'
  <2>1. MapThrust(thrust) \in -100 .. 100
    BY MotorParameters, MapThrustType
  <2>2. [kayak EXCEPT !.thrust = MapThrust(thrust), !.age = 0] \in KayakState
    BY <1>1, <2>1 DEF KayakState
  <2> QED BY <1>2, <2>2, TypedOnDesired DEF OnDesiredThrust
<1>3. ASSUME NEW rudder \in Rudders, OnDesiredRudder(rudder)
      PROVE  Typed'
  <2>1. MapRudder(rudder) \in -90 .. 90
    BY MotorParameters, MapRudderType
  <2>2. [kayak EXCEPT !.rudder = MapRudder(rudder), !.age = 0] \in KayakState
    BY <1>1, <2>1 DEF KayakState
  <2> QED BY <1>3, <2>2, TypedOnDesired DEF OnDesiredRudder
<1>4. ASSUME KayakIterates
      PROVE  Typed'
  <2> USE DEF KayakIterates, Typed, MotorTypeOK, firmware
  <2>1. kayak' \in KayakState
    BY <1>1, <1>4, ExpiredType
  <2>2. kayak'.thrust \in -100 .. 100 /\ kayak'.rudder \in -90 .. 90
    BY <2>1 DEF KayakState
  <2>3. kayak'.thrust * 10 \in Thrust
    BY <2>2 DEF Thrust
  <2>4. line' \subseteq MotorCommand
    BY <1>4, <2>2, <2>3 DEF MotorCommand
  <2> QED BY <1>4, <2>1, <2>4 DEF KayakState
<1> QED BY <1>2, <1>3, <1>4

LEMMA TypedLoop ==
  ASSUME Typed, NEW typed \in Typing, NEW frames \in SUBSET Frame,
         NEW parsed \in SUBSET line, NEW printing \in BOOLEAN, NEW dt \in Nat,
         Loop(typed, frames, parsed, printing, dt)
  PROVE  Typed'
<1> DEFINE c == ConsoleDoWork(console, typed, printing)
           desired == Desired(c, LoopSbus(frames), LoopGumstix(parsed))
<1>1. /\ c \in Console /\ LoopSbus(frames) \in Sbus /\ LoopGumstix(parsed) \in Gumstix
      /\ LoopBattery \in Battery /\ LoopAzimuth(dt) \in Azimuth
  BY LoopTypes, Zenon
<1>2. /\ console' = c /\ sbus' = LoopSbus(frames) /\ gumstix' = LoopGumstix(parsed)
      /\ battery' = LoopBattery
      /\ azimuth' = SetAngle(LoopAzimuth(dt), desired.rudder)
      /\ motor' = [source |-> CommandSource(c, LoopSbus(frames), LoopGumstix(parsed)),
                   power |-> Limited(desired.thrust, LoopBattery, LoopAzimuth(dt))]
      /\ events' = events \/ (events < MaxEvents /\ events' = events + 1)
      /\ line' = {} /\ ran' = TRUE /\ sensed' = sensed /\ kayak' = kayak
      /\ history' = [history EXCEPT !.since =
            [r \in DOMAIN Reasons |-> IF sensed.voltage \in Reasons[r] THEN @[r] ELSE 0]]
  BY LoopEffect, Zenon
<1> HIDE DEF c
<1>3. /\ desired.thrust \in Int /\ desired.rudder \in Int
      /\ CommandSource(c, LoopSbus(frames), LoopGumstix(parsed)) \in Source
  BY <1>1, DesiredType
<1> HIDE DEF desired
<1>4. Limited(desired.thrust, LoopBattery, LoopAzimuth(dt)) \in Thrust
  BY <1>1, <1>3, LimitedWithin
<1>5. SetAngle(LoopAzimuth(dt), desired.rudder) \in Azimuth
  BY <1>1, <1>3, SetAngleType
<1>6. motor' \in [source : Source, power : Thrust]
  BY <1>2, <1>3, <1>4
<1>7. history' \in History
  <2>1. 0 \in 0 .. Detection + 1
    BY FieldValues
  <2>2. history \in History
    BY DEF Typed
  <2> QED BY <1>2, <2>1, <2>2 DEF History
<1>8. events' \in 0 .. MaxEvents
  <2>1. events \in 0 .. MaxEvents /\ MaxEvents \in Nat
    BY MotorParameters DEF Typed, MotorTypeOK
  <2>2. events' = events \/ (events < MaxEvents /\ events' = events + 1)
    BY <1>2, Zenon
  <2> QED BY <2>1, <2>2, CountedType, Zenon
<1>9. line' \subseteq MotorCommand /\ ran' \in BOOLEAN /\ sensed' = sensed /\ kayak' = kayak
  BY <1>2, Zenon
<1> QED BY <1>1, <1>2, <1>5, <1>6, <1>7, <1>8, <1>9 DEF Typed, MotorTypeOK
LEMMA TypedRest ==
  ASSUME Typed,
         \/ \E voltage \in Voltage, stop \in BOOLEAN : Sense(voltage, stop)
         \/ \E typed \in Keys : Restart(typed)
  PROVE  Typed'
<1>0. /\ console \in Console /\ sbus \in Sbus /\ gumstix \in Gumstix /\ battery \in Battery
      /\ azimuth \in Azimuth /\ motor \in [source : Source, power : Thrust]
      /\ sensed \in [voltage : Voltage, stop : BOOLEAN]
      /\ kayak \in [thrust : -100 .. 100, rudder : -90 .. 90, age : 0 .. CommandExpiry + 1]
      /\ line \subseteq MotorCommand /\ ran \in BOOLEAN /\ history \in History
  BY Zenon DEF Typed, MotorTypeOK
<1>1. Happens => events' \in 0 .. MaxEvents
  <2>1. events \in 0 .. MaxEvents /\ MaxEvents \in Nat
    BY MotorParameters DEF Typed, MotorTypeOK
  <2>2. Happens => events < MaxEvents /\ events' = events + 1
    BY Zenon DEF Happens
  <2> QED BY <2>1, <2>2, CountedType, Zenon
<1>2. ASSUME NEW voltage \in Voltage, NEW stop \in BOOLEAN, Sense(voltage, stop)
      PROVE  Typed'
  <2>1. sensed' \in [voltage : Voltage, stop : BOOLEAN]
    BY <1>2 DEF Sense
  <2> QED BY <1>0, <1>1, <1>2, <2>1, Zenon DEF Sense, firmware, Typed, MotorTypeOK
<1>3. ASSUME NEW typed \in Keys, Restart(typed)
      PROVE  Typed'
  <2>1. [source |-> "s_no_input", power |-> 0] \in [source : Source, power : Thrust]
    BY FieldValues DEF Source
  <2>2. /\ console' \in Console /\ sbus' \in Sbus /\ gumstix' \in Gumstix
        /\ battery' \in Battery /\ azimuth' \in Azimuth
    BY <1>3, InitialTypes, Zenon DEF Restart
  <2>3. line' \subseteq MotorCommand
    BY <1>3, Zenon DEF Restart
  <2> QED BY <1>0, <1>1, <1>3, <2>1, <2>2, <2>3, Zenon DEF Restart, Typed, MotorTypeOK
<1> QED BY <1>2, <1>3

\* What a unit of time does to the ages.
LEMMA TypedTick ==
  ASSUME Typed, MotorTick
  PROVE  Typed'
<1>0. /\ console \in Console /\ sbus \in Sbus /\ gumstix \in Gumstix /\ battery \in Battery
      /\ azimuth \in Azimuth /\ motor \in [source : Source, power : Thrust]
      /\ sensed \in [voltage : Voltage, stop : BOOLEAN] /\ kayak \in KayakState
      /\ line \subseteq MotorCommand /\ events \in 0 .. MaxEvents /\ history \in History
  BY Zenon DEF Typed, MotorTypeOK, KayakState
<1>1. OlderConsole(console) \in Console
  <2>1. console.manual \in 0 .. ConsoleTimeout + 1 /\ ConsoleTimeout + 1 \in Nat
    BY <1>0, KestrelParameters DEF Console
  <2>2. Aged(console.manual, ConsoleTimeout + 1) \in 0 .. ConsoleTimeout + 1
    BY <2>1, AgedType
  <2>3. console.incoming = Never \/ console.incoming \in 0 .. ConsoleTimeout + 1
    BY <1>0 DEF Console
  <2>4. Aged(console.incoming, ConsoleTimeout + 1) \in {Never} \cup 0 .. ConsoleTimeout + 1
    <3>1. CASE console.incoming = Never
      BY <3>1 DEF Aged
    <3>2. CASE console.incoming \in 0 .. ConsoleTimeout + 1
      BY <2>1, <3>2, AgedType
    <3> QED BY <2>3, <3>1, <3>2
  <2> QED BY <1>0, <2>2, <2>4 DEF OlderConsole, Console
<1>2. OlderSbus(sbus) \in Sbus
  <2>1. sbus.active \in 0 .. RcTimeout + 1 /\ RcTimeout + 1 \in Nat
    BY <1>0, KestrelParameters DEF Sbus
  <2>2. Aged(sbus.active, RcTimeout + 1) \in 0 .. RcTimeout + 1
    BY <2>1, AgedType
  <2> QED BY <1>0, <2>2 DEF OlderSbus, Sbus
<1>3. OlderGumstix(gumstix) \in Gumstix
  <2>1. gumstix.age \in 0 .. GumstixTimeout + 1 /\ GumstixTimeout + 1 \in Nat
    BY <1>0, KestrelParameters DEF Gumstix
  <2>2. Aged(gumstix.age, GumstixTimeout + 1) \in 0 .. GumstixTimeout + 1
    BY <2>1, AgedType
  <2> QED BY <1>0, <2>2 DEF OlderGumstix, Gumstix
<1>4. OlderBattery(battery) \in Battery
  <2>1. battery.detect \in 0 .. Detection + 1 /\ Detection + 1 \in Nat
    BY <1>0, KestrelParameters DEF Battery
  <2>2. Aged(battery.detect, Detection + 1) \in 0 .. Detection + 1
    BY <2>1, AgedType
  <2> QED BY <1>0, <2>2 DEF OlderBattery, Battery
<1>5. [kayak EXCEPT !.age = Aged(@, CommandExpiry + 1)] \in KayakState
  <2>1. kayak.age \in 0 .. CommandExpiry + 1 /\ CommandExpiry + 1 \in Nat
    BY <1>0, MotorParameters DEF KayakState
  <2>2. Aged(kayak.age, CommandExpiry + 1) \in 0 .. CommandExpiry + 1
    BY <2>1, AgedType
  <2> QED BY <1>0, <2>2 DEF KayakState
<1>6. history' \in History
  <2>1. history.silence \in 0 .. SilenceCap /\ SilenceCap \in Nat
    BY <1>0, MotorParameters, KestrelParameters DEF History, SilenceCap
  <2>2. Aged(history.silence, SilenceCap) \in 0 .. SilenceCap
    BY <2>1, AgedType
  <2>3. Detection + 1 \in Nat
    BY KestrelParameters
  <2>4. ASSUME NEW r \in DOMAIN Reasons
        PROVE  Aged(history.since[r], Detection + 1) \in 0 .. Detection + 1
    <3>1. history.since[r] \in 0 .. Detection + 1
      BY <1>0 DEF History
    <3> QED BY <2>3, <3>1, AgedType
  <2>5. history' = [silence |-> Aged(history.silence, SilenceCap),
                    since |-> [r \in DOMAIN Reasons |-> Aged(history.since[r], Detection + 1)]]
    BY DEF MotorTick
  <2> QED BY <2>2, <2>4, <2>5 DEF History
<1>7. /\ ran' = FALSE /\ console' = OlderConsole(console) /\ sbus' = OlderSbus(sbus)
      /\ gumstix' = OlderGumstix(gumstix) /\ battery' = OlderBattery(battery)
      /\ kayak' = [kayak EXCEPT !.age = Aged(@, CommandExpiry + 1)]
      /\ azimuth' = azimuth /\ motor' = motor /\ sensed' = sensed /\ line' = line
      /\ events' = events
  BY DEF MotorTick
<1> QED BY <1>0, <1>1, <1>2, <1>3, <1>4, <1>5, <1>6, <1>7, Zenon
      DEF Typed, MotorTypeOK, KayakState

\* The runs of loop among the steps of the system.
LEMMA LoopSteps ==
  ASSUME \E parsed \in {{}, line}, dt \in {1, 2} :
           \/ Loop("", {}, parsed, FALSE, dt)
           \/ \E frame \in Frames : Loop("", {frame}, parsed, FALSE, dt)
           \/ \E typed \in Keys, printing \in BOOLEAN : Loop(typed, {}, parsed, printing, dt)
  PROVE  \E typed \in Typing, frames \in SUBSET Frame, parsed \in SUBSET line,
            printing \in BOOLEAN, dt \in Nat : Loop(typed, frames, parsed, printing, dt)
<1>1. Keys \subseteq Typing /\ "" \in Typing /\ FALSE \in BOOLEAN
  BY MotorParameters, Zenon DEF Typing
<1>2. \A frame \in Frames : {frame} \in SUBSET Frame
  BY MotorParameters
<1>3. {} \in SUBSET Frame /\ {{}, line} \subseteq SUBSET line
  OBVIOUS
<1>4. 1 \in Nat /\ 2 \in Nat
  OBVIOUS
<1> QED BY <1>1, <1>2, <1>3, <1>4, Zenon

LEMMA TypedNext == Typed /\ [MotorNext]_motorVars => Typed'
<1> SUFFICES ASSUME Typed, [MotorNext]_motorVars PROVE Typed'
  OBVIOUS
<1>1. CASE UNCHANGED motorVars
  BY <1>1, Zenon DEF motorVars, Typed, MotorTypeOK
<1>2. CASE \E parsed \in {{}, line}, dt \in {1, 2} :
             \/ Loop("", {}, parsed, FALSE, dt)
             \/ \E frame \in Frames : Loop("", {frame}, parsed, FALSE, dt)
             \/ \E typed \in Keys, printing \in BOOLEAN : Loop(typed, {}, parsed, printing, dt)
  <2>1. PICK typed \in Typing, frames \in SUBSET Frame, parsed \in SUBSET line,
             printing \in BOOLEAN, dt \in Nat : Loop(typed, frames, parsed, printing, dt)
    BY <1>2, LoopSteps, Zenon
  <2> QED BY <2>1, TypedLoop
<1>3. CASE \/ \E thrust \in Thrusts : OnDesiredThrust(thrust)
           \/ \E rudder \in Rudders : OnDesiredRudder(rudder)
           \/ KayakIterates
  BY <1>3, TypedKayak
<1>4. CASE \/ \E voltage \in Voltage, stop \in BOOLEAN : Sense(voltage, stop)
           \/ \E typed \in Keys : Restart(typed)
  BY <1>4, TypedRest
<1>5. CASE MotorTick
  BY <1>5, TypedTick
<1> QED BY <1>1, <1>2, <1>3, <1>4, <1>5, Zenon DEF MotorNext

\* The parts of the firmware, iHoverKayak and the line keep their types.
THEOREM MotorTyped == MotorSpec => []MotorTypeOK
<1>1. MotorInit => Typed
  BY TypedInit
<1>2. Typed /\ [MotorNext]_motorVars => Typed'
  BY TypedNext
<1>3. Typed => MotorTypeOK
  BY DEF Typed
<1> QED BY <1>1, <1>2, <1>3, PTL DEF MotorSpec
-----------------------------------------------------------------------------
(* Limits *)

\* loop establishes the limits from any state; what it leaves alone keeps them.
LEMMA LimitsByLoop ==
  ASSUME Typed, NEW typed \in Typing, NEW frames \in SUBSET Frame,
         NEW parsed \in SUBSET line, NEW printing \in BOOLEAN, NEW dt \in Nat,
         Loop(typed, frames, parsed, printing, dt)
  PROVE  WithinLimits'
<1> DEFINE c == ConsoleDoWork(console, typed, printing)
           desired == Desired(c, LoopSbus(frames), LoopGumstix(parsed))
<1>1. /\ c \in Console /\ LoopSbus(frames) \in Sbus /\ LoopGumstix(parsed) \in Gumstix
      /\ LoopBattery \in Battery /\ LoopAzimuth(dt) \in Azimuth
      /\ LoopAzimuth(dt).e_stop_on = sensed.stop
      /\ LoopAzimuth(dt).power_off = (sensed.stop \/ ThrustLimit(LoopBattery) = 0)
  BY LoopTypes, Zenon
<1>2. /\ console' = c /\ sbus' = LoopSbus(frames) /\ gumstix' = LoopGumstix(parsed)
      /\ battery' = LoopBattery
      /\ azimuth' = SetAngle(LoopAzimuth(dt), desired.rudder)
      /\ motor' = [source |-> CommandSource(c, LoopSbus(frames), LoopGumstix(parsed)),
                   power |-> Limited(desired.thrust, LoopBattery, LoopAzimuth(dt))]
      /\ events' = events \/ (events < MaxEvents /\ events' = events + 1)
      /\ line' = {} /\ ran' = TRUE /\ sensed' = sensed /\ kayak' = kayak
      /\ history' = [history EXCEPT !.since =
            [r \in DOMAIN Reasons |-> IF sensed.voltage \in Reasons[r] THEN @[r] ELSE 0]]
  BY LoopEffect, Zenon
<1> HIDE DEF c
<1>3. desired.thrust \in Int /\ desired.rudder \in Int
  BY <1>1, DesiredType
<1> HIDE DEF desired
<1> DEFINE a == LoopAzimuth(dt)
           power == Limited(desired.thrust, LoopBattery, a)
<1>4. /\ azimuth'.estimate = a.estimate /\ azimuth'.e_stop_on = a.e_stop_on
      /\ azimuth'.power_off = a.power_off
  BY <1>1, <1>2, <1>3, SetAngleType
<1>5. motor'.power = power
  BY <1>2
<1>6. /\ Abs(power) <= ThrustLimit(LoopBattery)
      /\ Abs(a.estimate) >= LimitStartAngle => Abs(power) <= 1000 - TurnLimit(a)
  <2>1. LoopBattery \in Battery /\ a \in Azimuth /\ desired.thrust \in Int
    BY <1>1, <1>3, Zenon
  <2>2. Abs(power) <= ThrustLimit(LoopBattery)
    BY <2>1, LimitedWithin, Zenon
  <2>3. ASSUME Abs(a.estimate) >= LimitStartAngle
        PROVE  Abs(power) <= 1000 - TurnLimit(a)
    <3>1. Abs(power) <= TurnCap(a)
      BY <2>1, <2>3, LimitedForTurn, Zenon
    <3> QED BY <3>1, Zenon DEF TurnCap
  <2> QED BY <2>2, <2>3, Zenon
<1>7. LoopBattery.state = "crit_limit" => ThrustLimit(LoopBattery) = 0
  BY DEF ThrustLimit
<1>8. battery'.state = "crit_limit" \/ azimuth'.e_stop_on => azimuth'.power_off
  BY <1>1, <1>2, <1>4, <1>7, Zenon
<1>9. TurnLimit(azimuth') = TurnLimit(a)
  BY <1>4 DEF TurnLimit
<1> HIDE DEF a, power
<1>10. Abs(motor'.power) <= ThrustLimit(battery')
  BY <1>2, <1>5, <1>6, Zenon
<1>11. Abs(azimuth'.estimate) >= LimitStartAngle => Abs(motor'.power) <= 1000 - TurnLimit(azimuth')
  BY <1>4, <1>5, <1>6, <1>9, Zenon
<1> QED BY <1>8, <1>10, <1>11, Zenon DEF WithinLimits

LEMMA LimitsAtStart ==
  ASSUME battery = InitBattery, azimuth = InitAzimuth, motor.power = 0
  PROVE  WithinLimits
BY DEF WithinLimits, InitBattery, InitAzimuth, ThrustLimit, Abs, LimitStartAngle

\* The thrust that is passed on respects battery and angle, and the servo is off when the stop
\* switch or the battery says so: for all timeouts, frames and commands.
THEOREM ThrustWithinLimits == MotorSpec => []WithinLimits
<1>1. MotorInit => Typed /\ WithinLimits
  <2> SUFFICES ASSUME MotorInit PROVE WithinLimits
    BY TypedInit
  <2>1. battery = InitBattery /\ azimuth = InitAzimuth /\ motor.power = 0
    BY DEF MotorInit
  <2> QED BY <2>1, LimitsAtStart
<1>2. Typed /\ WithinLimits /\ [MotorNext]_motorVars => (Typed /\ WithinLimits)'
  <2> SUFFICES ASSUME Typed, WithinLimits, [MotorNext]_motorVars PROVE WithinLimits'
    BY TypedNext
  <2>1. CASE \E parsed \in {{}, line}, dt \in {1, 2} :
               \/ Loop("", {}, parsed, FALSE, dt)
               \/ \E frame \in Frames : Loop("", {frame}, parsed, FALSE, dt)
               \/ \E typed \in Keys, printing \in BOOLEAN : Loop(typed, {}, parsed, printing, dt)
    <3>1. PICK typed \in Typing, frames \in SUBSET Frame, parsed \in SUBSET line,
               printing \in BOOLEAN, dt \in Nat : Loop(typed, frames, parsed, printing, dt)
      BY <2>1, LoopSteps, Zenon
    <3> QED BY <3>1, LimitsByLoop
  <2>2. CASE \E typed \in Keys : Restart(typed)
    <3>1. battery' = InitBattery /\ azimuth' = InitAzimuth /\ motor'.power = 0
      BY <2>2 DEF Restart
    <3> QED BY <3>1 DEF WithinLimits, InitBattery, InitAzimuth, ThrustLimit, Abs, LimitStartAngle
  <2>3. CASE \/ \E thrust \in Thrusts : OnDesiredThrust(thrust)
             \/ \E rudder \in Rudders : OnDesiredRudder(rudder)
             \/ KayakIterates
             \/ \E voltage \in Voltage, stop \in BOOLEAN : Sense(voltage, stop)
             \/ UNCHANGED motorVars
    <3>1. battery' = battery /\ azimuth' = azimuth /\ motor' = motor
      BY <2>3, Zenon DEF OnDesiredThrust, OnDesiredRudder, OnDesired, KayakIterates, Sense,
                         firmware, motorVars
    <3> QED BY <3>1, Zenon DEF WithinLimits, TurnLimit
  <2>4. CASE MotorTick
    <3>1. /\ battery' = OlderBattery(battery) /\ azimuth' = azimuth /\ motor' = motor
          /\ battery \in Battery
      BY <2>4, Zenon DEF MotorTick, Typed, MotorTypeOK
    <3>2. battery'.state = battery.state
      BY <3>1 DEF OlderBattery, Battery
    <3> QED BY <3>1, <3>2, Zenon DEF WithinLimits, TurnLimit, ThrustLimit
  <2> QED BY <2>1, <2>2, <2>3, <2>4, Zenon DEF MotorNext
<1> QED BY <1>1, <1>2, PTL DEF MotorSpec
-----------------------------------------------------------------------------
(* Silence *)

\* How long a thrust of the autonomy can last, from one place to the next: iHoverKayak knows
\* when it was told; a line waits until loop runs, once in each unit of time at least; the
\* Arduino knows when it read the line, and drives until loop runs next.
Pending == IF ran THEN 0 ELSE 1

SilenceInv ==
  /\ kayak.age <= CommandExpiry => history.silence <= kayak.age
  /\ \A m \in line : m.thrust # 0 => history.silence <= CommandExpiry + Pending
  /\ gumstix.command.thrust # 0 /\ gumstix.age <= GumstixTimeout =>
       history.silence <= CommandExpiry + 1 + gumstix.age
  /\ motor.source = "s_gumstix" /\ motor.power # 0 =>
       history.silence <= CommandExpiry + 1 + GumstixTimeout + Pending

\* The numbers in it.
Ages ==
  /\ CommandExpiry \in Nat /\ GumstixTimeout \in Nat /\ Pending \in 0 .. 1
  /\ history.silence \in Nat /\ kayak.age \in Nat /\ gumstix.age \in Nat
  /\ history \in History /\ kayak \in KayakState /\ gumstix \in Gumstix /\ line \subseteq MotorCommand
  /\ ran \in BOOLEAN

LEMMA TypedAges == Typed => Ages
<1> SUFFICES ASSUME Typed PROVE Ages
  OBVIOUS
<1>1. /\ history \in History /\ kayak \in KayakState /\ gumstix \in Gumstix
      /\ line \subseteq MotorCommand /\ ran \in BOOLEAN
  BY Zenon DEF Typed, MotorTypeOK, KayakState
<1>2. CommandExpiry \in Nat /\ GumstixTimeout \in Nat /\ SilenceCap \in Nat
  BY MotorParameters, KestrelParameters DEF SilenceCap
<1>3. history.silence \in Nat /\ kayak.age \in Nat /\ gumstix.age \in Nat
  BY <1>1, <1>2 DEF History, KayakState, Gumstix
<1>4. Pending \in 0 .. 1
  BY DEF Pending
<1> QED BY <1>1, <1>2, <1>3, <1>4 DEF Ages
LEMMA SilenceOnDesired ==
  ASSUME Ages, SilenceInv, NEW desired, desired.age = 0, OnDesired(desired)
  PROVE  SilenceInv'
<1>1. /\ kayak' = desired /\ gumstix' = gumstix /\ motor' = motor /\ line' = line /\ ran' = ran
  BY Zenon DEF OnDesired, firmware
<1>2. history'.silence = 0
  BY DEF OnDesired, Ages, History
<1>3. CommandExpiry \in Nat /\ GumstixTimeout \in Nat /\ Pending \in 0 .. 1 /\ gumstix.age \in Nat
  BY Zenon DEF Ages
<1>4. Pending' = Pending
  BY <1>1, Zenon DEF Pending
<1>5. /\ 0 <= kayak'.age
      /\ 0 <= CommandExpiry + Pending
      /\ 0 <= CommandExpiry + 1 + gumstix.age
      /\ 0 <= CommandExpiry + 1 + GumstixTimeout + Pending
  BY <1>1, <1>3
<1> QED BY <1>1, <1>2, <1>4, <1>5, Zenon DEF SilenceInv

LEMMA SilenceKayakIterates ==
  ASSUME Ages, SilenceInv, KayakIterates
  PROVE  SilenceInv'
<1>1. /\ kayak' = Expired(kayak) /\ gumstix' = gumstix /\ motor' = motor /\ ran' = ran
      /\ history' = history
      /\ line' = {[thrust |-> kayak'.thrust * 10, rudder |-> kayak'.rudder]}
  BY Zenon DEF KayakIterates, firmware
<1>2. /\ kayak'.age = kayak.age /\ kayak'.thrust \in -100 .. 100
      /\ kayak'.thrust # 0 => kayak.age <= CommandExpiry
  <2>1. /\ kayak' \in KayakState /\ kayak'.age = kayak.age
        /\ kayak'.thrust # 0 => kayak.age <= CommandExpiry
    BY <1>1, ExpiredType DEF Ages
  <2> QED BY <2>1 DEF KayakState
<1>3. /\ CommandExpiry \in Nat /\ Pending \in 0 .. 1 /\ history.silence \in Nat /\ kayak.age \in Nat
      /\ kayak.age <= CommandExpiry => history.silence <= kayak.age
  BY Zenon DEF Ages, SilenceInv
<1>4. Pending' = Pending
  BY <1>1, Zenon DEF Pending
<1>5. ASSUME NEW m \in line', m.thrust # 0
      PROVE  history'.silence <= CommandExpiry + Pending'
  <2>1. m.thrust = kayak'.thrust * 10
    BY <1>1, <1>5
  <2>2. kayak'.thrust # 0
    BY <1>2, <1>5, <2>1
  <2> QED BY <1>1, <1>2, <1>3, <1>4, <2>2
<1> QED BY <1>1, <1>2, <1>4, <1>5, Zenon DEF SilenceInv

LEMMA SilenceLoop ==
  ASSUME Typed, SilenceInv,
         NEW typed \in Typing, NEW frames \in SUBSET Frame,
         NEW parsed \in SUBSET line, NEW printing \in BOOLEAN, NEW dt \in Nat,
         Loop(typed, frames, parsed, printing, dt)
  PROVE  SilenceInv'
<1> DEFINE c == ConsoleDoWork(console, typed, printing)
           g == LoopGumstix(parsed)
           desired == Desired(c, LoopSbus(frames), g)
<1>1. /\ c \in Console /\ LoopSbus(frames) \in Sbus /\ g \in Gumstix
      /\ LoopBattery \in Battery /\ LoopAzimuth(dt) \in Azimuth
  BY LoopTypes, Zenon
<1>2. /\ console' = c /\ sbus' = LoopSbus(frames) /\ gumstix' = g
      /\ battery' = LoopBattery
      /\ azimuth' = SetAngle(LoopAzimuth(dt), desired.rudder)
      /\ motor' = [source |-> CommandSource(c, LoopSbus(frames), g),
                   power |-> Limited(desired.thrust, LoopBattery, LoopAzimuth(dt))]
      /\ events' = events \/ (events < MaxEvents /\ events' = events + 1)
      /\ line' = {} /\ ran' = TRUE /\ sensed' = sensed /\ kayak' = kayak
      /\ history' = [history EXCEPT !.since =
            [r \in DOMAIN Reasons |-> IF sensed.voltage \in Reasons[r] THEN @[r] ELSE 0]]
  BY LoopEffect, Zenon
<1>3. Ages
  BY TypedAges, Zenon
<1>4. history'.silence = history.silence
  BY <1>2, <1>3 DEF Ages, History
<1>5. /\ CommandExpiry \in Nat /\ GumstixTimeout \in Nat /\ Pending \in 0 .. 1
      /\ history.silence \in Nat /\ gumstix.age \in Nat
  BY <1>3, Zenon DEF Ages
<1>6. Pending' = 0
  BY <1>2, Zenon DEF Pending
<1>7. g.age \in Nat /\ (g.command.thrust # 0 /\ g.age <= GumstixTimeout =>
                          history.silence <= CommandExpiry + 1 + g.age)
  <2>1. CASE parsed = {}
    <3>1. g = gumstix
      BY <2>1 DEF LoopGumstix
    <3>2. gumstix.command.thrust # 0 /\ gumstix.age <= GumstixTimeout =>
            history.silence <= CommandExpiry + 1 + gumstix.age
      BY Zenon DEF SilenceInv
    <3> QED BY <1>5, <3>1, <3>2, Zenon
  <2>2. CASE parsed # {}
    <3> DEFINE m == CHOOSE x \in parsed : TRUE
    <3>1. m \in line
      BY <2>2, ChosenFromSet
    <3>2. g = [command |-> m, age |-> 0]
      BY <2>2, Zenon DEF LoopGumstix, ParseMotorCommand
    <3> HIDE DEF m
    <3>3. g.command = m /\ g.age = 0
      BY <3>2
    <3>4. m.thrust # 0 => history.silence <= CommandExpiry + Pending
      BY <3>1, Zenon DEF SilenceInv
    <3> HIDE DEF g
    <3> QED BY <1>5, <3>3, <3>4
  <2> QED BY <2>1, <2>2
<1> HIDE DEF c, g
<1>8. ASSUME motor'.source = "s_gumstix", motor'.power # 0
      PROVE  history.silence <= CommandExpiry + 1 + GumstixTimeout
  <2>1. CommandSource(c, LoopSbus(frames), g) = "s_gumstix"
    BY <1>2, <1>8
  <2>2. CommandsAvailable(g) /\ desired.thrust = g.command.thrust
    BY <1>1, <2>1, DesiredType, Zenon
  <2> HIDE DEF desired
  <2>3. Limited(desired.thrust, LoopBattery, LoopAzimuth(dt)) # 0
    BY <1>2, <1>8
  <2>4. desired.thrust # 0
    BY <1>1, <2>3, NothingStaysNothing, Zenon
  <2>5. g.age <= GumstixTimeout
    BY <2>2, Zenon DEF CommandsAvailable
  <2> QED BY <1>5, <1>7, <2>2, <2>4, <2>5
<1> HIDE DEF desired
<1>9. kayak.age <= CommandExpiry => history.silence <= kayak.age
  BY Zenon DEF SilenceInv
<1>10. CommandExpiry + 1 + GumstixTimeout + Pending' = CommandExpiry + 1 + GumstixTimeout
  BY <1>5, <1>6
<1>11. \A m \in line' : m.thrust # 0 => history'.silence <= CommandExpiry + Pending'
  BY <1>2, Zenon
<1>12. motor'.source = "s_gumstix" /\ motor'.power # 0 =>
         history'.silence <= CommandExpiry + 1 + GumstixTimeout + Pending'
  BY <1>4, <1>8, <1>10, Zenon
<1>13. /\ kayak'.age <= CommandExpiry => history'.silence <= kayak'.age
       /\ gumstix'.command.thrust # 0 /\ gumstix'.age <= GumstixTimeout =>
            history'.silence <= CommandExpiry + 1 + gumstix'.age
  BY <1>2, <1>4, <1>7, <1>9, Zenon
<1> QED BY <1>11, <1>12, <1>13, Zenon DEF SilenceInv

LEMMA SilenceTick ==
  ASSUME Typed, SilenceInv, MotorTick
  PROVE  SilenceInv'
<1>1. /\ ran = TRUE /\ ran' = FALSE /\ motor' = motor /\ line' = line
      /\ gumstix' = OlderGumstix(gumstix)
      /\ kayak' = [kayak EXCEPT !.age = Aged(@, CommandExpiry + 1)]
      /\ history' = [silence |-> Aged(history.silence, SilenceCap),
                     since |-> [r \in DOMAIN Reasons |-> Aged(history.since[r], Detection + 1)]]
  <2>1. ran \in BOOLEAN
    BY Zenon DEF Typed, MotorTypeOK
  <2> QED BY <2>1, Zenon DEF MotorTick
<1>2. Ages
  BY TypedAges, Zenon
<1>3. /\ CommandExpiry \in Nat /\ GumstixTimeout \in Nat /\ SilenceCap \in Nat
      /\ history.silence \in 0 .. SilenceCap
      /\ kayak.age \in 0 .. CommandExpiry + 1 /\ gumstix.age \in 0 .. GumstixTimeout + 1
  BY <1>2, MotorParameters, KestrelParameters DEF Ages, SilenceCap, History, KayakState, Gumstix
<1>4. /\ history'.silence = Aged(history.silence, SilenceCap)
      /\ kayak'.age = Aged(kayak.age, CommandExpiry + 1)
      /\ gumstix'.age = Aged(gumstix.age, GumstixTimeout + 1)
      /\ gumstix'.command = gumstix.command
  BY <1>1, <1>2 DEF Ages, KayakState, Gumstix, OlderGumstix
<1>5. /\ history'.silence \in Nat /\ history'.silence <= history.silence + 1
      /\ kayak'.age = IF kayak.age = CommandExpiry + 1 THEN kayak.age ELSE kayak.age + 1
      /\ gumstix'.age = IF gumstix.age = GumstixTimeout + 1 THEN gumstix.age ELSE gumstix.age + 1
  BY <1>3, <1>4, AgedType
<1>6. Pending = 0 /\ Pending' = 1
  BY <1>1, Zenon DEF Pending
<1>7. kayak'.age <= CommandExpiry => history'.silence <= kayak'.age
  <2>1. kayak.age <= CommandExpiry => history.silence <= kayak.age
    BY Zenon DEF SilenceInv
  <2> QED BY <1>3, <1>5, <2>1
<1>8. ASSUME NEW m \in line', m.thrust # 0
      PROVE  history'.silence <= CommandExpiry + Pending'
  <2>1. history.silence <= CommandExpiry + Pending
    BY <1>1, <1>8, Zenon DEF SilenceInv
  <2> QED BY <1>3, <1>5, <1>6, <2>1
<1>9. gumstix'.command.thrust # 0 /\ gumstix'.age <= GumstixTimeout =>
        history'.silence <= CommandExpiry + 1 + gumstix'.age
  <2>1. gumstix.command.thrust # 0 /\ gumstix.age <= GumstixTimeout =>
          history.silence <= CommandExpiry + 1 + gumstix.age
    BY Zenon DEF SilenceInv
  <2> QED BY <1>3, <1>4, <1>5, <2>1
<1>10. ASSUME motor'.source = "s_gumstix", motor'.power # 0
       PROVE  history'.silence <= CommandExpiry + 1 + GumstixTimeout + Pending'
  <2>1. history.silence <= CommandExpiry + 1 + GumstixTimeout + Pending
    BY <1>1, <1>10, Zenon DEF SilenceInv
  <2> QED BY <1>3, <1>5, <1>6, <2>1
<1> QED BY <1>7, <1>8, <1>9, <1>10, Zenon DEF SilenceInv

\* Once the autonomy has been silent for the two timeouts and the two units of time between
\* them, its last command moves nothing: for all timeouts, whatever fails on the way.
THEOREM SilenceStopsMotor == MotorSpec => []SilenceStops
<1>1. MotorInit => Typed /\ SilenceInv
  <2> SUFFICES ASSUME MotorInit PROVE SilenceInv
    BY TypedInit
  <2>1. /\ kayak.age = 0 /\ history.silence = 0 /\ line = {} /\ gumstix.command.thrust = 0
        /\ motor.power = 0
    BY DEF MotorInit, InitGumstix
  <2> QED BY <2>1 DEF SilenceInv
<1>2. Typed /\ SilenceInv /\ [MotorNext]_motorVars => (Typed /\ SilenceInv)'
  <2> SUFFICES ASSUME Typed, SilenceInv, [MotorNext]_motorVars PROVE SilenceInv'
    BY TypedNext
  <2>0. Ages
    BY TypedAges, Zenon
  <2>1. CASE \E parsed \in {{}, line}, dt \in {1, 2} :
               \/ Loop("", {}, parsed, FALSE, dt)
               \/ \E frame \in Frames : Loop("", {frame}, parsed, FALSE, dt)
               \/ \E typed \in Keys, printing \in BOOLEAN : Loop(typed, {}, parsed, printing, dt)
    <3>1. PICK typed \in Typing, frames \in SUBSET Frame, parsed \in SUBSET line,
               printing \in BOOLEAN, dt \in Nat : Loop(typed, frames, parsed, printing, dt)
      BY <2>1, LoopSteps, Zenon
    <3> QED BY <3>1, SilenceLoop
  <2>2. CASE \E typed \in Keys : Restart(typed)
    <3>1. /\ kayak' = kayak /\ history' = history /\ line' = {} /\ gumstix'.command.thrust = 0
          /\ motor'.power = 0
      BY <2>2 DEF Restart, InitGumstix
    <3> QED BY <3>1, Zenon DEF SilenceInv
  <2>3. CASE (\E thrust \in Thrusts : OnDesiredThrust(thrust)) \/ (\E rudder \in Rudders : OnDesiredRudder(rudder))
    <3>1. PICK desired : desired.age = 0 /\ OnDesired(desired)
      <4>1. \A x : [kayak EXCEPT !.thrust = x, !.age = 0].age = 0 /\ [kayak EXCEPT !.rudder = x, !.age = 0].age = 0
        BY <2>0 DEF Ages, KayakState
      <4> QED BY <2>3, <4>1, Zenon DEF OnDesiredThrust, OnDesiredRudder
    <3> QED BY <2>0, <3>1, SilenceOnDesired
  <2>4. CASE KayakIterates
    BY <2>0, <2>4, SilenceKayakIterates
  <2>5. CASE (\E voltage \in Voltage, stop \in BOOLEAN : Sense(voltage, stop)) \/ UNCHANGED motorVars
    <3>1. /\ kayak' = kayak /\ gumstix' = gumstix /\ motor' = motor /\ line' = line
          /\ ran' = ran /\ history' = history
      BY <2>5, Zenon DEF Sense, firmware, motorVars
    <3> QED BY <3>1, Zenon DEF SilenceInv, Pending
  <2>6. CASE MotorTick
    BY <2>6, SilenceTick
  <2> QED BY <2>1, <2>2, <2>3, <2>4, <2>5, <2>6, Zenon DEF MotorNext
<1>3. Typed /\ SilenceInv => SilenceStops
  <2> SUFFICES ASSUME Typed, SilenceInv, history.silence > CommandExpiry + GumstixTimeout + 2,
                      motor.source = "s_gumstix", motor.power # 0
               PROVE  FALSE
    BY DEF SilenceStops
  <2>1. /\ CommandExpiry \in Nat /\ GumstixTimeout \in Nat /\ Pending \in 0 .. 1
        /\ history.silence \in Nat
    BY TypedAges, Zenon DEF Ages
  <2>2. history.silence <= CommandExpiry + 1 + GumstixTimeout + Pending
    BY Zenon DEF SilenceInv
  <2> QED BY <2>1, <2>2
<1> QED BY <1>1, <1>2, <1>3, PTL DEF MotorSpec
-----------------------------------------------------------------------------
(* Reasons *)

\* The reason r is for exactly the voltages that call for next.
IsReason(r, state, next) ==
  \A v \in Voltage : v \in Reasons[r] <=> CalledFor(state, v) = next

LEMMA EveryCallHasReason ==
  ASSUME NEW state \in Limit, NEW voltage \in Voltage, CalledFor(state, voltage) # "unset"
  PROVE  \E r \in DOMAIN Reasons : IsReason(r, state, CalledFor(state, voltage))
<1> DEFINE r == CASE state = "okay" -> "below_low"
                  [] state = "low_limit" /\ voltage = "critical" -> "below_critical"
                  [] state = "low_limit" /\ voltage = "okay" -> "above_okay"
                  [] OTHER -> "above_low"
<1>1. DOMAIN Reasons = {"below_low", "below_critical", "above_okay", "above_low"}
  BY DEF Reasons
<1>2. r \in DOMAIN Reasons
  BY <1>1
<1>3. IsReason(r, state, CalledFor(state, voltage))
  <2>1. CASE state = "okay"
    BY <2>1 DEF IsReason, Reasons, CalledFor, Voltage
  <2>2. CASE state = "low_limit"
    <3>1. voltage = "critical" \/ voltage = "okay"
      BY <2>2 DEF CalledFor, Voltage
    <3>2. CASE voltage = "critical"
      BY <2>2, <3>2 DEF IsReason, Reasons, CalledFor, Voltage
    <3>3. CASE voltage = "okay"
      BY <2>2, <3>3 DEF IsReason, Reasons, CalledFor, Voltage
    <3> QED BY <3>1, <3>2, <3>3
  <2>3. CASE state = "crit_limit"
    BY <2>3 DEF IsReason, Reasons, CalledFor, Voltage
  <2> QED BY <2>1, <2>2, <2>3 DEF Limit
<1> QED BY <1>2, <1>3

LEMMA ReasonsAreVoltages == \A r \in DOMAIN Reasons : Reasons[r] \subseteq Voltage
BY DEF Reasons, Voltage

\* A detection has a reason, which has held for as long as it lasts.
DetectionInv ==
  battery.next # "unset" =>
    \E r \in DOMAIN Reasons : /\ IsReason(r, battery.state, battery.next)
                             /\ battery.detect <= history.since[r]

\* The battery's part of loop, from the state before it.
LEMMA DetectionByLoop ==
  ASSUME Typed, DetectionInv,
         battery' = LoopBattery,
         history' = [history EXCEPT !.since =
            [r \in DOMAIN Reasons |-> IF sensed.voltage \in Reasons[r] THEN @[r] ELSE 0]]
  PROVE  /\ DetectionInv'
         /\ battery'.state # battery.state =>
              \E r \in DOMAIN Reasons : /\ IsReason(r, battery.state, battery'.state)
                                       /\ history.since[r] > Detection
<1> DEFINE next == CalledFor(battery.state, sensed.voltage)
<1>1. battery \in Battery /\ sensed.voltage \in Voltage /\ history \in History
  BY DEF Typed, MotorTypeOK
<1>2. /\ battery.state \in Limit /\ battery.next \in Limit \cup {"unset"}
      /\ battery.detect \in 0 .. Detection + 1 /\ Detection \in Nat
  BY <1>1, KestrelParameters DEF Battery
<1>3. /\ next \in Limit \cup {"unset"}
      /\ next # "unset" => \E r \in DOMAIN Reasons : IsReason(r, battery.state, next)
  BY <1>1, <1>2, CalledForType, EveryCallHasReason
<1>4. \A r \in DOMAIN Reasons : IsReason(r, battery.state, next) => sensed.voltage \in Reasons[r]
  BY <1>1, Zenon DEF IsReason
<1>5. \A r \in DOMAIN Reasons :
        /\ history.since[r] \in 0 .. Detection + 1
        /\ history'.since[r] = IF sensed.voltage \in Reasons[r] THEN history.since[r] ELSE 0
  BY <1>1 DEF History
<1>6. battery' =
        CASE next = "unset" -> [battery EXCEPT !.next = "unset"]
          [] next # "unset" /\ battery.next # next -> [battery EXCEPT !.next = next, !.detect = 0]
          [] OTHER -> IF battery.detect > Detection
                      THEN [battery EXCEPT !.state = next, !.next = "unset"] ELSE battery
  BY Zenon DEF LoopBattery, BatteryDoWork
<1> HIDE DEF next
<1>7. CASE next = "unset"
  <2>1. battery' = [battery EXCEPT !.next = "unset"]
    BY <1>6, <1>7
  <2>2. battery'.next = "unset" /\ battery'.state = battery.state
    BY <1>1, <2>1 DEF Battery
  <2> QED BY <2>2, Zenon DEF DetectionInv
<1>8. CASE next # "unset" /\ battery.next # next
  <2>1. battery' = [battery EXCEPT !.next = next, !.detect = 0]
    BY <1>6, <1>8
  <2>2. battery'.next = next /\ battery'.state = battery.state /\ battery'.detect = 0
    BY <1>1, <2>1 DEF Battery
  <2>3. PICK r \in DOMAIN Reasons : IsReason(r, battery.state, next)
    BY <1>3, <1>8
  <2>4. 0 <= history'.since[r]
    BY <1>2, <1>5
  <2>5. DetectionInv'
    BY <2>2, <2>3, <2>4, Zenon DEF DetectionInv, IsReason
  <2> QED BY <2>2, <2>5, Zenon
<1>9. CASE next # "unset" /\ battery.next = next
  <2>1. PICK r \in DOMAIN Reasons : IsReason(r, battery.state, next) /\ battery.detect <= history.since[r]
    BY <1>9, Zenon DEF DetectionInv
  <2>2. history'.since[r] = history.since[r]
    BY <1>4, <1>5, <2>1
  <2>3. CASE battery.detect > Detection
    <3>1. battery' = [battery EXCEPT !.state = next, !.next = "unset"]
      BY <1>6, <1>9, <2>3
    <3>2. battery'.state = next /\ battery'.next = "unset"
      BY <1>1, <3>1 DEF Battery
    <3>3. history.since[r] > Detection
      BY <1>2, <1>5, <2>1, <2>3
    <3> QED BY <2>1, <3>2, <3>3, Zenon DEF DetectionInv
  <2>4. CASE ~(battery.detect > Detection)
    <3>1. battery' = battery
      BY <1>6, <1>9, <2>4
    <3> QED BY <1>9, <2>1, <2>2, <3>1, Zenon DEF DetectionInv, IsReason
  <2> QED BY <2>3, <2>4
<1> QED BY <1>7, <1>8, <1>9

LEMMA DetectionTick ==
  ASSUME Typed, DetectionInv, MotorTick
  PROVE  DetectionInv' /\ battery'.state = battery.state
<1>1. battery \in Battery /\ history \in History
  BY DEF Typed, MotorTypeOK
<1>2. /\ battery' = OlderBattery(battery)
      /\ history' = [silence |-> Aged(history.silence, SilenceCap),
                     since |-> [r \in DOMAIN Reasons |-> Aged(history.since[r], Detection + 1)]]
  BY DEF MotorTick
<1>3. /\ battery'.state = battery.state /\ battery'.next = battery.next
      /\ battery'.detect = Aged(battery.detect, Detection + 1)
      /\ battery.detect \in 0 .. Detection + 1 /\ Detection + 1 \in Nat
  BY <1>1, <1>2, KestrelParameters DEF OlderBattery, Battery
<1>4. ASSUME NEW r \in DOMAIN Reasons, battery.detect <= history.since[r]
      PROVE  battery'.detect <= history'.since[r]
  <2>1. history'.since[r] = Aged(history.since[r], Detection + 1) /\ history.since[r] \in 0 .. Detection + 1
    BY <1>1, <1>2 DEF History
  <2>2. /\ Aged(history.since[r], Detection + 1) =
              IF history.since[r] = Detection + 1 THEN history.since[r] ELSE history.since[r] + 1
        /\ Aged(battery.detect, Detection + 1) =
              IF battery.detect = Detection + 1 THEN battery.detect ELSE battery.detect + 1
    BY <1>3, <2>1, AgedType
  <2> QED BY <1>3, <1>4, <2>1, <2>2
<1> QED BY <1>3, <1>4, Zenon DEF DetectionInv, IsReason

\* A limit changes only for a reason that all readings have given for longer than Detection:
\* for all timeouts, and however often the reading and the reason changed before.
THEOREM LimitChangesForReason == MotorSpec => LimitIsSustained
<1>1. MotorInit => Typed /\ DetectionInv
  <2> SUFFICES ASSUME MotorInit PROVE DetectionInv
    BY TypedInit
  <2>1. battery.next = "unset"
    BY DEF MotorInit, InitBattery
  <2> QED BY <2>1 DEF DetectionInv
<1> DEFINE Sustained ==
      battery'.state # battery.state /\ ~(battery' = InitBattery) =>
        \E r \in DOMAIN Reasons :
          /\ history.since[r] > Detection
          /\ \A v \in Reasons[r] : CalledFor(battery.state, v) = battery'.state
<1>2. Typed /\ DetectionInv /\ [MotorNext]_motorVars => DetectionInv' /\ Sustained
  <2> SUFFICES ASSUME Typed, DetectionInv, [MotorNext]_motorVars PROVE DetectionInv' /\ Sustained
    OBVIOUS
  <2>1. CASE \E parsed \in {{}, line}, dt \in {1, 2} :
               \/ Loop("", {}, parsed, FALSE, dt)
               \/ \E frame \in Frames : Loop("", {frame}, parsed, FALSE, dt)
               \/ \E typed \in Keys, printing \in BOOLEAN : Loop(typed, {}, parsed, printing, dt)
    <3>1. /\ battery' = LoopBattery
          /\ history' = [history EXCEPT !.since =
               [r \in DOMAIN Reasons |-> IF sensed.voltage \in Reasons[r] THEN @[r] ELSE 0]]
      BY <2>1, Zenon DEF Loop, LoopBattery
    <3>2. /\ DetectionInv'
          /\ battery'.state # battery.state =>
               \E r \in DOMAIN Reasons : /\ IsReason(r, battery.state, battery'.state)
                                        /\ history.since[r] > Detection
      BY <3>1, DetectionByLoop
    <3>3. \A r \in DOMAIN Reasons : IsReason(r, battery.state, battery'.state) =>
            \A v \in Reasons[r] : CalledFor(battery.state, v) = battery'.state
      BY ReasonsAreVoltages, Zenon DEF IsReason
    <3> QED BY <3>2, <3>3, Zenon
  <2>2. CASE \E typed \in Keys : Restart(typed)
    <3>1. battery' = InitBattery
      BY <2>2, Zenon DEF Restart
    <3>2. battery'.next = "unset"
      BY <3>1 DEF InitBattery
    <3> QED BY <3>1, <3>2, Zenon DEF DetectionInv
  <2>3. CASE (\E thrust \in Thrusts : OnDesiredThrust(thrust)) \/ (\E rudder \in Rudders : OnDesiredRudder(rudder))
    <3>1. battery' = battery /\ history' = [history EXCEPT !.silence = 0]
      BY <2>3, Zenon DEF OnDesiredThrust, OnDesiredRudder, OnDesired, firmware
    <3>2. history'.since = history.since
      BY <3>1 DEF Typed, History
    <3> QED BY <3>1, <3>2, Zenon DEF DetectionInv, IsReason
  <2>4. CASE \/ KayakIterates
             \/ \E voltage \in Voltage, stop \in BOOLEAN : Sense(voltage, stop)
             \/ UNCHANGED motorVars
    <3>1. battery' = battery /\ history' = history
      BY <2>4, Zenon DEF KayakIterates, Sense, firmware, motorVars
    <3> QED BY <3>1, Zenon DEF DetectionInv, IsReason
  <2>5. CASE MotorTick
    BY <2>5, DetectionTick
  <2> QED BY <2>1, <2>2, <2>3, <2>4, <2>5, Zenon DEF MotorNext
<1>3. Typed /\ DetectionInv /\ [MotorNext]_motorVars =>
        (Typed /\ DetectionInv)' /\ [Sustained]_motorVars
  BY <1>2, TypedNext, Zenon
<1> QED BY <1>1, <1>3, PTL DEF MotorSpec, LimitIsSustained
-----------------------------------------------------------------------------
(* The switch between the radios *)

LEMMA Times ==
  /\ SwitchTime \in Nat /\ SwitchTime >= 1 /\ RadioWaitTime \in Nat /\ SwitchTime < RadioWaitTime
  /\ MaxLag \in Nat /\ MaxSwitches \in Nat
  /\ Never = -1
BY RadioParameters DEF Never
-----------------------------------------------------------------------------
(* The shape of the state *)

\* What the main thread has still to write after a change, a confirmation or a revert.
Changing(to) == {<<to, "unlocked", "wait">>, <<"unlocked", "wait">>, <<"wait">>}
Settling == {<<"settle", "locked">>, <<"locked">>}
Reverting == <<"flip", "settle", "locked">>
Todo ==
  [main : {<<>>, Reverting} \cup Settling \cup UNION {Changing(to) : to \in Radio},
   serial : {<<>>} \cup Settling \cup {<<to, "settle", "locked">> : to \in Radio}]

RevertDue == WaitedTooLong /\ todo.main \notin {Reverting, <<"settle", "locked">>}

Shape ==
  /\ radio \in Radio /\ using \in Radio
  /\ setAge \in {Never} \cup 0 .. RadioWaitTime + 1
  /\ first \in BOOLEAN
  /\ todo \in Todo
  /\ lines \in Seq(Radio) /\ reports \in Seq(Radio) /\ reported \in BOOLEAN
  /\ posted \in {<<>>} \cup (Radio \X {"locked", "unlocked"})
  /\ switches \in 0 .. MaxSwitches
  /\ memory \in [before : Radio, asked : {Never} \cup 0 .. RadioWaitTime + 3, clean : BOOLEAN]
  /\ Len(lines) + (IF RevertDue THEN 1 ELSE 0) <= switches + 1
  /\ Len(reports) <= MaxLag + (IF reported THEN 1 ELSE 0)


LEMMA InitShape == RadioInit => Shape
<1> SUFFICES ASSUME RadioInit PROVE Shape
  OBVIOUS
<1> USE DEF RadioInit
<1>1. todo \in Todo
  BY DEF Todo
<1>2. ~RevertDue
  BY DEF RevertDue, WaitedTooLong
<1>3. memory \in [before : Radio, asked : {Never} \cup 0 .. RadioWaitTime + 3, clean : BOOLEAN]
  BY DEF Radio
<1>4. lines = <<>> /\ reports = <<>> /\ Len(lines) = 0 /\ Len(reports) = 0
  OBVIOUS
<1>5. switches \in 0 .. MaxSwitches
  BY Times
<1>6. radio \in Radio /\ using \in Radio
  BY DEF Radio
<1>7. Len(lines) + 0 <= switches + 1 /\ Len(reports) <= MaxLag + 0
  BY Times
<1>8. lines \in Seq(Radio) /\ reports \in Seq(Radio)
  BY <1>4
<1>9. setAge \in {Never} \cup 0 .. RadioWaitTime + 1 /\ first \in BOOLEAN /\ reported \in BOOLEAN
  OBVIOUS
<1>10. posted \in {<<>>} \cup (Radio \X {"locked", "unlocked"})
  OBVIOUS
<1>11. reported = FALSE
  OBVIOUS
<1> HIDE DEF RadioInit
<1> QED BY <1>1, <1>2, <1>3, <1>5, <1>6, <1>7, <1>8, <1>9, <1>10, <1>11 DEF Shape

LEMMA HeadsAndTails ==
  /\ \A to \in Radio : /\ Head(<<to, "unlocked", "wait">>) = to
                       /\ Tail(<<to, "unlocked", "wait">>) = <<"unlocked", "wait">>
                       /\ Head(<<to, "settle", "locked">>) = to
                       /\ Tail(<<to, "settle", "locked">>) = <<"settle", "locked">>
  /\ Head(<<"unlocked", "wait">>) = "unlocked" /\ Tail(<<"unlocked", "wait">>) = <<"wait">>
  /\ Head(<<"wait">>) = "wait" /\ Tail(<<"wait">>) = <<>>
  /\ Head(<<"settle", "locked">>) = "settle" /\ Tail(<<"settle", "locked">>) = <<"locked">>
  /\ Head(<<"locked">>) = "locked" /\ Tail(<<"locked">>) = <<>>
  /\ Head(Reverting) = "flip" /\ Tail(Reverting) = <<"settle", "locked">>
BY DEF Reverting

LEMMA Lengths ==
  /\ \A to \in Radio : Len(<<to, "unlocked", "wait">>) = 3 /\ Len(<<to, "settle", "locked">>) = 3
  /\ Len(<<"unlocked", "wait">>) = 2 /\ Len(<<"wait">>) = 1
  /\ Len(<<"settle", "locked">>) = 2 /\ Len(<<"locked">>) = 1 /\ Len(Reverting) = 3
  /\ Len(<<>>) = 0
BY DEF Reverting

\* What the main thread writes next, and what it has to write then.
LEMMA MainWrite ==
  ASSUME Shape, Write("main")
  PROVE  /\ todo'.serial = todo.serial
         /\ todo' \in Todo
         /\ \/ \E to \in Radio :
                 /\ todo.main = <<to, "unlocked", "wait">> /\ todo'.main = <<"unlocked", "wait">>
                 /\ using' = to /\ setAge' = setAge
            \/ /\ todo.main = <<"unlocked", "wait">> /\ todo'.main = <<"wait">>
               /\ using' = using /\ setAge' = setAge
            \/ todo.main = <<"wait">> /\ todo'.main = <<>> /\ using' = using /\ setAge' = 0
            \/ /\ todo.main = Reverting /\ todo'.main = <<"settle", "locked">>
               /\ using' = Other(using) /\ setAge' = setAge
            \/ /\ todo.main = <<"settle", "locked">> /\ todo'.main = <<"locked">>
               /\ using' = using /\ setAge' = Never
            \/ /\ todo.main = <<"locked">> /\ todo'.main = <<>>
               /\ using' = using /\ setAge' = setAge
<1> DEFINE s == todo.main
<1>1. /\ todo \in Todo /\ s # <<>>
      /\ todo' = [todo EXCEPT !.main = Tail(s)]
      /\ using' = CASE Head(s) \in Radio -> Head(s) [] Head(s) = "flip" -> Other(using)
                    [] OTHER -> using
      /\ setAge' = CASE Head(s) = "wait" -> 0 [] Head(s) = "settle" -> Never [] OTHER -> setAge
  BY DEF Write, Idle, Shape
<1>2. todo'.serial = todo.serial /\ todo'.main = Tail(s)
  BY <1>1 DEF Todo
<1>3. \/ \E to \in Radio : s = <<to, "unlocked", "wait">>
      \/ s = <<"unlocked", "wait">>
      \/ s = <<"wait">>
      \/ s = Reverting
      \/ s = <<"settle", "locked">>
      \/ s = <<"locked">>
  BY <1>1 DEF Todo, Settling, Changing
<1>4. todo' = [main |-> Tail(s), serial |-> todo.serial]
  BY <1>1 DEF Todo
<1> HIDE DEF s
<1>5. CASE \E to \in Radio : s = <<to, "unlocked", "wait">>
  <2>1. PICK to \in Radio : s = <<to, "unlocked", "wait">>
    BY <1>5
  <2>2. Head(s) = to /\ Tail(s) = <<"unlocked", "wait">>
    BY <2>1, HeadsAndTails
  <2>3. todo' \in Todo
    BY <1>1, <1>4, <2>1, <2>2 DEF Todo, Changing
  <2> QED BY <1>1, <1>2, <2>1, <2>2, <2>3 DEF Radio, s
<1>6. CASE s = <<"unlocked", "wait">>
  <2>1. Head(s) = "unlocked" /\ Tail(s) = <<"wait">>
    BY <1>6, HeadsAndTails
  <2>2. "bullet" \in Radio /\ <<"wait">> \in Changing("bullet")
    BY DEF Radio, Changing
  <2>3. todo' \in Todo
    BY <1>1, <1>4, <2>1, <2>2 DEF Todo
  <2> QED BY <1>1, <1>2, <1>6, <2>1, <2>3 DEF Radio, s
<1>7. CASE s = <<"wait">>
  <2>1. Head(s) = "wait" /\ Tail(s) = <<>>
    BY <1>7, HeadsAndTails
  <2>2. todo' \in Todo
    BY <1>1, <1>4, <2>1 DEF Todo
  <2> QED BY <1>1, <1>2, <1>7, <2>1, <2>2 DEF Radio, s
<1>8. CASE s = Reverting
  <2>1. Head(s) = "flip" /\ Tail(s) = <<"settle", "locked">>
    BY <1>8, HeadsAndTails
  <2>2. todo' \in Todo
    BY <1>1, <1>4, <2>1 DEF Todo, Settling
  <2> QED BY <1>1, <1>2, <1>8, <2>1, <2>2 DEF Radio, s
<1>9. CASE s = <<"settle", "locked">>
  <2>1. Head(s) = "settle" /\ Tail(s) = <<"locked">>
    BY <1>9, HeadsAndTails
  <2>2. todo' \in Todo
    BY <1>1, <1>4, <2>1 DEF Todo, Settling
  <2> QED BY <1>1, <1>2, <1>9, <2>1, <2>2 DEF Radio, s
<1>10. CASE s = <<"locked">>
  <2>1. Head(s) = "locked" /\ Tail(s) = <<>>
    BY <1>10, HeadsAndTails
  <2>2. todo' \in Todo
    BY <1>1, <1>4, <2>1 DEF Todo
  <2> QED BY <1>1, <1>2, <1>10, <2>1, <2>2 DEF Radio, s
<1> QED BY <1>3, <1>5, <1>6, <1>7, <1>8, <1>9, <1>10

\* The serial thread takes over what was reported, and waits no more.
LEMMA SerialWrite ==
  ASSUME Shape, Write("serial")
  PROVE  /\ todo'.main = todo.main /\ todo.serial # <<>>
         /\ todo' \in Todo
         /\ using' \in Radio
         /\ setAge' \in {setAge, Never}
<1> DEFINE s == todo.serial
<1>1. /\ todo \in Todo /\ s # <<>>
      /\ todo' = [todo EXCEPT !.serial = Tail(s)]
      /\ using' = CASE Head(s) \in Radio -> Head(s) [] Head(s) = "flip" -> Other(using)
                    [] OTHER -> using
      /\ setAge' = CASE Head(s) = "wait" -> 0 [] Head(s) = "settle" -> Never [] OTHER -> setAge
      /\ using \in Radio
  BY DEF Write, Idle, Shape
<1>2. \/ \E to \in Radio : s = <<to, "settle", "locked">>
      \/ s = <<"settle", "locked">>
      \/ s = <<"locked">>
  BY <1>1 DEF Todo, Settling
<1>3. todo' = [main |-> todo.main, serial |-> Tail(s)]
  BY <1>1 DEF Todo
<1>4. Tail(s) \in {<<>>} \cup Settling /\ Head(s) \in Radio \cup {"settle", "locked"}
  BY <1>2, HeadsAndTails DEF Settling
<1>5. todo' \in Todo
  BY <1>1, <1>3, <1>4 DEF Todo
<1>6. using' \in Radio /\ setAge' \in {setAge, Never}
  <2> HIDE DEF s
  <2> QED BY <1>1, <1>4 DEF Radio
<1> QED BY <1>1, <1>3, <1>5, <1>6

LEMMA ShapeStep == Shape /\ [RadioNext]_radioVars => Shape'
<1> SUFFICES ASSUME Shape, [RadioNext]_radioVars PROVE Shape'
  OBVIOUS
<1>1. /\ radio \in Radio /\ using \in Radio
      /\ setAge \in {Never} \cup 0 .. RadioWaitTime + 1
      /\ todo \in Todo
      /\ lines \in Seq(Radio) /\ reports \in Seq(Radio) /\ reported \in BOOLEAN
      /\ switches \in 0 .. MaxSwitches
      /\ memory \in [before : Radio, asked : {Never} \cup 0 .. RadioWaitTime + 3, clean : BOOLEAN]
      /\ Len(lines) \in Nat /\ Len(reports) \in Nat
  BY DEF Shape
<1>2. CASE Write("main")
  <2>1. RevertDue' => RevertDue
    BY <1>2, MainWrite, Times, HeadsAndTails, Lengths
      DEF RevertDue, WaitedTooLong, Shape, Todo, Settling, Changing, Reverting
  <2>2. using' \in Radio /\ setAge' \in {Never} \cup 0 .. RadioWaitTime + 1 /\ todo' \in Todo
    BY <1>1, <1>2, MainWrite, Times DEF Other, Radio
  <2>3. posted' \in {<<>>} \cup (Radio \X {"locked", "unlocked"}) /\ first' \in BOOLEAN
    BY <1>1, <1>2 DEF Write, Shape
  <2> QED BY <1>2, <2>1, <2>2, <2>3 DEF Write, Shape
<1>3. CASE Write("serial")
  <2>1. RevertDue' => RevertDue
    BY <1>3, SerialWrite DEF RevertDue, WaitedTooLong
  <2>2. using' \in Radio /\ setAge' \in {Never} \cup 0 .. RadioWaitTime + 1 /\ todo' \in Todo
    BY <1>1, <1>3, SerialWrite, Times
  <2>3. posted' \in {<<>>} \cup (Radio \X {"locked", "unlocked"}) /\ first' \in BOOLEAN
    BY <1>1, <1>3 DEF Write, Shape
  <2> QED BY <1>3, <2>1, <2>2, <2>3 DEF Write, Shape
<1>4. ASSUME NEW to \in Radio, OnChange(to) PROVE Shape'
  <2>1. /\ todo' = [main |-> <<to, "unlocked", "wait">>, serial |-> todo.serial]
        /\ todo.main = <<>>
    BY <1>1, <1>4 DEF OnChange, Begins, Idle, Todo
  <2>2. todo' \in Todo
    BY <1>1, <2>1 DEF Todo, Changing
  <2>3. RevertDue' => RevertDue
    BY <1>4, <2>1, Lengths DEF OnChange, RevertDue, WaitedTooLong
  <2>4. lines' \in Seq(Radio) /\ Len(lines') = Len(lines) + 1
    BY <1>1, <1>4 DEF OnChange
  <2>5. switches' = switches + 1 /\ switches' \in 0 .. MaxSwitches
    BY <1>1, <1>4, Times DEF OnChange, Switches
  <2>6. memory' \in [before : Radio, asked : {Never} \cup 0 .. RadioWaitTime + 3, clean : BOOLEAN]
    BY <1>1, <1>4, Times DEF OnChange
  <2>7. Len(lines') + (IF RevertDue' THEN 1 ELSE 0) <= switches' + 1
    BY <1>1, <2>3, <2>4, <2>5 DEF Shape
  <2> QED BY <1>4, <2>2, <2>4, <2>5, <2>6, <2>7 DEF OnChange, Shape
<1>5. ASSUME NEW to \in Radio, OnConfirmation(to) PROVE Shape'
  <2>1. todo' = [main |-> <<"settle", "locked">>, serial |-> todo.serial]
    BY <1>1, <1>5 DEF OnConfirmation, AfterConfirmation, Begins, Todo
  <2>2. todo' \in Todo /\ ~RevertDue'
    BY <1>1, <2>1 DEF Todo, Settling, RevertDue
  <2>3. switches' = switches + 1 /\ switches' \in 0 .. MaxSwitches
    BY <1>1, <1>5, Times DEF OnConfirmation, Switches
  <2>4. memory' \in [before : Radio, asked : {Never} \cup 0 .. RadioWaitTime + 3, clean : BOOLEAN]
    BY <1>1, <1>5 DEF OnConfirmation
  <2>5. lines' = lines /\ Len(lines') + (IF RevertDue' THEN 1 ELSE 0) <= switches' + 1
    BY <1>1, <1>5, <2>2, <2>3 DEF OnConfirmation, Shape
  <2> QED BY <1>5, <2>2, <2>3, <2>4, <2>5 DEF OnConfirmation, Shape
<1>6. CASE OnRevert
  <2>1. todo' = [main |-> Reverting, serial |-> todo.serial] /\ todo.main = <<>>
    BY <1>1, <1>6 DEF OnRevert, Begins, Idle, Reverting, Todo
  <2>2. todo' \in Todo /\ ~RevertDue' /\ RevertDue
    <3>1. <<>> # Reverting /\ <<>> # <<"settle", "locked">>
      BY Lengths
    <3>2. RevertDue /\ ~RevertDue'
      BY <1>6, <2>1, <3>1 DEF OnRevert, RevertDue
    <3> QED BY <1>1, <2>1, <3>2 DEF Todo
  <2>3. lines' \in Seq(Radio) /\ Len(lines') = Len(lines) + 1
    BY <1>1, <1>6 DEF OnRevert, Other, Radio
  <2>4. memory' \in [before : Radio, asked : {Never} \cup 0 .. RadioWaitTime + 3, clean : BOOLEAN]
    BY <1>1, <1>6 DEF OnRevert
  <2>5. switches' = switches /\ Len(lines') + (IF RevertDue' THEN 1 ELSE 0) <= switches' + 1
    BY <1>1, <1>6, <2>2, <2>3 DEF OnRevert, Shape
  <2> QED BY <1>6, <2>2, <2>3, <2>4, <2>5 DEF OnRevert, Shape
<1>7. CASE ParseSlow
  <2>1. reports' \in Seq(Radio) /\ Len(reports') = Len(reports) - 1 /\ Head(reports) \in Radio
    BY <1>1, <1>7 DEF ParseSlow
  <2>2. todo' \in Todo /\ todo'.main = todo.main
    <3>1. CASE Believed(Head(reports))
      <4>1. todo' = [main |-> todo.main, serial |-> <<Head(reports), "settle", "locked">>]
        BY <1>1, <1>7, <3>1 DEF ParseSlow, Begins, Todo
      <4> QED BY <1>1, <2>1, <4>1 DEF Todo
    <3>2. CASE ~Believed(Head(reports))
      BY <1>1, <1>7, <3>2 DEF ParseSlow
    <3> QED BY <3>1, <3>2
  <2>3. RevertDue' <=> RevertDue
    BY <1>7, <2>2 DEF ParseSlow, RevertDue, WaitedTooLong
  <2>4. memory' \in [before : Radio, asked : {Never} \cup 0 .. RadioWaitTime + 3, clean : BOOLEAN]
    BY <1>1, <1>7 DEF ParseSlow
  <2>5. Len(reports') <= MaxLag + (IF reported' THEN 1 ELSE 0)
    BY <1>1, <1>7, <2>1, Times DEF ParseSlow, Shape
  <2> QED BY <1>7, <2>1, <2>2, <2>3, <2>4, <2>5 DEF ParseSlow, Shape
<1>8. CASE ParseRadioCommand \/ LoseRadioCommand
  <2>1. /\ lines' \in Seq(Radio) /\ Len(lines') = Len(lines) - 1 /\ radio' \in Radio
        /\ memory' \in [before : Radio, asked : {Never} \cup 0 .. RadioWaitTime + 3, clean : BOOLEAN]
    <3>1. lines # <<>> /\ lines' = Tail(lines) /\ radio' \in {radio, Head(lines)}
      BY <1>8 DEF ParseRadioCommand, LoseRadioCommand
    <3>2. memory' \in {memory, [memory EXCEPT !.clean = FALSE]}
      BY <1>8 DEF ParseRadioCommand, LoseRadioCommand
    <3>3. Head(lines) \in Radio /\ Tail(lines) \in Seq(Radio) /\ Len(Tail(lines)) = Len(lines) - 1
      BY <1>1, <3>1
    <3> QED BY <1>1, <3>1, <3>2, <3>3
  <2>2. RevertDue' <=> RevertDue
    BY <1>8 DEF ParseRadioCommand, LoseRadioCommand, RevertDue, WaitedTooLong
  <2>3. switches' = switches /\ Len(lines') + (IF RevertDue' THEN 1 ELSE 0) <= switches' + 1
    BY <1>1, <1>8, <2>1, <2>2 DEF ParseRadioCommand, LoseRadioCommand, Shape
  <2> QED BY <1>8, <2>1, <2>3 DEF ParseRadioCommand, LoseRadioCommand, Shape
<1>9. CASE PublishSlow
  <2>1. reports' \in Seq(Radio) /\ Len(reports') = Len(reports) + 1
    BY <1>1, <1>9 DEF PublishSlow
  <2>2. RevertDue' <=> RevertDue
    BY <1>9 DEF PublishSlow, RevertDue, WaitedTooLong
  <2>3. Len(reports') <= MaxLag + (IF reported' THEN 1 ELSE 0)
    BY <1>1, <1>9, <2>1, Times DEF PublishSlow, Shape
  <2> QED BY <1>9, <2>1, <2>2, <2>3 DEF PublishSlow, Shape
<1>10. ASSUME NEW key \in {"1", "2"}, AtConsole(key) PROVE Shape'
  <2>1. radio' \in Radio
    BY <1>1, <1>10 DEF AtConsole, HandleRadioMenu, Radio
  <2>2. RevertDue' <=> RevertDue
    BY <1>10 DEF AtConsole, RevertDue, WaitedTooLong
  <2>3. switches' = switches + 1 /\ switches' \in 0 .. MaxSwitches
    BY <1>1, <1>10, Times DEF AtConsole, Switches
  <2>4. memory' \in [before : Radio, asked : {Never} \cup 0 .. RadioWaitTime + 3, clean : BOOLEAN]
    BY <1>1, <1>10 DEF AtConsole
  <2>5. lines' = lines /\ Len(lines') + (IF RevertDue' THEN 1 ELSE 0) <= switches' + 1
    BY <1>1, <1>10, <2>2, <2>3 DEF AtConsole, Shape
  <2> QED BY <1>10, <2>1, <2>3, <2>4, <2>5 DEF AtConsole, Shape
<1>11. CASE RadioTick
  <2>1. setAge' \in {Never} \cup 0 .. RadioWaitTime + 1
    BY <1>1, <1>11, Times DEF RadioTick, Aged
  <2>2. memory' \in [before : Radio, asked : {Never} \cup 0 .. RadioWaitTime + 3, clean : BOOLEAN]
    BY <1>1, <1>11, Times DEF RadioTick, Aged
  <2>3. Len(lines') + (IF RevertDue' THEN 1 ELSE 0) <= switches' + 1
    <3>1. lines' = <<>> /\ Len(lines') = 0 /\ switches' = switches
      BY <1>11 DEF RadioTick
    <3> QED BY <1>1, <3>1
  <2>4. Len(reports') <= MaxLag + (IF reported' THEN 1 ELSE 0) /\ reported' \in BOOLEAN
    <3>1. reports' = reports /\ reported' = FALSE /\ Len(reports) <= MaxLag
      BY <1>11 DEF RadioTick
    <3>2. (IF reported' THEN 1 ELSE 0) = 0 /\ Len(reports') = Len(reports)
      BY <3>1
    <3>3. Len(reports) <= MaxLag + 0
      BY <1>1, <3>1, Times
    <3> QED BY <3>1, <3>2, <3>3
  <2> QED BY <1>11, <2>1, <2>2, <2>3, <2>4 DEF RadioTick, Shape
<1>12. CASE UNCHANGED radioVars
  BY <1>12 DEF radioVars, Shape, RevertDue, WaitedTooLong
<1> QED
  BY <1>2, <1>3, <1>4, <1>5, <1>6, <1>7, <1>8, <1>9, <1>10, <1>11, <1>12
    DEF RadioNext, MainThread, SerialThread

\* The state keeps its shape.  A line is on its way for every switch of the bound at
\* most, and one for a revert; the serial thread's lag bounds the reports.
THEOREM RadioTypeCorrect == RadioSpec => []RadioTypeOK
<1>1. RadioSpec => []Shape
  BY InitShape, ShapeStep, PTL DEF RadioSpec
<1>2. Shape => RadioTypeOK
  <2> SUFFICES ASSUME Shape PROVE RadioTypeOK
    OBVIOUS
  <2>1. ASSUME NEW thread \in {"main", "serial"}
        PROVE  Len(todo[thread]) <= 3 /\ Range(todo[thread]) \subseteq Writes
    <3> DEFINE s == todo[thread]
    <3>1. \/ \E to \in Radio : s \in {<<to, "unlocked", "wait">>, <<to, "settle", "locked">>}
          \/ s \in {<<>>, Reverting, <<"unlocked", "wait">>, <<"wait">>, <<"settle", "locked">>,
                    <<"locked">>}
      BY DEF Shape, Todo, Settling, Changing
    <3> HIDE DEF s
    <3>2. s \in Seq(Writes) /\ Len(s) <= 3
      <4>1. CASE \E to \in Radio : s \in {<<to, "unlocked", "wait">>, <<to, "settle", "locked">>}
        <5>1. PICK to \in Radio : s \in {<<to, "unlocked", "wait">>, <<to, "settle", "locked">>}
          BY <4>1
        <5>2. {to, "unlocked", "wait", "settle", "locked"} \subseteq Writes
          BY DEF Writes
        <5> QED BY <5>1, <5>2, Lengths
      <4>2. CASE s \in {<<>>, Reverting, <<"unlocked", "wait">>, <<"wait">>,
                        <<"settle", "locked">>, <<"locked">>}
        <5>1. {"flip", "unlocked", "wait", "settle", "locked"} \subseteq Writes
          BY DEF Writes
        <5>2. s \in Seq(Writes)
          <6>1. <<>> \in Seq(Writes) /\ Reverting \in Seq(Writes)
            BY <5>1 DEF Reverting
          <6>2. <<"unlocked", "wait">> \in Seq(Writes) /\ <<"wait">> \in Seq(Writes)
            BY <5>1
          <6>3. <<"settle", "locked">> \in Seq(Writes) /\ <<"locked">> \in Seq(Writes)
            BY <5>1
          <6> QED BY <4>2, <6>1, <6>2, <6>3
        <5>3. Len(s) <= 3
          BY <4>2, Lengths
        <5> QED BY <5>2, <5>3
      <4> QED BY <3>1, <4>1, <4>2
    <3>3. Range(s) \subseteq Writes
      BY <3>2 DEF Range
    <3> QED BY <3>2, <3>3 DEF s
  <2>2. Len(lines) <= MaxSwitches + 1 /\ Range(lines) \subseteq Radio
    BY Times DEF Shape, Range
  <2>3. Len(reports) <= MaxLag + 1 /\ Range(reports) \subseteq Radio
    BY Times DEF Shape, Range
  <2> QED BY <2>1, <2>2, <2>3 DEF Shape, RadioTypeOK
<1> QED BY <1>1, <1>2, PTL
-----------------------------------------------------------------------------
(* A switch that nobody repeats *)

\* The radio that has power once every command has come.
Commanded == IF lines = <<>> THEN radio ELSE lines[Len(lines)]
Asked == Other(memory.before)

StartsToWait ==
  /\ memory.asked = 0
  /\ todo.serial = <<>>
  /\ todo.main \in Changing(Asked)
  /\ using = (IF todo.main = <<Asked, "unlocked", "wait">> THEN memory.before ELSE Asked)
  /\ Commanded = Asked

Waits ==
  /\ todo.main = <<>> /\ todo.serial = <<>>
  /\ setAge = memory.asked /\ using = Asked
  /\ Commanded = Asked
  /\ memory.asked > 0 =>
       /\ lines = <<>>
       /\ \A i \in 1 .. Len(reports) : reports[i] # Asked =>
            i + (memory.asked - 1) + (IF reported THEN 1 ELSE 0) <= Len(reports)

HasReverted ==
  /\ memory.asked > RadioWaitTime
  /\ Commanded = memory.before
  /\ memory.asked > RadioWaitTime + 1 => lines = <<>>
  /\ \/ todo.main = Reverting /\ todo.serial = <<>> /\ using = Asked
     \/ todo.main = <<"settle", "locked">> /\ todo.serial = <<>>
     \/ todo.main \in {<<"locked">>, <<>>} /\ setAge = Never

Reverts ==
  memory.clean /\ memory.asked # Never => ~first /\ (StartsToWait \/ Waits \/ HasReverted)

LEMMA InitReverts == RadioInit => Reverts
BY DEF RadioInit, Reverts

\* What there is to write tells what the main thread is doing.
LEMMA Distinct ==
  /\ \A to \in Radio : \A s \in Changing(to) : s # <<>> /\ s # Reverting /\ s \notin Settling
  /\ \A to, other \in Radio : <<other, "unlocked", "wait">> \in Changing(to) => other = to
  /\ \A to \in Radio : /\ <<"unlocked", "wait">> # <<to, "unlocked", "wait">>
                       /\ <<"wait">> # <<to, "unlocked", "wait">>
  /\ Reverting # <<>> /\ Reverting \notin Settling
  /\ <<"settle", "locked">> # <<>> /\ <<"locked">> # <<>> /\ <<"settle", "locked">> # <<"locked">>
<1>1. \A to \in Radio : \A s \in Changing(to) : s # <<>> /\ s # Reverting /\ s \notin Settling
  BY DEF Changing, Reverting, Settling
<1>2. \A to, other \in Radio : <<other, "unlocked", "wait">> \in Changing(to) => other = to
  BY DEF Changing
<1>3. \A to \in Radio : /\ <<"unlocked", "wait">> # <<to, "unlocked", "wait">>
                        /\ <<"wait">> # <<to, "unlocked", "wait">>
  OBVIOUS
<1>4. Reverting # <<>> /\ Reverting \notin Settling
  BY DEF Reverting, Settling
<1>5. <<"settle", "locked">> # <<>> /\ <<"locked">> # <<>> /\ <<"settle", "locked">> # <<"locked">>
  OBVIOUS
<1> QED BY <1>1, <1>2, <1>3, <1>4, <1>5

LEMMA Others ==
  \A to \in Radio : Other(to) \in Radio /\ Other(to) # to /\ Other(Other(to)) = to
BY DEF Radio, Other

LEMMA OnlyOther == \A to, other \in Radio : to # other => Other(other) = to
BY DEF Radio, Other

LEMMA RevertsStep ==
  ASSUME MaxLag <= SwitchTime, Shape, Reverts, [RadioNext]_radioVars
  PROVE  Reverts'
<1> SUFFICES ASSUME memory'.clean, memory'.asked # Never
             PROVE  ~first' /\ (StartsToWait' \/ Waits' \/ HasReverted')
  BY DEF Reverts
<1>1. /\ radio \in Radio /\ using \in Radio
      /\ setAge \in {Never} \cup 0 .. RadioWaitTime + 1
      /\ todo \in Todo
      /\ lines \in Seq(Radio) /\ reports \in Seq(Radio)
      /\ memory \in [before : Radio, asked : {Never} \cup 0 .. RadioWaitTime + 3, clean : BOOLEAN]
      /\ Len(reports) <= MaxLag + (IF reported THEN 1 ELSE 0)
  BY DEF Shape
<1>2. Asked \in Radio /\ Asked # memory.before /\ Other(Asked) = memory.before
  BY <1>1, Others DEF Asked
<1>3. ASSUME memory.clean, memory.asked # Never
      PROVE  ~first /\ (StartsToWait \/ Waits \/ HasReverted)
  BY <1>3 DEF Reverts
<1>4. CASE Write("main")
  <2>1. /\ memory' = memory /\ ~first' /\ lines' = lines /\ radio' = radio
        /\ reports' = reports /\ reported' = reported
    BY <1>3, <1>4 DEF Write
  <2>2. Commanded' = Commanded /\ Asked' = Asked
    BY <2>1 DEF Commanded, Asked
  <2>3. todo'.serial = todo.serial
    BY <1>4, MainWrite
  <2>4. CASE StartsToWait
    <3>1. todo.main \in Changing(Asked)
      BY <2>4 DEF StartsToWait
    <3>2. CASE todo.main = <<Asked, "unlocked", "wait">>
      <4>1. todo'.main = <<"unlocked", "wait">> /\ using' = Asked
        BY <1>2, <1>4, <3>1, <3>2, MainWrite, Distinct DEF Settling
      <4>2. todo'.main \in Changing(Asked) /\ todo'.main # <<Asked, "unlocked", "wait">>
        BY <1>2, <4>1, Distinct DEF Changing
      <4> QED BY <2>1, <2>2, <2>3, <2>4, <4>1, <4>2 DEF StartsToWait
    <3>3. CASE todo.main = <<"unlocked", "wait">>
      <4>1. todo'.main = <<"wait">> /\ using' = using
        BY <1>2, <1>4, <3>1, <3>3, MainWrite, Distinct DEF Settling
      <4>2. todo'.main \in Changing(Asked) /\ todo'.main # <<Asked, "unlocked", "wait">>
        BY <1>2, <4>1, Distinct DEF Changing
      <4>3. using = Asked
        BY <1>2, <2>4, <3>3, Distinct DEF StartsToWait
      <4> QED BY <2>1, <2>2, <2>3, <2>4, <4>1, <4>2, <4>3 DEF StartsToWait
    <3>4. CASE todo.main = <<"wait">>
      <4>1. todo'.main = <<>> /\ using' = using /\ setAge' = 0
        BY <1>2, <1>4, <3>1, <3>4, MainWrite, Distinct DEF Settling
      <4>2. using = Asked
        BY <1>2, <2>4, <3>4, Distinct DEF StartsToWait
      <4>3. Waits'
        BY <2>1, <2>2, <2>3, <2>4, <4>1, <4>2 DEF StartsToWait, Waits
      <4> QED BY <2>1, <4>3
    <3> QED BY <3>1, <3>2, <3>3, <3>4 DEF Changing
  <2>5. CASE Waits
    BY <1>4, <2>5 DEF Waits, Write, Idle
  <2>6. CASE HasReverted
    <3>1. CASE todo.main = Reverting /\ todo.serial = <<>>
      <4>1. todo'.main = <<"settle", "locked">>
        BY <1>2, <1>4, <3>1, MainWrite, Distinct DEF Settling, Changing
      <4> QED BY <2>1, <2>2, <2>3, <2>6, <3>1, <4>1 DEF HasReverted
    <3>2. CASE todo.main = <<"settle", "locked">>
      <4>1. todo'.main = <<"locked">> /\ setAge' = Never
        BY <1>2, <1>4, <3>2, MainWrite, Distinct DEF Settling, Changing
      <4> QED BY <2>1, <2>2, <2>6, <4>1 DEF HasReverted
    <3>3. CASE todo.main = <<"locked">> /\ setAge = Never
      <4>1. todo'.main = <<>> /\ setAge' = setAge
        BY <1>2, <1>4, <3>3, MainWrite, Distinct DEF Settling, Changing
      <4> QED BY <2>1, <2>2, <2>6, <3>3, <4>1 DEF HasReverted
    <3>4. todo.main # <<>>
      BY <1>4 DEF Write, Idle
    <3> QED BY <2>6, <3>1, <3>2, <3>3, <3>4 DEF HasReverted
  <2> QED BY <1>3, <2>1, <2>4, <2>5, <2>6
<1>5. CASE Write("serial")
  <2>1. /\ memory' = memory /\ ~first' /\ lines' = lines /\ radio' = radio
    BY <1>3, <1>5 DEF Write
  <2>2. Commanded' = Commanded /\ Asked' = Asked
    BY <2>1 DEF Commanded, Asked
  <2>3. todo.serial # <<>> /\ todo'.main = todo.main /\ setAge' \in {setAge, Never}
    BY <1>5, SerialWrite
  <2>4. ~StartsToWait /\ ~Waits
    BY <2>3 DEF StartsToWait, Waits
  <2>5. CASE HasReverted
    BY <2>1, <2>2, <2>3, <2>5 DEF HasReverted
  <2> QED BY <1>3, <2>1, <2>4, <2>5
<1>6. ASSUME NEW to \in Radio, OnChange(to) PROVE ~first' /\ StartsToWait'
  <2>1. ~first' /\ todo.serial = <<>>
    BY <1>6 DEF OnChange, Races, Shape, Todo, Idle
  <2>2. todo'.serial = <<>> /\ todo'.main = <<to, "unlocked", "wait">>
    BY <1>1, <1>6, <2>1 DEF OnChange, Begins, Todo
  <2>3. memory'.before = using /\ memory'.asked = 0
    BY <1>1, <1>6 DEF OnChange
  <2>4. Asked' = to /\ using' = memory'.before
    BY <1>1, <1>6, <2>3, OnlyOther DEF Asked, OnChange
  <2>5. Commanded' = to
    <3>1. lines' = Append(lines, to)
      BY <1>6 DEF OnChange
    <3>2. lines' # <<>> /\ lines'[Len(lines')] = to
      BY <1>1, <3>1
    <3> QED BY <3>2 DEF Commanded
  <2>6. todo'.main \in Changing(to)
    BY <2>2 DEF Changing
  <2> QED BY <2>1, <2>2, <2>3, <2>4, <2>5, <2>6 DEF StartsToWait
<1>7. ASSUME NEW to \in Radio, OnConfirmation(to) PROVE FALSE
  BY <1>1, <1>7 DEF OnConfirmation
<1>8. CASE OnRevert
  <2>1. /\ todo.main = <<>> /\ todo'.main = Reverting /\ todo'.serial = todo.serial
        /\ using' = using /\ ~(~first /\ first') /\ setAge # Never /\ setAge > RadioWaitTime
    BY <1>1, <1>8 DEF OnRevert, Begins, Idle, Todo, Reverting, WaitedTooLong
  <2>2. /\ memory'.before = memory.before /\ memory'.asked = memory.asked
        /\ memory'.clean => memory.clean
    BY <1>1, <1>8 DEF OnRevert
  <2>3. ~first /\ (StartsToWait \/ Waits \/ HasReverted)
    BY <1>3, <2>2
  <2>4. ~StartsToWait /\ ~HasReverted
    BY <1>2, <2>1, Distinct DEF StartsToWait, HasReverted
  <2>5. Waits
    BY <2>3, <2>4
  <2>6. Commanded' = memory.before
    <3>1. lines' = Append(lines, memory.before)
      BY <1>2, <1>8, <2>5 DEF OnRevert, Waits
    <3>2. lines' # <<>> /\ lines'[Len(lines')] = memory.before
      BY <1>1, <3>1
    <3> QED BY <3>2 DEF Commanded
  <2>7. memory.asked > RadioWaitTime /\ ~(memory.asked > RadioWaitTime + 1)
    BY <1>1, <2>1, <2>5, Times DEF Waits
  <2>8. HasReverted'
    BY <2>1, <2>2, <2>5, <2>6, <2>7 DEF Waits, HasReverted, Asked
  <2> QED BY <2>1, <2>3, <2>8
<1>9. CASE ParseSlow
  <2>1. /\ lines' = lines /\ radio' = radio /\ using' = using /\ setAge' = setAge
        /\ reported' = reported /\ ~(~first /\ first') /\ reports # <<>> /\ reports' = Tail(reports)
    BY <1>9 DEF ParseSlow
  <2>2. /\ memory'.before = memory.before /\ memory'.asked = memory.asked
        /\ memory'.clean => memory.clean
    BY <1>1, <1>9 DEF ParseSlow
  <2>3. ~first /\ (StartsToWait \/ Waits \/ HasReverted)
    BY <1>3, <2>2
  <2>4. Commanded' = Commanded /\ Asked' = Asked
    BY <2>1, <2>2 DEF Commanded, Asked
  <2>5. /\ Head(reports) = reports[1] /\ Len(reports) \in Nat /\ Len(reports) >= 1
        /\ Len(reports') = Len(reports) - 1
        /\ \A i \in 1 .. Len(reports') : reports'[i] = reports[i + 1]
    BY <1>1, <2>1
  <2>6. CASE Believed(Head(reports))
    <3>1. todo.main = <<>> /\ todo'.main = todo.main
      BY <1>1, <1>9, <2>6 DEF ParseSlow, Races, Idle, Begins, Todo
    <3>2. ~StartsToWait
      BY <1>2, <3>1, Distinct DEF StartsToWait
    <3>3. ~Waits
      <4> SUFFICES ASSUME Waits PROVE FALSE
        OBVIOUS
      <4>1. memory.asked \in Nat /\ memory.asked > SwitchTime /\ reports[1] # Asked
        BY <1>1, <2>2, <2>3, <2>5, <2>6, Times DEF Waits, Believed
      <4>2. 1 + (memory.asked - 1) + (IF reported THEN 1 ELSE 0) <= Len(reports)
        BY <2>5, <4>1, Times DEF Waits
      <4>3. (IF reported THEN 1 ELSE 0) \in {0, 1}
        OBVIOUS
      <4> HIDE DEF Waits
      <4> QED BY <1>1, <2>5, <4>1, <4>2, <4>3, Times
    <3>4. HasReverted'
      BY <2>1, <2>2, <2>3, <2>4, <3>1, <3>2, <3>3, Distinct DEF HasReverted
    <3> QED BY <2>1, <2>3, <3>4
  <2>7. CASE ~Believed(Head(reports))
    <3>1. todo' = todo
      BY <1>9, <2>7 DEF ParseSlow
    <3>2. CASE StartsToWait
      BY <2>1, <2>2, <2>3, <2>4, <3>1, <3>2 DEF StartsToWait
    <3>3. CASE Waits
      <4>1. ASSUME memory'.asked > 0, NEW i \in 1 .. Len(reports'), reports'[i] # Asked
            PROVE  i + (memory.asked - 1) + (IF reported THEN 1 ELSE 0) <= Len(reports')
        <5>1. i + 1 \in 1 .. Len(reports) /\ reports[i + 1] # Asked
          BY <2>5, <4>1
        <5>2. (i + 1) + (memory.asked - 1) + (IF reported THEN 1 ELSE 0) <= Len(reports)
          BY <2>2, <3>3, <4>1, <5>1 DEF Waits
        <5>3. memory.asked \in Int /\ (IF reported THEN 1 ELSE 0) \in {0, 1}
          BY <1>1, Times
        <5> QED BY <2>5, <5>2, <5>3
      <4>2. Waits'
        BY <2>1, <2>2, <2>4, <3>1, <3>3, <4>1 DEF Waits
      <4> QED BY <2>1, <2>3, <4>2
    <3>4. CASE HasReverted
      BY <2>1, <2>2, <2>3, <2>4, <3>1, <3>4 DEF HasReverted
    <3> QED BY <2>3, <3>2, <3>3, <3>4
  <2> QED BY <2>6, <2>7
<1>10. CASE ParseRadioCommand
  <2>1. UNCHANGED <<using, setAge, first, todo, reports, reported, memory>>
    BY <1>10 DEF ParseRadioCommand
  <2>2. lines # <<>> /\ lines' = Tail(lines) /\ radio' = Head(lines)
    BY <1>10 DEF ParseRadioCommand
  <2>3. Commanded' = Commanded
    <3>1. CASE Len(lines) = 1
      <4>1. lines' = <<>> /\ radio' = lines[Len(lines)]
        BY <1>1, <2>2, <3>1
      <4> QED BY <2>2, <4>1 DEF Commanded
    <3>2. CASE Len(lines) # 1
      <4>1. Len(lines) \in Nat /\ Len(lines) > 1
        <5>1. Len(lines) \in Nat /\ (Len(lines) = 0 => lines = <<>>)
          BY <1>1
        <5> QED BY <2>2, <3>2, <5>1
      <4>2. Len(lines') = Len(lines) - 1 /\ \A i \in 1 .. Len(lines') : lines'[i] = lines[i + 1]
        BY <1>1, <2>2
      <4>3. lines' # <<>> /\ lines'[Len(lines')] = lines[Len(lines)]
        BY <1>1, <4>1, <4>2
      <4> QED BY <2>2, <4>3 DEF Commanded
    <3> QED BY <3>1, <3>2
  <2>4. Asked' = Asked
    BY <2>1 DEF Asked
  <2>5. StartsToWait => StartsToWait'
    BY <2>1, <2>3, <2>4 DEF StartsToWait
  <2>6. Waits => Waits'
    BY <2>1, <2>2, <2>3, <2>4 DEF Waits
  <2>7. HasReverted => HasReverted'
    BY <2>1, <2>2, <2>3, <2>4 DEF HasReverted
  <2> QED BY <1>3, <2>1, <2>5, <2>6, <2>7
<1>11. CASE LoseRadioCommand
  BY <1>1, <1>11 DEF LoseRadioCommand
<1>12. CASE PublishSlow
  <2>1. UNCHANGED <<radio, lines, using, setAge, first, todo, memory>>
    BY <1>12 DEF PublishSlow
  <2>2. ~reported /\ reported' = TRUE /\ reports' = Append(reports, radio)
    BY <1>12 DEF PublishSlow
  <2>3. Commanded' = Commanded /\ Asked' = Asked
    BY <2>1 DEF Commanded, Asked
  <2>4. StartsToWait => StartsToWait'
    BY <2>1, <2>3 DEF StartsToWait
  <2>5. Waits => Waits'
    <3> SUFFICES ASSUME Waits PROVE Waits'
      OBVIOUS
    <3>1. ASSUME memory.asked > 0, NEW i \in 1 .. Len(reports'), reports'[i] # Asked
          PROVE  i + (memory.asked - 1) + 1 <= Len(reports')
      <4>1. radio = Asked
        BY <3>1 DEF Waits, Commanded
      <4>2. Len(reports') = Len(reports) + 1 /\ Len(reports) \in Nat
        BY <1>1, <2>2
      <4>3. i \in 1 .. Len(reports) /\ reports[i] # Asked
        BY <1>1, <2>2, <3>1, <4>1, <4>2
      <4>4. i + (memory.asked - 1) + 0 <= Len(reports)
        BY <2>2, <3>1, <4>3 DEF Waits
      <4>5. memory.asked \in Int
        BY <1>1, Times
      <4> QED BY <4>2, <4>3, <4>4, <4>5
    <3>2. (IF reported' THEN 1 ELSE 0) = 1
      BY <2>2
    <3> QED BY <2>1, <2>3, <3>1, <3>2 DEF Waits
  <2>6. HasReverted => HasReverted'
    BY <2>1, <2>3 DEF HasReverted
  <2> QED BY <1>3, <2>1, <2>4, <2>5, <2>6
<1>13. ASSUME NEW key \in {"1", "2"}, AtConsole(key) PROVE FALSE
  BY <1>1, <1>13 DEF AtConsole
<1>14. CASE RadioTick
  <2>1. /\ UNCHANGED <<radio, using, first, todo, lines, reports>>
        /\ todo.main = <<>> /\ lines = <<>> /\ reported /\ reported' = FALSE
    BY <1>14 DEF RadioTick, Idle
  <2>2. /\ memory'.before = memory.before /\ memory'.clean = memory.clean
        /\ memory'.asked = Aged(memory.asked, RadioWaitTime + 3)
        /\ setAge' = Aged(setAge, RadioWaitTime + 1)
        /\ ~(setAge # Never /\ setAge > RadioWaitTime)
    BY <1>1, <1>14 DEF RadioTick, WaitedTooLong
  <2>3. memory.asked # Never
    BY <2>2 DEF Aged
  <2>4. Commanded' = Commanded /\ Asked' = Asked
    BY <2>1, <2>2 DEF Commanded, Asked
  <2>5. ~StartsToWait
    BY <1>2, <2>1, Distinct DEF StartsToWait
  <2>6. Waits => Waits'
    <3> SUFFICES ASSUME Waits PROVE Waits'
      OBVIOUS
    <3>1. memory.asked \in 0 .. RadioWaitTime /\ memory.asked = setAge
      BY <1>1, <2>2, <2>3, Times DEF Waits
    <3>2. memory'.asked = memory.asked + 1 /\ setAge' = setAge + 1
      BY <2>2, <3>1, Times DEF Aged
    <3>3. ASSUME NEW i \in 1 .. Len(reports), reports[i] # Asked
          PROVE  i + memory.asked <= Len(reports)
      <4>1. CASE memory.asked = 0
        BY <4>1, <1>1
      <4>2. CASE memory.asked > 0
        <5>1. i + (memory.asked - 1) + 1 <= Len(reports)
          BY <2>1, <3>3, <4>2 DEF Waits
        <5> QED BY <3>1, <5>1, <1>1
      <4> QED BY <3>1, <4>1, <4>2
    <3>4. (IF reported' THEN 1 ELSE 0) = 0
      BY <2>1
    <3>5. \A i \in 1 .. Len(reports') : reports'[i] # Asked' =>
            i + (memory'.asked - 1) + (IF reported' THEN 1 ELSE 0) <= Len(reports')
      BY <2>1, <2>4, <3>1, <3>2, <3>3, <3>4, <1>1
    <3> QED BY <2>1, <2>4, <3>1, <3>2, <3>5 DEF Waits
  <2>7. HasReverted => HasReverted'
    <3> SUFFICES ASSUME HasReverted PROVE HasReverted'
      OBVIOUS
    <3>1. setAge = Never /\ setAge' = Never
      BY <2>1, <2>2, Distinct DEF HasReverted, Aged
    <3>2. memory'.asked >= memory.asked /\ memory'.asked \in Int /\ memory.asked \in Int
      BY <1>1, <2>2, Times DEF Aged
    <3>3. memory'.asked > RadioWaitTime
      BY <3>2, Times DEF HasReverted
    <3> QED BY <2>1, <2>2, <2>4, <3>1, <3>3 DEF HasReverted
  <2> QED BY <1>3, <2>1, <2>2, <2>3, <2>5, <2>6, <2>7
<1>15. CASE UNCHANGED radioVars
  <2>1. UNCHANGED <<radio, using, setAge, first, todo, lines, reports, reported, memory>>
    BY <1>15 DEF radioVars
  <2>2. Commanded' = Commanded /\ Asked' = Asked
    BY <2>1 DEF Commanded, Asked
  <2> QED BY <1>3, <2>1, <2>2 DEF StartsToWait, Waits, HasReverted
<1> QED
  BY <1>4, <1>5, <1>6, <1>7, <1>8, <1>9, <1>10, <1>11, <1>12, <1>13, <1>14, <1>15
    DEF RadioNext, MainThread, SerialThread

\* If the serial thread lags behind by no more reports than are made until a
\* different one is believed, a switch that nobody repeats is undone: whatever
\* the times, however often and in whatever order the radio was switched before.
THEOREM UnconfirmedSwitchIsUndone ==
  ASSUME MaxLag <= SwitchTime
  PROVE  RadioSpec => []UnconfirmedReverts
<1>1. Shape /\ Reverts /\ [RadioNext]_radioVars => Reverts'
  BY RevertsStep
<1>2. RadioSpec => [](Shape /\ Reverts)
  BY <1>1, InitShape, ShapeStep, InitReverts, PTL DEF RadioSpec
<1>3. Shape /\ Reverts => UnconfirmedReverts
  <2> SUFFICES ASSUME Shape, Reverts, memory.clean, memory.asked > RadioWaitTime + 2
               PROVE  radio = memory.before
    BY DEF UnconfirmedReverts
  <2>1. /\ memory.asked \in {Never} \cup 0 .. RadioWaitTime + 3
        /\ setAge \in {Never} \cup 0 .. RadioWaitTime + 1
    BY DEF Shape
  <2>2. memory.asked # Never /\ memory.asked > RadioWaitTime + 1
    BY <2>1, Times
  <2>3. ~StartsToWait /\ ~Waits
    BY <2>1, <2>2, Times DEF StartsToWait, Waits
  <2>4. HasReverted
    BY <2>2, <2>3 DEF Reverts
  <2> QED BY <2>2, <2>4 DEF HasReverted, Commanded
<1> QED BY <1>2, <1>3, PTL
=============================================================================
