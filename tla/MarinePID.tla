------------------------------ MODULE MarinePID ------------------------------
(***************************************************************************)
(* pMarinePID_Hover with its PIDEngine, as operators on its state: when it  *)
(* posts rudder and thrust, and when it runs the controller of the speed.   *)
(*                                                                         *)
(* The speed is controlled by the linear fit with a PID on top (FIT_PID),   *)
(* without depth control, as configured for the kayaks.  What the           *)
(* controllers compute is any value; told apart is 0 from the others.       *)
(* Mail whose time stamp is six minutes off, which is ignored, is left out: *)
(* the programs share a MOOSDB and its clock.                               *)
(***************************************************************************)
EXTENDS Integers

CONSTANTS
  TardyHelm, TardyNav,     \* 2 seconds each
  TimeDelay,               \* TIME_DELAY
  AngleLimit,              \* ANGLE_LIMIT
  ActiveStart              \* ACTIVE_START: who has control at first

ASSUME PidParameters ==
  /\ TardyHelm \in Nat \ {0} /\ TardyNav \in Nat \ {0} /\ TimeDelay \in Nat
  /\ AngleLimit \in 1 .. 180 /\ ActiveStart \in BOOLEAN

Heading == 0 .. 359

\* m_headingValidStart = -1
NotValid == -1

PidState ==
  [has_control : BOOLEAN, allstop_posted : BOOLEAN, moving : BOOLEAN,
   desired : Heading, current : Heading,
   helm : 0 .. TardyHelm + 1, nav : 0 .. TardyNav + 1, valid : {NotValid} \cup 0 .. TimeDelay + 1]

\* What was posted last as DESIRED_THRUST and DESIRED_RUDDER: whether they are not 0.
Output == [thrust : BOOLEAN, rudder : BOOLEAN]
Still == [thrust |-> FALSE, rudder |-> FALSE]

InitPid ==
  [has_control |-> ActiveStart, allstop_posted |-> FALSE, moving |-> FALSE, desired |-> 0,
   current |-> 0, helm |-> TardyHelm + 1, nav |-> TardyNav + 1, valid |-> NotValid]

OlderPid(p) ==
  [p EXCEPT !.helm = IF @ > TardyHelm THEN @ ELSE @ + 1,
            !.nav = IF @ > TardyNav THEN @ ELSE @ + 1,
            !.valid = IF @ = NotValid \/ @ > TimeDelay THEN @ ELSE @ + 1]
-----------------------------------------------------------------------------
(* Mail *)

\* Fault: all that is called NAV_ is registered for.
RegisteredByPrefix == {"NAV_HEADING", "NAV_SPEED", "NAV_SOURCE"}

\* What it registers for, of what pNavManager posts.  A key NAV_ renews the time of the
\* navigation, whichever it is.
Registered == {"NAV_HEADING", "NAV_SPEED"}

OnNavigation(p, key, heading) ==
  [p EXCEPT !.nav = 0, !.current = IF key = "NAV_HEADING" THEN heading ELSE @]

OnDesiredHeading(p, heading) == [p EXCEPT !.desired = heading, !.helm = 0]
OnDesiredSpeed(p, moving) == [p EXCEPT !.moving = moving, !.helm = 0]

\* MOOS_MANUAL_OVERRIDE; m_allow_overide is always true.
OnOverride(p, manual) == [p EXCEPT !.has_control = ~manual]
-----------------------------------------------------------------------------
(* Iterate *)

IsTardy(p) == p.helm > TardyHelm \/ p.nav > TardyNav

\* getDesiredThrust brings the difference of two headings below 180 degrees by half turns.
AngleDiff(p) ==
  LET diff == p.current - p.desired IN
    CASE diff < -180 -> diff + 180 [] diff > 180 -> diff - 180 [] OTHER -> diff

HeadingIsValid(p) == AngleDiff(p) < AngleLimit /\ -AngleDiff(p) < AngleLimit

RunsSpeedPid(p) == HeadingIsValid(p) /\ p.valid > TimeDelay

\* The rudder is 0 with the thrust.
Controls(p) ==
  {Still} \cup {out \in Output : p.moving /\ out.thrust}

\* Fault: after a stop there will not be another.
AfterControlStopped(p) ==
  [p EXCEPT !.valid = IF ~HeadingIsValid(p) THEN NotValid ELSE IF @ = NotValid THEN 0 ELSE @]

AfterControl(p) ==
  [p EXCEPT !.allstop_posted = FALSE,
            !.valid = IF ~HeadingIsValid(p) THEN NotValid ELSE IF @ = NotValid THEN 0 ELSE @]

\* Fault: with the last helm message the last thrust stays.
TardyOutputAsBefore(p, out) == IF p.helm > TardyHelm THEN out ELSE [out EXCEPT !.thrust = FALSE]

\* Thrust 0; the rudder stays as it was.
TardyOutput(p, out) == [out EXCEPT !.thrust = FALSE]

\* The pairs of state and output that an Iterate may lead to.
PidIterates(p, out) ==
  CASE ~p.has_control /\ p.allstop_posted -> {<<p, out>>}
    [] ~p.has_control /\ ~p.allstop_posted -> {<<[p EXCEPT !.allstop_posted = TRUE], Still>>}
    [] p.has_control /\ IsTardy(p) -> {<<p, TardyOutput(p, out)>>}
    [] OTHER -> {<<AfterControl(p), new>> : new \in Controls(p)}
=============================================================================
