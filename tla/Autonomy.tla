------------------------------ MODULE Autonomy ------------------------------
(***************************************************************************)
(* The way from a vehicle's sensors to its desired rudder and thrust:       *)
(* pNavManager mirrors a source of positions, pMarinePID_Hover follows the  *)
(* helm with it.  Each handles its mail and iterates at least once in a     *)
(* unit of time.  Sensors and the helm may fall silent at any moment.       *)
(***************************************************************************)
EXTENDS NavManager, MarinePID

CONSTANTS
  Headings,          \* that the compass shows and the helm desires
  MaxInputs          \* bound: messages of sensors, helm and operator

ASSUME AutonomyParameters == Headings \subseteq Heading /\ MaxInputs \in Nat

VARIABLES
  nav, pid,    \* the state of the two programs
  mail,        \* what pMarinePID_Hover has still to read of pNavManager: keys and headings
  announced,   \* NAV_SOURCE
  mirrored,    \* whose position or speed was mirrored last
  out,         \* DESIRED_THRUST, DESIRED_RUDDER
  done,        \* the programs that have iterated since their last mail, in this unit of time
  inputs,      \* how much of the bound is used up
  past         \* what properties refer to, no handler reads it: among others when a source was
               \* really heard, and whose time is still what the memory held (unset)

autonomyVars == <<nav, pid, mail, announced, mirrored, out, done, inputs, past>>

\* The difference of two headings as it is.
OnCourse(p) ==
  LET diff == (p.current - p.desired) % 360 IN diff < AngleLimit \/ 360 - diff < AngleLimit

AutonomyInit ==
  /\ nav \in InitNav /\ pid = InitPid
  /\ mail = <<>> /\ announced = "unset" /\ mirrored = "none"
  /\ out = Still
  /\ done = {}
  /\ inputs = 0
  /\ past = [helm |-> TardyHelm + 2, sensors |-> TardyNav + 2, course |-> 0, onCourse |-> TimeDelay,
             heard |-> [s \in PositionSource |-> NavTimeout + 1], unset |-> PositionSource]

Input == inputs < MaxInputs /\ inputs' = inputs + 1

\* A key is posted to those who are registered for it.
Post(key, heading) ==
  mail' = IF key \in Registered THEN Append(mail, <<key, heading>>) ELSE mail
-----------------------------------------------------------------------------
(* pNavManager *)

NavMail == Input /\ done' = done \ {"nav"}
Heard == past' = [past EXCEPT !.sensors = 0]

Fix(s) ==
  /\ nav' = OnFix(nav, s) /\ NavMail
  /\ past' = [past EXCEPT !.sensors = 0, !.heard[s] = 0, !.unset = @ \ {s}]
  /\ mirrored' = IF Mirrors(nav, s) THEN s ELSE mirrored
  /\ UNCHANGED <<pid, mail, announced, out>>

Speed(s) ==
  /\ Mirrors(nav, s)
  /\ mirrored' = s
  /\ Post("NAV_SPEED", 0) /\ NavMail /\ Heard
  /\ UNCHANGED <<nav, pid, announced, out>>

Steers(s, heading) ==
  /\ HeadingSource(nav) = s
  /\ Post("NAV_HEADING", heading) /\ NavMail /\ Heard
  /\ UNCHANGED <<nav, pid, announced, mirrored, out>>

Receiver(n) ==
  /\ n # nav /\ nav' = n
  /\ NavMail
  /\ UNCHANGED <<pid, mail, announced, mirrored, out, past>>

\* The state becomes n, and the source is posted or not.
Announces(n, posts) ==
  /\ nav' = IF posts THEN [n EXCEPT !.posted = 0] ELSE n
  /\ IF posts THEN announced' = n.source /\ Post("NAV_SOURCE", 0)
     ELSE UNCHANGED <<announced, mail>>

SourceRequest(s) ==
  /\ NavMail
  /\ Announces(OnSetNavSource(nav, s), IsNew(nav, OnSetNavSource(nav, s)))
  /\ UNCHANGED <<pid, mirrored, out, past>>

NavIterate ==
  /\ Announces(AfterNavIterate(nav), IsNew(nav, AfterNavIterate(nav)) \/ IsDue(nav))
  /\ done' = done \cup {"nav"}
  /\ UNCHANGED <<pid, mirrored, out, inputs, past>>
-----------------------------------------------------------------------------
(* pMarinePID_Hover *)

PidMail(p) ==
  /\ pid' = p
  /\ done' = done \ {"pid"}
  /\ UNCHANGED <<nav, announced, mirrored, out>>

Navigation ==
  /\ mail # <<>>
  /\ PidMail(OnNavigation(pid, Head(mail)[1], Head(mail)[2]))
  /\ mail' = Tail(mail)
  /\ past' = IF OnCourse(pid') THEN past ELSE [past EXCEPT !.course = 0]
  /\ UNCHANGED inputs

HelmSays(p) ==
  /\ PidMail(p)
  /\ Input
  /\ past' = [past EXCEPT !.helm = 0, !.course = IF OnCourse(p) THEN @ ELSE 0]
  /\ UNCHANGED mail

Override(manual) ==
  /\ Input
  /\ PidMail(OnOverride(pid, manual))
  /\ UNCHANGED <<mail, past>>

PidIterate ==
  /\ \E next \in PidIterates(pid, out) : pid' = next[1] /\ out' = next[2]
  /\ done' = done \cup {"pid"}
  /\ past' = IF pid.has_control /\ ~IsTardy(pid) /\ RunsSpeedPid(pid)
             THEN [past EXCEPT !.onCourse = past.course] ELSE past
  /\ UNCHANGED <<nav, mail, announced, mirrored, inputs>>
-----------------------------------------------------------------------------
AutonomyTick ==
  /\ done = {"nav", "pid"} /\ mail = <<>>
  /\ done' = {}
  /\ nav' = OlderNav(nav) /\ pid' = OlderPid(pid)
  /\ past' = [past EXCEPT !.helm = IF @ > TardyHelm + 1 THEN @ ELSE @ + 1,
                          !.sensors = IF @ > TardyNav + 1 THEN @ ELSE @ + 1,
                          !.course = IF OnCourse(pid) /\ @ <= TimeDelay THEN @ + 1 ELSE @,
                          !.heard = [s \in PositionSource |->
                                       IF @[s] > NavTimeout THEN @[s] ELSE @[s] + 1]]
  /\ UNCHANGED <<mail, announced, mirrored, out, inputs>>

AutonomyNext ==
  \/ \E s \in PositionSource : Fix(s) \/ Speed(s)
  \/ \E s \in {"compass", "exp"}, heading \in Headings : Steers(s, heading)
  \/ \E lock \in BOOLEAN : Receiver(OnLock(nav, lock))
  \/ \E quality \in Quality : Receiver(OnQuality(nav, quality))
  \/ \E s \in {"exp", "none"} : SourceRequest(s)
  \/ NavIterate
  \/ Navigation
  \/ \E heading \in Headings : HelmSays(OnDesiredHeading(pid, heading))
  \/ \E moving \in BOOLEAN : HelmSays(OnDesiredSpeed(pid, moving))
  \/ \E manual \in BOOLEAN : Override(manual)
  \/ PidIterate
  \/ AutonomyTick

AutonomySpec == AutonomyInit /\ [][AutonomyNext]_autonomyVars
-----------------------------------------------------------------------------
(* Properties *)

\* The state keeps its shape.
AutonomyTypeOK ==
  /\ nav \in NavState /\ pid \in PidState
  /\ mail \in Seq({"NAV_HEADING", "NAV_SPEED"} \X Heading) /\ Len(mail) <= MaxInputs
  /\ announced \in NavSource \cup {"unset"} /\ mirrored \in NavSource
  /\ out \in Output /\ done \subseteq {"nav", "pid"} /\ inputs \in 0 .. MaxInputs

\* Without control the vehicle stands still, however often control was given and taken.
StillWithoutControl == "pid" \in done /\ ~pid.has_control => out = Still

\* When the helm falls silent the thrust ends ...
SilentHelmStops == past.helm > TardyHelm + 1 => ~out.thrust

\* ... and when the sensors do, although pNavManager goes on to post.
SilentSensorsStop == past.sensors > TardyNav + 1 => ~out.thrust

\* A source that is in use has been heard within the timeout.  This fails only for a source
\* that was never heard, whose time the constructor left as the memory was: if that lies in the
\* future, or not a timeout ago, Iterate and SET_NAV_SOURCE take the source for one that is there.
SourceIsAlive ==
  nav.source # "none" =>
    \/ past.heard[nav.source] <= NavTimeout
    \/ nav.source \in past.unset
       /\ (nav.age[nav.source] = Future \/ nav.age[nav.source] \in 0 .. NavTimeout)

\* What is mirrored is of the source that was announced.
MirrorsWhatIsAnnounced == [][mirrored' # mirrored => mirrored' = announced]_autonomyVars

\* The speed PID is only run when the vehicle's heading is within ANGLE_LIMIT of the desired
\* heading for at least TIME_DELAY.
PidRunsOnCourse == past.onCourse >= TimeDelay
=============================================================================
