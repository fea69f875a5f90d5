--------------------------- MODULE AutonomyProofs ---------------------------
(***************************************************************************)
(* What Autonomy promises, for all timeouts, priorities, headings and       *)
(* contents of the memory.  The types come first; each property then has    *)
(* an inductive invariant of its own.                                      *)
(***************************************************************************)
EXTENDS Autonomy, FiniteSetTheorems, WellFoundedInduction, TLAPS

-----------------------------------------------------------------------------
(* pNavManager *)

\* A set of numbers that is not empty has a least one.
LEMMA LeastIsMember ==
  ASSUME NEW S \in SUBSET Nat, S # {}
  PROVE  Min(S) \in S
<1> DEFINE Less == {pair \in Nat \X Nat : pair[1] < pair[2]}
<1>1. IsWellFoundedOn(Less, Nat)
  BY NatLessThanWellFounded DEF OpToRel
<1>2. \E x \in S : \A y \in S : ~(<<y, x>> \in Less)
  BY <1>1, WFMin
<1>3. \E x \in S : \A y \in S : x <= y
  <2>1. PICK x \in S : \A y \in S : ~(<<y, x>> \in Less)
    BY <1>2
  <2>2. x \in Nat /\ \A y \in S : y \in Nat /\ ~(y < x)
    BY <2>1
  <2>3. \A y \in S : x <= y
    BY <2>2
  <2> QED BY <2>3
<1> QED BY <1>3 DEF Min

LEMMA NavFields ==
  ASSUME NEW n \in NavState
  PROVE  /\ n.source \in NavSource /\ n.exp_available \in BOOLEAN /\ n.gps_lock \in BOOLEAN
         /\ n.rtk_status \in Quality /\ n.age \in [PositionSource -> NavAge]
         /\ n.posted \in 0 .. Heartbeat + 1
         /\ \A s \in PositionSource : n.age[s] \in NavAge /\ n.age[s] \in Int
BY NavParameters DEF NavState, NavAge, Future

\* The best source, if there is one, is fresh.
LEMMA BestIsFresh ==
  ASSUME NEW n \in NavState
  PROVE  /\ BestAvailable(n) \in NavSource
         /\ BestAvailable(n) # "none" => Available(n, BestAvailable(n))
<1> DEFINE deciding == {i \in 1 .. Len(Priorities) : Decides(n, Priorities[i])}
<1>1. CASE deciding = {}
  BY <1>1 DEF BestAvailable, NavSource
<1>2. CASE deciding # {}
  <2>1. Len(Priorities) \in Nat
    BY NavParameters
  <2>2. Min(deciding) \in deciding
    BY <1>2, <2>1, LeastIsMember
  <2> DEFINE d == Priorities[Min(deciding)]
  <2>3. d \in DetailedSource /\ Decides(n, d)
    BY <2>2, NavParameters
  <2>4. BestAvailable(n) = Named(d)
    BY <1>2 DEF BestAvailable
  <2> HIDE DEF d, deciding
  <2> QED BY <2>3, <2>4 DEF Named, Decides, DetailedSource, NavSource, PositionSource
<1> QED BY <1>1, <1>2

LEMMA ChosenIsFresh ==
  ASSUME NEW n \in NavState
  PROVE  /\ Chosen(n) \in NavSource
         /\ Chosen(n) # "none" => Available(n, Chosen(n))
BY BestIsFresh DEF Chosen, NavSource, PositionSource

\* What the handlers make of the state.
LEMMA NavHandlerTypes ==
  ASSUME NEW n \in NavState
  PROVE  /\ \A s \in PositionSource : OnFix(n, s) \in NavState
         /\ \A lock \in BOOLEAN : OnLock(n, lock) \in NavState
         /\ \A quality \in Quality : OnQuality(n, quality) \in NavState
         /\ \A s \in {"exp", "none"} : OnSetNavSource(n, s) \in NavState
         /\ AfterNavIterate(n) \in NavState
         /\ OlderNav(n) \in NavState
         /\ [n EXCEPT !.posted = 0] \in NavState
<1> USE NavFields
<1>1. 0 \in NavAge /\ 0 \in 0 .. Heartbeat + 1 /\ "exp" \in NavSource /\ "none" \in NavSource
  BY NavParameters DEF NavAge, NavSource, PositionSource
<1>2. \A s \in PositionSource : OnFix(n, s) \in NavState
  BY <1>1 DEF OnFix, NavState
<1>3. \A lock \in BOOLEAN : OnLock(n, lock) \in NavState
  BY DEF OnLock, NavState
<1>4. \A quality \in Quality : OnQuality(n, quality) \in NavState
  BY DEF OnQuality, NavState
<1>5. \A s \in {"exp", "none"} : OnSetNavSource(n, s) \in NavState
  BY <1>1 DEF OnSetNavSource, NavState
<1>6. AfterNavIterate(n) \in NavState
  <2>1. Available(n, "exp") \in BOOLEAN
    BY DEF Available
  <2> QED BY <2>1, ChosenIsFresh DEF AfterNavIterate, NavState
<1>7. OlderNav(n) \in NavState
  <2> DEFINE age == [s \in PositionSource |->
               IF n.age[s] = Future \/ n.age[s] > NavTimeout THEN n.age[s] ELSE n.age[s] + 1]
             posted == IF n.posted > Heartbeat THEN n.posted ELSE n.posted + 1
  <2>1. age \in [PositionSource -> NavAge] /\ posted \in 0 .. Heartbeat + 1
    BY NavParameters DEF NavAge, Future
  <2>2. OlderNav(n) = [n EXCEPT !.age = age, !.posted = posted]
    BY DEF OlderNav
  <2> HIDE DEF age, posted
  <2> QED BY <2>1, <2>2 DEF NavState
<1>8. [n EXCEPT !.posted = 0] \in NavState
  BY <1>1 DEF NavState
<1> QED BY <1>2, <1>3, <1>4, <1>5, <1>6, <1>7, <1>8
-----------------------------------------------------------------------------
(* pMarinePID_Hover *)

LEMMA PidFields ==
  ASSUME NEW p \in PidState
  PROVE  /\ p.has_control \in BOOLEAN /\ p.allstop_posted \in BOOLEAN /\ p.moving \in BOOLEAN
         /\ p.desired \in Heading /\ p.current \in Heading
         /\ p.helm \in 0 .. TardyHelm + 1 /\ p.nav \in 0 .. TardyNav + 1
         /\ p.valid \in {NotValid} \cup 0 .. TimeDelay + 1
BY DEF PidState

LEMMA PidHandlerTypes ==
  ASSUME NEW p \in PidState
  PROVE  /\ \A key, heading : heading \in Heading => OnNavigation(p, key, heading) \in PidState
         /\ \A heading \in Heading : OnDesiredHeading(p, heading) \in PidState
         /\ \A moving \in BOOLEAN : OnDesiredSpeed(p, moving) \in PidState
         /\ \A manual \in BOOLEAN : OnOverride(p, manual) \in PidState
         /\ OlderPid(p) \in PidState
         /\ AfterControl(p) \in PidState
         /\ [p EXCEPT !.allstop_posted = TRUE] \in PidState
<1> USE PidFields
<1>1. /\ 0 \in 0 .. TardyHelm + 1 /\ 0 \in 0 .. TardyNav + 1
      /\ 0 \in {NotValid} \cup 0 .. TimeDelay + 1 /\ NotValid \in {NotValid} \cup 0 .. TimeDelay + 1
  BY PidParameters
<1>2. \A key, heading : heading \in Heading => OnNavigation(p, key, heading) \in PidState
  BY <1>1 DEF OnNavigation, PidState
<1>3. \A heading \in Heading : OnDesiredHeading(p, heading) \in PidState
  BY <1>1 DEF OnDesiredHeading, PidState
<1>4. \A moving \in BOOLEAN : OnDesiredSpeed(p, moving) \in PidState
  BY <1>1 DEF OnDesiredSpeed, PidState
<1>5. \A manual \in BOOLEAN : OnOverride(p, manual) \in PidState
  BY DEF OnOverride, PidState
<1>6. OlderPid(p) \in PidState
  <2> DEFINE helm == IF p.helm > TardyHelm THEN p.helm ELSE p.helm + 1
             heard == IF p.nav > TardyNav THEN p.nav ELSE p.nav + 1
             valid == IF p.valid = NotValid \/ p.valid > TimeDelay THEN p.valid ELSE p.valid + 1
  <2>1. /\ helm \in 0 .. TardyHelm + 1 /\ heard \in 0 .. TardyNav + 1
        /\ valid \in {NotValid} \cup 0 .. TimeDelay + 1
    BY PidParameters DEF NotValid
  <2>2. OlderPid(p) = [p EXCEPT !.helm = helm, !.nav = heard, !.valid = valid]
    BY DEF OlderPid
  <2> HIDE DEF helm, heard, valid
  <2> QED BY <2>1, <2>2 DEF PidState
<1>7. AfterControl(p) \in PidState
  BY <1>1 DEF AfterControl, PidState
<1>8. [p EXCEPT !.allstop_posted = TRUE] \in PidState
  BY DEF PidState
<1> QED BY <1>2, <1>3, <1>4, <1>5, <1>6, <1>7, <1>8

\* What an Iterate may lead to: a stop, if it has no control or the helm or the navigation are
\* tardy.
LEMMA PidIteratesTo ==
  ASSUME NEW p \in PidState, NEW o \in Output, NEW q, NEW r, <<q, r>> \in PidIterates(p, o)
  PROVE  /\ q \in PidState /\ r \in Output
         /\ q.helm = p.helm /\ q.nav = p.nav /\ q.has_control = p.has_control
         /\ \/ ~p.has_control /\ q.allstop_posted /\ ((r = o /\ p.allstop_posted) \/ r = Still)
            \/ p.has_control /\ IsTardy(p) /\ q = p /\ ~r.thrust /\ (o = Still => r = Still)
            \/ p.has_control /\ ~IsTardy(p) /\ ~q.allstop_posted
<1> USE PidHandlerTypes, PidFields
<1>1. Still \in Output /\ ~Still.thrust
  BY DEF Still, Output
<1>2. CASE ~p.has_control /\ p.allstop_posted
  <2>1. q = p /\ r = o
    BY <1>2 DEF PidIterates
  <2> QED BY <1>2, <2>1
<1>3. CASE ~p.has_control /\ ~p.allstop_posted
  <2>1. q = [p EXCEPT !.allstop_posted = TRUE] /\ r = Still
    BY <1>3 DEF PidIterates
  <2> QED BY <1>1, <1>3, <2>1 DEF PidState
<1>4. CASE p.has_control /\ IsTardy(p)
  <2>1. q = p /\ r = TardyOutput(p, o)
    BY <1>4 DEF PidIterates
  <2>2. r \in Output /\ ~r.thrust /\ (o = Still => r = Still)
    <3> HIDE DEF IsTardy
    <3>1. r = [o EXCEPT !.thrust = FALSE]
      BY <2>1 DEF TardyOutput
    <3>2. r = [thrust |-> FALSE, rudder |-> o.rudder] /\ o.rudder \in BOOLEAN
      BY <3>1 DEF Output
    <3>3. o = Still => o.rudder = FALSE
      BY DEF Still
    <3> QED BY <3>2, <3>3 DEF Output, Still
  <2> QED BY <1>4, <2>1, <2>2
<1>5. CASE p.has_control /\ ~IsTardy(p)
  <2>1. q = AfterControl(p) /\ r \in Controls(p)
    BY <1>5 DEF PidIterates
  <2>2. q.helm = p.helm /\ q.nav = p.nav /\ q.has_control = p.has_control /\ ~q.allstop_posted
    BY <2>1 DEF AfterControl, PidState
  <2>3. r \in Output
    BY <1>1, <2>1 DEF Controls
  <2> QED BY <1>5, <2>1, <2>2, <2>3
<1> QED BY <1>2, <1>3, <1>4, <1>5
-----------------------------------------------------------------------------
(* Types *)

Message == {"NAV_HEADING", "NAV_SPEED"} \X Heading
Past == [helm : 0 .. TardyHelm + 2, sensors : 0 .. TardyNav + 2,
         course : 0 .. TimeDelay + 1, onCourse : 0 .. TimeDelay + 1,
         heard : [PositionSource -> 0 .. NavTimeout + 1], unset : SUBSET PositionSource]

Typed == AutonomyTypeOK /\ past \in Past /\ Len(mail) <= inputs

LEMMA TypedFields ==
  ASSUME Typed
  PROVE  /\ nav \in NavState /\ pid \in PidState /\ out \in Output /\ past \in Past
         /\ mail \in Seq(Message) /\ Len(mail) \in Nat /\ Len(mail) <= inputs
         /\ announced \in NavSource \cup {"unset"} /\ mirrored \in NavSource
         /\ done \subseteq {"nav", "pid"} /\ inputs \in 0 .. MaxInputs
BY DEF Typed, AutonomyTypeOK, Message

LEMMA TypedByFields ==
  ASSUME nav' \in NavState, pid' \in PidState, out' \in Output, past' \in Past,
         mail' \in Seq(Message), Len(mail') <= inputs',
         announced' \in NavSource \cup {"unset"}, mirrored' \in NavSource,
         done' \subseteq {"nav", "pid"}, inputs' \in 0 .. MaxInputs
  PROVE  Typed'
<1>1. Len(mail') \in Nat
  BY DEF Message
<1> QED BY <1>1, AutonomyParameters DEF Typed, AutonomyTypeOK, Message

\* The operations on the past.
LEMMA PastTypes ==
  ASSUME NEW p \in Past
  PROVE  /\ [p EXCEPT !.sensors = 0] \in Past
         /\ \A s \in PositionSource :
              [p EXCEPT !.sensors = 0, !.heard[s] = 0, !.unset = p.unset \ {s}] \in Past
         /\ [p EXCEPT !.course = 0] \in Past
         /\ [p EXCEPT !.onCourse = p.course] \in Past
         /\ \A q \in PidState : [p EXCEPT !.helm = 0, !.course = IF OnCourse(q) THEN p.course ELSE 0] \in Past
         /\ [p EXCEPT !.helm = IF p.helm > TardyHelm + 1 THEN p.helm ELSE p.helm + 1,
                      !.sensors = IF p.sensors > TardyNav + 1 THEN p.sensors ELSE p.sensors + 1,
                      !.course = IF OnCourse(pid) /\ p.course <= TimeDelay THEN p.course + 1 ELSE p.course,
                      !.heard = [s \in PositionSource |->
                                   IF p.heard[s] > NavTimeout THEN p.heard[s] ELSE p.heard[s] + 1]] \in Past
<1> USE PidParameters, NavParameters
<1>1. /\ p.helm \in 0 .. TardyHelm + 2 /\ p.sensors \in 0 .. TardyNav + 2
      /\ p.course \in 0 .. TimeDelay + 1 /\ p.onCourse \in 0 .. TimeDelay + 1
      /\ 0 \in 0 .. TardyHelm + 2 /\ 0 \in 0 .. TardyNav + 2 /\ 0 \in 0 .. TimeDelay + 1
      /\ p.heard \in [PositionSource -> 0 .. NavTimeout + 1] /\ p.unset \subseteq PositionSource
      /\ 0 \in 0 .. NavTimeout + 1
  BY DEF Past
<1>2. [p EXCEPT !.sensors = 0] \in Past /\ [p EXCEPT !.course = 0] \in Past
  BY <1>1 DEF Past
<1>3. [p EXCEPT !.onCourse = p.course] \in Past
  BY <1>1 DEF Past
<1>4. \A q \in PidState : [p EXCEPT !.helm = 0, !.course = IF OnCourse(q) THEN p.course ELSE 0] \in Past
  BY <1>1 DEF Past
<1> DEFINE helm == IF p.helm > TardyHelm + 1 THEN p.helm ELSE p.helm + 1
           sensors == IF p.sensors > TardyNav + 1 THEN p.sensors ELSE p.sensors + 1
           course == IF OnCourse(pid) /\ p.course <= TimeDelay THEN p.course + 1 ELSE p.course
           heard == [s \in PositionSource |->
                       IF p.heard[s] > NavTimeout THEN p.heard[s] ELSE p.heard[s] + 1]
<1>5. helm \in 0 .. TardyHelm + 2 /\ sensors \in 0 .. TardyNav + 2 /\ course \in 0 .. TimeDelay + 1
  BY <1>1
<1>6. heard \in [PositionSource -> 0 .. NavTimeout + 1]
  BY <1>1
<1>7. [p EXCEPT !.helm = helm, !.sensors = sensors, !.course = course, !.heard = heard] \in Past
  <2> HIDE DEF helm, sensors, course, heard
  <2> QED BY <1>1, <1>5, <1>6 DEF Past
<1>8. \A s \in PositionSource :
        [p EXCEPT !.sensors = 0, !.heard[s] = 0, !.unset = p.unset \ {s}] \in Past
  <2> SUFFICES ASSUME NEW s \in PositionSource
               PROVE  [p EXCEPT !.sensors = 0, !.heard[s] = 0, !.unset = p.unset \ {s}] \in Past
    OBVIOUS
  <2> DEFINE fresh == [p.heard EXCEPT ![s] = 0]
             unset == p.unset \ {s}
  <2>1. fresh \in [PositionSource -> 0 .. NavTimeout + 1] /\ unset \subseteq PositionSource
    BY <1>1
  <2>2. [p EXCEPT !.sensors = 0, !.heard[s] = 0, !.unset = p.unset \ {s}]
          = [p EXCEPT !.sensors = 0, !.heard = fresh, !.unset = unset]
    OBVIOUS
  <2> HIDE DEF fresh, unset
  <2> QED BY <1>1, <2>1, <2>2 DEF Past
<1> QED BY <1>2, <1>3, <1>4, <1>7, <1>8

LEMMA InputType ==
  ASSUME Typed, Input
  PROVE  inputs' \in 0 .. MaxInputs /\ inputs' = inputs + 1
BY TypedFields, AutonomyParameters DEF Input

\* Sending NAV_SOURCE sends nothing to pMarinePID_Hover.
LEMMA AnnouncesSends ==
  ASSUME Typed, NEW n \in NavState, NEW posts \in BOOLEAN, Announces(n, posts)
  PROVE  /\ mail' = mail /\ nav' \in NavState
         /\ nav' = IF posts THEN [n EXCEPT !.posted = 0] ELSE n
         /\ announced' = IF posts THEN n.source ELSE announced
         /\ nav'.source = n.source /\ nav'.age = n.age /\ nav'.exp_available = n.exp_available
<1>1. nav' = (IF posts THEN [n EXCEPT !.posted = 0] ELSE n) /\ nav' \in NavState
  BY NavHandlerTypes DEF Announces
<1>2. nav'.source = n.source /\ nav'.age = n.age /\ nav'.exp_available = n.exp_available
  BY <1>1 DEF NavState
<1>3. mail' = mail /\ announced' = IF posts THEN n.source ELSE announced
  BY DEF Announces, Post, Registered
<1> QED BY <1>1, <1>2, <1>3

LEMMA TypedInit == AutonomyInit => Typed
<1> SUFFICES ASSUME AutonomyInit PROVE Typed
  OBVIOUS
<1>1. nav \in NavState
  <2>1. PICK m \in Memory : nav = [source |-> "none", exp_available |-> FALSE,
          posted |-> Heartbeat + 1, gps_lock |-> m.gps_lock, rtk_status |-> m.rtk_status, age |-> m.age]
    BY DEF AutonomyInit, InitNav
  <2>2. m.gps_lock \in BOOLEAN /\ m.rtk_status \in Quality /\ m.age \in [PositionSource -> NavAge]
    BY NavParameters
  <2> QED BY <2>1, <2>2, NavParameters DEF NavState, NavSource
<1>2. pid \in PidState
  BY PidParameters DEF AutonomyInit, InitPid, PidState, Heading, NotValid
<1>3. out \in Output
  BY DEF AutonomyInit, Still, Output
<1>4. past \in Past
  BY PidParameters, NavParameters DEF AutonomyInit, Past
<1>5. /\ mail = <<>> /\ announced = "unset" /\ mirrored = "none" /\ done = {} /\ inputs = 0
  BY DEF AutonomyInit
<1> QED BY <1>1, <1>2, <1>3, <1>4, <1>5, AutonomyParameters DEF Typed, AutonomyTypeOK, NavSource

LEMMA TypedNext == Typed /\ [AutonomyNext]_autonomyVars => Typed'
<1> SUFFICES ASSUME Typed, [AutonomyNext]_autonomyVars PROVE Typed'
  OBVIOUS
<1> USE TypedFields, AutonomyParameters
<1>0. 0 \in Heading /\ \A h \in Headings : h \in Heading
  BY DEF Heading
<1>1. ASSUME NEW s \in PositionSource, Fix(s) PROVE Typed'
  <2>1. nav' \in NavState /\ past' \in Past /\ inputs' \in 0 .. MaxInputs /\ inputs' = inputs + 1
    BY <1>1, NavHandlerTypes, PastTypes, InputType DEF Fix, NavMail
  <2>2. mirrored' \in NavSource /\ done' \subseteq {"nav", "pid"}
    BY <1>1 DEF Fix, NavMail, NavSource
  <2>3. UNCHANGED <<pid, mail, announced, out>>
    BY <1>1 DEF Fix
  <2>4. Len(mail') <= inputs'
    BY <2>1, <2>3
  <2> QED BY <2>1, <2>2, <2>3, <2>4, TypedByFields
<1>2. ASSUME NEW s \in PositionSource, Speed(s) PROVE Typed'
  <2>1. past' \in Past /\ inputs' \in 0 .. MaxInputs /\ inputs' = inputs + 1
    BY <1>2, PastTypes, InputType DEF Speed, Heard, NavMail
  <2>2. mirrored' \in NavSource /\ done' \subseteq {"nav", "pid"}
    BY <1>2 DEF Speed, NavMail, NavSource
  <2>3. UNCHANGED <<nav, pid, announced, out>>
    BY <1>2 DEF Speed
  <2>4. mail' = Append(mail, <<"NAV_SPEED", 0>>) /\ <<"NAV_SPEED", 0>> \in Message
    BY <1>0, <1>2 DEF Speed, Post, Registered, Message
  <2>5. mail' \in Seq(Message) /\ Len(mail') = Len(mail) + 1
    BY <2>4
  <2>6. Len(mail') <= inputs'
    BY <2>1, <2>5
  <2> QED BY <2>1, <2>2, <2>3, <2>5, <2>6, TypedByFields
<1>3. ASSUME NEW s, NEW heading \in Headings, Steers(s, heading) PROVE Typed'
  <2>1. past' \in Past /\ inputs' \in 0 .. MaxInputs /\ inputs' = inputs + 1
    BY <1>3, PastTypes, InputType DEF Steers, Heard, NavMail
  <2>2. done' \subseteq {"nav", "pid"}
    BY <1>3 DEF Steers, NavMail
  <2>3. UNCHANGED <<nav, pid, announced, mirrored, out>>
    BY <1>3 DEF Steers
  <2>4. mail' = Append(mail, <<"NAV_HEADING", heading>>) /\ <<"NAV_HEADING", heading>> \in Message
    BY <1>0, <1>3 DEF Steers, Post, Registered, Message
  <2>5. mail' \in Seq(Message) /\ Len(mail') = Len(mail) + 1
    BY <2>4
  <2>6. Len(mail') <= inputs'
    BY <2>1, <2>5
  <2> QED BY <2>1, <2>2, <2>3, <2>5, <2>6, TypedByFields
<1>4. ASSUME NEW n \in NavState, Receiver(n) PROVE Typed'
  <2>1. /\ nav' = n /\ done' \subseteq {"nav", "pid"} /\ inputs' \in 0 .. MaxInputs /\ inputs' = inputs + 1
        /\ UNCHANGED <<pid, mail, announced, mirrored, out, past>>
    BY <1>4, InputType DEF Receiver, NavMail
  <2>2. Len(mail') <= inputs'
    BY <2>1
  <2> QED BY <2>1, <2>2, TypedByFields
<1>5. ASSUME NEW s \in {"exp", "none"}, SourceRequest(s) PROVE Typed'
  <2> DEFINE n == OnSetNavSource(nav, s)
  <2>1. n \in NavState /\ n.source \in NavSource
    BY NavHandlerTypes, NavFields
  <2>2. /\ Announces(n, IsNew(nav, n)) /\ IsNew(nav, n) \in BOOLEAN
        /\ done' \subseteq {"nav", "pid"} /\ inputs' \in 0 .. MaxInputs /\ inputs' = inputs + 1
        /\ UNCHANGED <<pid, mirrored, out, past>>
    BY <1>5, InputType DEF SourceRequest, NavMail, IsNew
  <2> HIDE DEF n
  <2>3. mail' = mail /\ nav' \in NavState /\ announced' \in NavSource \cup {"unset"}
    BY <2>1, <2>2, AnnouncesSends
  <2>4. Len(mail') <= inputs'
    BY <2>2, <2>3
  <2> QED BY <2>2, <2>3, <2>4, TypedByFields
<1>6. CASE NavIterate
  <2> DEFINE n == AfterNavIterate(nav)
             posts == IsNew(nav, n) \/ IsDue(nav)
  <2>1. n \in NavState /\ n.source \in NavSource
    BY NavHandlerTypes, NavFields
  <2>2. /\ Announces(n, posts) /\ posts \in BOOLEAN
        /\ done' \subseteq {"nav", "pid"} /\ UNCHANGED <<pid, mirrored, out, inputs, past>>
    BY <1>6 DEF NavIterate, IsNew, IsDue
  <2> HIDE DEF n, posts
  <2>3. mail' = mail /\ nav' \in NavState /\ announced' \in NavSource \cup {"unset"}
    BY <2>1, <2>2, AnnouncesSends
  <2> QED BY <2>2, <2>3, TypedByFields
<1>7. CASE Navigation
  <2>1. mail # <<>> /\ mail' = Tail(mail) /\ Head(mail) \in Message
    BY <1>7 DEF Navigation
  <2>2. mail' \in Seq(Message) /\ Len(mail') = Len(mail) - 1 /\ Head(mail)[2] \in Heading
    BY <2>1 DEF Message
  <2>3. pid' \in PidState
    BY <1>7, <2>2, PidHandlerTypes DEF Navigation, PidMail
  <2>4. /\ past' \in Past /\ done' \subseteq {"nav", "pid"}
        /\ UNCHANGED <<nav, announced, mirrored, out, inputs>>
    BY <1>7, PastTypes DEF Navigation, PidMail
  <2>5. Len(mail') <= inputs'
    BY <2>2, <2>4
  <2> QED BY <2>2, <2>3, <2>4, <2>5, TypedByFields
<1>8. ASSUME NEW p \in PidState, HelmSays(p) PROVE Typed'
  <2>1. /\ pid' = p /\ past' \in Past /\ done' \subseteq {"nav", "pid"}
        /\ inputs' \in 0 .. MaxInputs /\ inputs' = inputs + 1
        /\ UNCHANGED <<nav, mail, announced, mirrored, out>>
    BY <1>8, PastTypes, InputType DEF HelmSays, PidMail
  <2>2. Len(mail') <= inputs'
    BY <2>1
  <2> QED BY <2>1, <2>2, TypedByFields
<1>9. ASSUME NEW manual \in BOOLEAN, Override(manual) PROVE Typed'
  <2>1. /\ pid' \in PidState /\ done' \subseteq {"nav", "pid"}
        /\ inputs' \in 0 .. MaxInputs /\ inputs' = inputs + 1
        /\ UNCHANGED <<nav, mail, announced, mirrored, out, past>>
    BY <1>9, PidHandlerTypes, InputType DEF Override, PidMail
  <2>2. Len(mail') <= inputs'
    BY <2>1
  <2> QED BY <2>1, <2>2, TypedByFields
<1>10. CASE PidIterate
  <2>1. PICK next \in PidIterates(pid, out) : pid' = next[1] /\ out' = next[2]
    BY <1>10 DEF PidIterate
  <2>2. next = <<next[1], next[2]>>
    BY <2>1 DEF PidIterates
  <2>3. pid' \in PidState /\ out' \in Output
    BY <2>1, <2>2, PidIteratesTo
  <2>4. /\ past' \in Past /\ done' \subseteq {"nav", "pid"}
        /\ UNCHANGED <<nav, mail, announced, mirrored, inputs>>
    BY <1>10, PastTypes DEF PidIterate
  <2> QED BY <2>3, <2>4, TypedByFields
<1>11. CASE AutonomyTick
  <2>1. /\ nav' \in NavState /\ pid' \in PidState /\ past' \in Past /\ done' = {}
        /\ UNCHANGED <<mail, announced, mirrored, out, inputs>>
    BY <1>11, NavHandlerTypes, PidHandlerTypes, PastTypes DEF AutonomyTick
  <2> QED BY <2>1, TypedByFields
<1>12. CASE UNCHANGED autonomyVars
  BY <1>12, TypedByFields DEF autonomyVars
<1>13. /\ \A lock \in BOOLEAN : OnLock(nav, lock) \in NavState
       /\ \A quality \in Quality : OnQuality(nav, quality) \in NavState
       /\ \A heading \in Headings : OnDesiredHeading(pid, heading) \in PidState
       /\ \A moving \in BOOLEAN : OnDesiredSpeed(pid, moving) \in PidState
  BY <1>0, NavHandlerTypes, PidHandlerTypes
<1> QED
  BY <1>1, <1>2, <1>3, <1>4, <1>5, <1>6, <1>7, <1>8, <1>9, <1>10, <1>11, <1>12, <1>13, Zenon
  DEF AutonomyNext

\* The state keeps its shape.
THEOREM AutonomyTyped == AutonomySpec => []AutonomyTypeOK
<1>1. Typed => AutonomyTypeOK
  BY DEF Typed
<1> QED BY <1>1, TypedInit, TypedNext, PTL DEF AutonomySpec
-----------------------------------------------------------------------------
(* What a step is to pMarinePID_Hover *)

\* pNavManager acts, and has heard of its sensors when it posts.
NavigatorStep ==
  /\ UNCHANGED <<pid, out>>
  /\ "pid" \in done' <=> "pid" \in done
  /\ past'.helm = past.helm
  /\ past'.sensors = 0 \/ (past'.sensors = past.sensors /\ mail' = mail)

\* Mail is read.
MailStep ==
  /\ out' = out /\ "pid" \notin done'
  /\ pid'.allstop_posted = pid.allstop_posted
  /\ (pid'.helm = pid.helm /\ past'.helm = past.helm) \/ past'.helm = 0
  /\ \/ pid'.nav = pid.nav
     \/ pid'.nav = 0 /\ mail # <<>>
  /\ past'.sensors = past.sensors
  /\ mail' = mail \/ mail # <<>>

IterateStep ==
  /\ pid'.helm = pid.helm /\ pid'.nav = pid.nav /\ pid'.has_control = pid.has_control
  /\ \/ ~pid.has_control /\ pid'.allstop_posted /\ ((out' = out /\ pid.allstop_posted) \/ out' = Still)
     \/ pid.has_control /\ IsTardy(pid) /\ pid' = pid /\ ~out'.thrust /\ (out = Still => out' = Still)
     \/ pid.has_control /\ ~IsTardy(pid) /\ ~pid'.allstop_posted
  /\ past'.helm = past.helm /\ past'.sensors = past.sensors /\ mail' = mail

TickStep ==
  /\ "pid" \in done /\ done' = {} /\ out' = out /\ mail' = <<>>
  /\ pid'.allstop_posted = pid.allstop_posted
  /\ pid'.helm = IF pid.helm > TardyHelm THEN pid.helm ELSE pid.helm + 1
  /\ pid'.nav = IF pid.nav > TardyNav THEN pid.nav ELSE pid.nav + 1
  /\ past'.helm = IF past.helm > TardyHelm + 1 THEN past.helm ELSE past.helm + 1
  /\ past'.sensors = IF past.sensors > TardyNav + 1 THEN past.sensors ELSE past.sensors + 1

LEMMA Steps ==
  ASSUME Typed, [AutonomyNext]_autonomyVars
  PROVE  NavigatorStep \/ MailStep \/ IterateStep \/ TickStep
<1> USE TypedFields
<1>1. ASSUME NEW s, Fix(s) \/ Speed(s) \/ (\E heading : Steers(s, heading)) PROVE NavigatorStep
  <2>1. /\ UNCHANGED <<pid, out>> /\ done' = done \ {"nav"}
        /\ \/ past' = [past EXCEPT !.sensors = 0]
           \/ past' = [past EXCEPT !.sensors = 0, !.heard[s] = 0, !.unset = past.unset \ {s}]
    BY <1>1 DEF Fix, Speed, Steers, NavMail, Heard
  <2>2. past'.helm = past.helm /\ past'.sensors = 0
    BY <2>1 DEF Past
  <2> QED BY <2>1, <2>2 DEF NavigatorStep
<1>2. ASSUME NEW n, Receiver(n) PROVE NavigatorStep
  BY <1>2 DEF Receiver, NavMail, NavigatorStep
<1>3. ASSUME NEW s \in {"exp", "none"}, SourceRequest(s) PROVE NavigatorStep
  <2>1. mail' = mail
    BY <1>3, NavHandlerTypes, AnnouncesSends DEF SourceRequest, IsNew
  <2> QED BY <1>3, <2>1 DEF SourceRequest, NavMail, NavigatorStep
<1>4. CASE NavIterate
  <2>1. mail' = mail
    BY <1>4, NavHandlerTypes, AnnouncesSends DEF NavIterate, IsNew, IsDue
  <2> QED BY <1>4, <2>1 DEF NavIterate, NavigatorStep
<1>5. CASE Navigation
  <2>1. /\ mail # <<>> /\ pid' = OnNavigation(pid, Head(mail)[1], Head(mail)[2])
        /\ out' = out /\ "pid" \notin done'
    BY <1>5 DEF Navigation, PidMail
  <2>2. pid'.nav = 0 /\ pid'.helm = pid.helm /\ pid'.allstop_posted = pid.allstop_posted
    BY <2>1 DEF OnNavigation, PidState
  <2>3. past' = past \/ past' = [past EXCEPT !.course = 0]
    BY <1>5 DEF Navigation
  <2>4. past'.helm = past.helm /\ past'.sensors = past.sensors
    BY <2>3 DEF Past
  <2> QED BY <2>1, <2>2, <2>4 DEF MailStep
<1>6. ASSUME NEW p, HelmSays(p), p.nav = pid.nav, p.allstop_posted = pid.allstop_posted
      PROVE  MailStep
  <2>1. /\ pid' = p /\ UNCHANGED <<out, mail>> /\ "pid" \notin done'
        /\ past' = [past EXCEPT !.helm = 0, !.course = IF OnCourse(p) THEN past.course ELSE 0]
    BY <1>6 DEF HelmSays, PidMail
  <2>2. past'.helm = 0 /\ past'.sensors = past.sensors
    BY <2>1 DEF Past
  <2> QED BY <1>6, <2>1, <2>2 DEF MailStep
<1>7. ASSUME NEW heading, HelmSays(OnDesiredHeading(pid, heading)) PROVE MailStep
  BY <1>6, <1>7 DEF OnDesiredHeading, PidState
<1>8. ASSUME NEW moving, HelmSays(OnDesiredSpeed(pid, moving)) PROVE MailStep
  BY <1>6, <1>8 DEF OnDesiredSpeed, PidState
<1>9. ASSUME NEW manual, Override(manual) PROVE MailStep
  <2>1. /\ pid' = OnOverride(pid, manual) /\ UNCHANGED <<out, mail, past>> /\ "pid" \notin done'
    BY <1>9 DEF Override, PidMail
  <2>2. pid'.helm = pid.helm /\ pid'.nav = pid.nav /\ pid'.allstop_posted = pid.allstop_posted
    BY <2>1 DEF OnOverride, PidState
  <2> QED BY <2>1, <2>2 DEF MailStep
<1>10. CASE PidIterate
  <2>1. PICK next \in PidIterates(pid, out) : pid' = next[1] /\ out' = next[2]
    BY <1>10 DEF PidIterate
  <2>2. next = <<next[1], next[2]>>
    BY <2>1 DEF PidIterates
  <2>3. <<pid', out'>> \in PidIterates(pid, out)
    BY <2>1, <2>2
  <2>4. past'.helm = past.helm /\ past'.sensors = past.sensors /\ mail' = mail
    BY <1>10 DEF PidIterate, Past
  <2> HIDE DEF IsTardy
  <2>5. IterateStep
    BY <2>3, <2>4, PidIteratesTo DEF IterateStep
  <2> QED BY <2>5
<1>11. CASE AutonomyTick
  <2>1. /\ "pid" \in done /\ done' = {} /\ out' = out /\ mail' = <<>> /\ pid' = OlderPid(pid)
    BY <1>11 DEF AutonomyTick
  <2>2. /\ pid'.allstop_posted = pid.allstop_posted
        /\ pid'.helm = IF pid.helm > TardyHelm THEN pid.helm ELSE pid.helm + 1
        /\ pid'.nav = IF pid.nav > TardyNav THEN pid.nav ELSE pid.nav + 1
    BY <2>1 DEF OlderPid, PidState
  <2>3. /\ past'.helm = IF past.helm > TardyHelm + 1 THEN past.helm ELSE past.helm + 1
        /\ past'.sensors = IF past.sensors > TardyNav + 1 THEN past.sensors ELSE past.sensors + 1
    BY <1>11 DEF AutonomyTick, Past
  <2> QED BY <2>1, <2>2, <2>3 DEF TickStep
<1>12. CASE UNCHANGED autonomyVars
  BY <1>12 DEF autonomyVars, NavigatorStep
<1> QED
  BY <1>1, <1>2, <1>3, <1>4, <1>5, <1>7, <1>8, <1>9, <1>10, <1>11, <1>12, Zenon
  DEF AutonomyNext
-----------------------------------------------------------------------------
(* Without control *)

\* The flag that stops an all-stop from being repeated is only set while the vehicle stands
\* still: giving control and taking it again does not clear it while the helm is tardy.
ControlInv ==
  /\ pid.allstop_posted => out = Still
  /\ StillWithoutControl

LEMMA ControlNext ==
  ASSUME Typed, ControlInv, [AutonomyNext]_autonomyVars
  PROVE  ControlInv'
<1> USE TypedFields, PidFields DEF ControlInv, StillWithoutControl
<1>1. CASE NavigatorStep
  BY <1>1 DEF NavigatorStep
<1>2. CASE MailStep
  BY <1>2 DEF MailStep
<1>3. CASE IterateStep
  BY <1>3 DEF IterateStep
<1>4. CASE TickStep
  BY <1>4 DEF TickStep
<1> QED BY <1>1, <1>2, <1>3, <1>4, Steps

\* Without control the vehicle stands still (MarinePID::Iterate, postAllStop).
THEOREM StandsStill == AutonomySpec => []StillWithoutControl
<1>1. AutonomyInit => ControlInv
  BY DEF AutonomyInit, InitPid, ControlInv, StillWithoutControl
<1>2. Typed /\ ControlInv /\ [AutonomyNext]_autonomyVars => ControlInv'
  BY ControlNext
<1>3. ControlInv => StillWithoutControl
  BY DEF ControlInv
<1> QED BY <1>1, <1>2, <1>3, TypedInit, TypedNext, PTL DEF AutonomySpec

LEMMA StillHasNoThrust == Still.thrust = FALSE
BY DEF Still

\* An Iterate leaves thrust only if it has control and hears the helm and the navigation.
LEMMA ThrustAfterIterate ==
  ASSUME Typed, ControlInv, IterateStep, out'.thrust
  PROVE  pid.helm <= TardyHelm /\ pid.nav <= TardyNav
<1>1. pid.has_control /\ ~IsTardy(pid)
  BY StillHasNoThrust DEF IterateStep, ControlInv
<1> QED BY <1>1, TypedFields, PidFields, PidParameters DEF IsTardy
-----------------------------------------------------------------------------
(* Silence *)

\* The time that pMarinePID_Hover measures is not shorter than the silence, and when it has
\* iterated in this unit of time and left thrust it is not tardy.
HelmInv ==
  /\ past.helm <= pid.helm \/ pid.helm > TardyHelm
  /\ out.thrust /\ "pid" \in done => pid.helm <= TardyHelm
  /\ out.thrust => past.helm <= TardyHelm + 1

LEMMA HelmNext ==
  ASSUME Typed, Typed', ControlInv, HelmInv, [AutonomyNext]_autonomyVars
  PROVE  HelmInv'
<1>1. /\ past.helm \in Nat /\ pid.helm \in Nat /\ past'.helm \in Nat /\ pid'.helm \in Nat
      /\ TardyHelm \in Nat
  <2>1. pid \in PidState /\ past \in Past /\ pid' \in PidState /\ past' \in Past
    BY DEF Typed, AutonomyTypeOK
  <2> QED BY <2>1, PidParameters DEF PidState, Past
<1>2. CASE NavigatorStep
  BY <1>1, <1>2 DEF NavigatorStep, HelmInv
<1>3. CASE MailStep
  BY <1>1, <1>3 DEF MailStep, HelmInv
<1>4. CASE IterateStep
  BY <1>1, <1>4, ThrustAfterIterate DEF IterateStep, HelmInv
<1>5. CASE TickStep
  BY <1>1, <1>5 DEF TickStep, HelmInv
<1> QED BY <1>2, <1>3, <1>4, <1>5, Steps

\* When the helm falls silent the thrust ends (MarinePID::Iterate, DESIRED_ tardy).
THEOREM SilenceOfTheHelm == AutonomySpec => []SilentHelmStops
<1>1. AutonomyInit => ControlInv /\ HelmInv
  BY PidParameters, StillHasNoThrust
  DEF AutonomyInit, InitPid, ControlInv, StillWithoutControl, HelmInv
<1>2. Typed /\ Typed' /\ ControlInv /\ HelmInv /\ [AutonomyNext]_autonomyVars
        => ControlInv' /\ HelmInv'
  BY ControlNext, HelmNext
<1>3. Typed /\ HelmInv => SilentHelmStops
  BY TypedFields, PidParameters DEF HelmInv, SilentHelmStops, Past
<1> QED BY <1>1, <1>2, <1>3, TypedInit, TypedNext, PTL DEF AutonomySpec

\* The same of the navigation; what is under way to pMarinePID_Hover was posted in this unit of
\* time, when a sensor was heard.
SensorInv ==
  /\ mail # <<>> => past.sensors = 0
  /\ past.sensors <= pid.nav \/ pid.nav > TardyNav
  /\ out.thrust /\ "pid" \in done => pid.nav <= TardyNav
  /\ out.thrust => past.sensors <= TardyNav + 1

LEMMA SensorNext ==
  ASSUME Typed, Typed', ControlInv, SensorInv, [AutonomyNext]_autonomyVars
  PROVE  SensorInv'
<1>1. /\ past.sensors \in Nat /\ pid.nav \in Nat /\ past'.sensors \in Nat /\ pid'.nav \in Nat
      /\ TardyNav \in Nat
  <2>1. pid \in PidState /\ past \in Past /\ pid' \in PidState /\ past' \in Past
    BY DEF Typed, AutonomyTypeOK
  <2> QED BY <2>1, PidParameters DEF PidState, Past
<1>2. CASE NavigatorStep
  BY <1>1, <1>2 DEF NavigatorStep, SensorInv
<1>3. CASE MailStep
  BY <1>1, <1>3 DEF MailStep, SensorInv
<1>4. CASE IterateStep
  BY <1>1, <1>4, ThrustAfterIterate DEF IterateStep, SensorInv
<1>5. CASE TickStep
  BY <1>1, <1>5 DEF TickStep, SensorInv
<1> QED BY <1>2, <1>3, <1>4, <1>5, Steps

\* When all sensors fall silent the thrust ends, although pNavManager's heartbeat goes on
\* (MarinePID::Iterate, NAV_ tardy, and registerVariables).
THEOREM SilenceOfTheSensors == AutonomySpec => []SilentSensorsStop
<1>1. AutonomyInit => ControlInv /\ SensorInv
  BY PidParameters, StillHasNoThrust
  DEF AutonomyInit, InitPid, ControlInv, StillWithoutControl, SensorInv
<1>2. Typed /\ Typed' /\ ControlInv /\ SensorInv /\ [AutonomyNext]_autonomyVars
        => ControlInv' /\ SensorInv'
  BY ControlNext, SensorNext
<1>3. Typed /\ SensorInv => SilentSensorsStop
  BY TypedFields, PidParameters DEF SensorInv, SilentSensorsStop, Past
<1> QED BY <1>1, <1>2, <1>3, TypedInit, TypedNext, PTL DEF AutonomySpec
-----------------------------------------------------------------------------
(* The source *)

\* The age of a source, if it was ever heard, is the time since.  The source in use, and the
\* experiment that a request may choose, have an age within the timeout or in the future; once
\* pNavManager has iterated there is a unit of time to spare.  What is announced is the source
\* in use.
SourceInv ==
  /\ \A s \in PositionSource : s \in past.unset \/ nav.age[s] = past.heard[s]
  /\ nav.source # "none" => nav.age[nav.source] <= NavTimeout
  /\ nav.exp_available => nav.age["exp"] <= NavTimeout
  /\ "nav" \in done => /\ nav.source # "none" => nav.age[nav.source] < NavTimeout
                       /\ nav.exp_available => nav.age["exp"] < NavTimeout
  /\ nav.source = announced \/ (announced = "unset" /\ nav.source = "none")

LEMMA SourceNext ==
  ASSUME Typed, SourceInv, [AutonomyNext]_autonomyVars
  PROVE  SourceInv'
<1> USE TypedFields, NavParameters
<1>0. /\ nav.source \in NavSource /\ nav.exp_available \in BOOLEAN
      /\ nav.age \in [PositionSource -> NavAge] /\ \A s \in PositionSource : nav.age[s] \in Int
      /\ \A s \in NavSource : s # "none" => s \in PositionSource
      /\ "exp" \in PositionSource
      /\ past.heard \in [PositionSource -> 0 .. NavTimeout + 1]
  BY NavFields DEF NavSource, PositionSource, Past
<1>1. ASSUME NEW s \in PositionSource, Fix(s) PROVE SourceInv'
  <2>1. nav' = OnFix(nav, s) /\ "nav" \notin done' /\ announced' = announced
    BY <1>1 DEF Fix, NavMail
  <2>2. /\ nav'.source = nav.source /\ nav'.exp_available = nav.exp_available
        /\ nav'.age = [nav.age EXCEPT ![s] = 0]
    BY <2>1 DEF OnFix, NavState
  <2>3. \A r \in PositionSource : nav'.age[r] = IF r = s THEN 0 ELSE nav.age[r]
    BY <1>0, <2>2
  <2>4. /\ past'.heard = [past.heard EXCEPT ![s] = 0]
        /\ past'.unset = past.unset \ {s}
    BY <1>1 DEF Fix, Past
  <2>5. \A r \in PositionSource : r \in past'.unset \/ nav'.age[r] = past'.heard[r]
    BY <1>0, <2>3, <2>4 DEF SourceInv
  <2> QED BY <1>0, <2>1, <2>2, <2>3, <2>5 DEF SourceInv
<1>2. ASSUME UNCHANGED <<nav, announced, past.heard, past.unset>>, "nav" \in done' => "nav" \in done PROVE SourceInv'
  BY <1>2 DEF SourceInv
<1>3. ASSUME NEW n, Receiver(n), n.source = nav.source, n.exp_available = nav.exp_available,
             n.age = nav.age
      PROVE  SourceInv'
  <2>1. nav' = n /\ "nav" \notin done' /\ announced' = announced /\ past' = past
    BY <1>3 DEF Receiver, NavMail
  <2> QED BY <1>3, <2>1 DEF SourceInv
<1>4. ASSUME NEW n \in NavState, NEW posts \in BOOLEAN, Announces(n, posts), IsNew(nav, n) => posts,
             past' = past, n.age = nav.age,
             n.source # "none" => n.age[n.source] <= NavTimeout,
             n.exp_available => n.age["exp"] <= NavTimeout,
             "nav" \in done' => /\ n.source # "none" => n.age[n.source] < NavTimeout
                                /\ n.exp_available => n.age["exp"] < NavTimeout
      PROVE  SourceInv'
  <2>1. /\ nav'.source = n.source /\ nav'.age = n.age /\ nav'.exp_available = n.exp_available
        /\ announced' = IF posts THEN n.source ELSE announced
    BY <1>4, AnnouncesSends
  <2>2. ~posts => n.source = nav.source
    BY <1>4 DEF IsNew
  <2> QED BY <1>4, <2>1, <2>2 DEF SourceInv
<1>5. ASSUME NEW s \in {"exp", "none"}, SourceRequest(s) PROVE SourceInv'
  <2> DEFINE n == OnSetNavSource(nav, s)
  <2>1. /\ n \in NavState /\ Announces(n, IsNew(nav, n)) /\ IsNew(nav, n) \in BOOLEAN
        /\ "nav" \notin done' /\ past' = past
    BY <1>5, NavHandlerTypes DEF SourceRequest, NavMail, IsNew
  <2>2. /\ n.age = nav.age /\ n.exp_available = nav.exp_available
        /\ n.source = nav.source \/ n.source = "none" \/ (n.source = "exp" /\ nav.exp_available)
    BY DEF OnSetNavSource, NavState
  <2> HIDE DEF n
  <2>3. n.source # "none" => n.age[n.source] <= NavTimeout
    BY <2>2 DEF SourceInv
  <2>4. n.exp_available => n.age["exp"] <= NavTimeout
    BY <2>2 DEF SourceInv
  <2> QED BY <1>4, <2>1, <2>2, <2>3, <2>4
<1>6. CASE NavIterate
  <2> DEFINE n == AfterNavIterate(nav)
             posts == IsNew(nav, n) \/ IsDue(nav)
  <2>1. /\ n \in NavState /\ Announces(n, posts) /\ posts \in BOOLEAN /\ (IsNew(nav, n) => posts)
        /\ past' = past
    BY <1>6, NavHandlerTypes DEF NavIterate, IsNew, IsDue
  <2>2. n.age = nav.age /\ n.exp_available = Available(nav, "exp") /\ n.source = Chosen(nav)
    BY DEF AfterNavIterate, NavState
  <2>3. /\ n.source # "none" => n.age[n.source] < NavTimeout
        /\ n.exp_available => n.age["exp"] < NavTimeout
    BY <2>2, ChosenIsFresh DEF Available
  <2>4. n.source \in NavSource
    BY <2>2, ChosenIsFresh
  <2> HIDE DEF n, posts
  <2>5. /\ n.source # "none" => n.age[n.source] <= NavTimeout
        /\ n.exp_available => n.age["exp"] <= NavTimeout
    BY <1>0, <2>2, <2>3, <2>4
  <2> QED BY <1>4, <2>1, <2>2, <2>3, <2>5
<1>7. CASE AutonomyTick
  <2>1. nav' = OlderNav(nav) /\ "nav" \in done /\ done' = {} /\ announced' = announced
    BY <1>7 DEF AutonomyTick
  <2>2. /\ nav'.source = nav.source /\ nav'.exp_available = nav.exp_available
        /\ \A s \in PositionSource : nav'.age[s] <= nav.age[s] + 1
    BY <1>0, <2>1 DEF OlderNav, NavState
  <2>3. \A s \in PositionSource : nav'.age[s] \in Int
    BY NavHandlerTypes, NavFields, <2>1
  <2>4. \A s \in PositionSource : nav.age[s] < NavTimeout => nav'.age[s] <= NavTimeout
    BY <1>0, <2>2, <2>3
  <2>5. /\ past'.unset = past.unset
        /\ past'.heard = [s \in PositionSource |->
                            IF past.heard[s] > NavTimeout THEN past.heard[s] ELSE past.heard[s] + 1]
    BY <1>7 DEF AutonomyTick, Past
  <2>6. nav'.age = [s \in PositionSource |->
                      IF nav.age[s] = Future \/ nav.age[s] > NavTimeout
                      THEN nav.age[s] ELSE nav.age[s] + 1]
    BY <2>1 DEF OlderNav, NavState
  <2>7. \A s \in PositionSource : s \in past'.unset \/ nav'.age[s] = past'.heard[s]
    BY <1>0, <2>5, <2>6 DEF SourceInv, Future
  <2> QED BY <1>0, <2>1, <2>2, <2>4, <2>7 DEF SourceInv
<1>8. ASSUME NEW s, Speed(s) \/ (\E heading : Steers(s, heading)) PROVE SourceInv'
  <2>1. past' = [past EXCEPT !.sensors = 0]
    BY <1>8 DEF Speed, Steers, Heard
  <2>2. past'.heard = past.heard /\ past'.unset = past.unset
    BY <2>1 DEF Past
  <2>3. UNCHANGED <<nav, announced>> /\ ("nav" \in done' => "nav" \in done)
    BY <1>8 DEF Speed, Steers, NavMail
  <2> QED BY <1>2, <2>2, <2>3
<1>9. \A lock \in BOOLEAN : Receiver(OnLock(nav, lock)) => SourceInv'
  BY <1>3 DEF OnLock, NavState
<1>10. \A quality \in Quality : Receiver(OnQuality(nav, quality)) => SourceInv'
  BY <1>3 DEF OnQuality, NavState
<1>11. ASSUME Navigation \/ (\E p : HelmSays(p)) \/ (\E manual : Override(manual)) \/ PidIterate
       PROVE SourceInv'
  <2>1. /\ nav' = nav /\ announced' = announced /\ ("nav" \in done' => "nav" \in done)
        /\ \/ past' = past
           \/ past' = [past EXCEPT !.course = 0]
           \/ past' = [past EXCEPT !.onCourse = past.course]
           \/ \E p : past' = [past EXCEPT !.helm = 0, !.course = IF OnCourse(p) THEN past.course ELSE 0]
    <3>1. CASE Navigation
      BY <3>1 DEF Navigation, PidMail
    <3>2. ASSUME NEW p, HelmSays(p)
          PROVE  /\ nav' = nav /\ announced' = announced /\ ("nav" \in done' => "nav" \in done)
                 /\ past' = [past EXCEPT !.helm = 0, !.course = IF OnCourse(p) THEN past.course ELSE 0]
      BY <3>2 DEF HelmSays, PidMail
    <3>3. CASE \E manual : Override(manual)
      BY <3>3 DEF Override, PidMail
    <3>4. CASE PidIterate
      BY <3>4 DEF PidIterate
    <3> QED BY <1>11, <3>1, <3>2, <3>3, <3>4, Zenon
  <2>2. past'.heard = past.heard /\ past'.unset = past.unset
    BY <2>1 DEF Past
  <2> QED BY <1>2, <2>1, <2>2
<1>12. CASE UNCHANGED autonomyVars
  BY <1>2, <1>12 DEF autonomyVars
<1> QED
  BY <1>1, <1>5, <1>6, <1>7, <1>8, <1>9, <1>10, <1>11, <1>12, Zenon DEF AutonomyNext

LEMMA SourceInit == AutonomyInit => SourceInv
<1> SUFFICES ASSUME AutonomyInit PROVE SourceInv
  OBVIOUS
<1>1. nav.source = "none" /\ ~nav.exp_available
  BY DEF AutonomyInit, InitNav
<1>2. past.unset = PositionSource
  BY DEF AutonomyInit
<1> QED BY <1>1, <1>2 DEF AutonomyInit, SourceInv

\* A source that is in use has been heard within the timeout, or was never heard and its time,
\* which the constructor left unset, makes it seem so (NavManager::Iterate, and the requests for
\* the experiment between two of them).
THEOREM SourceInUse == AutonomySpec => []SourceIsAlive
<1>1. Typed /\ SourceInv => SourceIsAlive
  <2> SUFFICES ASSUME Typed, SourceInv, nav.source # "none" PROVE SourceIsAlive
    BY DEF SourceIsAlive
  <2>1. nav.source \in PositionSource /\ nav.age[nav.source] \in NavAge
    BY TypedFields, NavFields DEF NavSource
  <2>2. nav.age[nav.source] <= NavTimeout
    BY DEF SourceInv
  <2>3. CASE nav.source \in past.unset
    BY <2>1, <2>2, <2>3, NavParameters DEF SourceIsAlive, NavAge, Future
  <2>4. CASE nav.source \notin past.unset
    BY <2>1, <2>2, <2>4 DEF SourceInv, SourceIsAlive
  <2> QED BY <2>3, <2>4
<1>2. Typed /\ SourceInv /\ [AutonomyNext]_autonomyVars => SourceInv'
  BY SourceNext
<1> QED BY <1>1, <1>2, SourceInit, TypedInit, TypedNext, PTL DEF AutonomySpec

\* What is mirrored is of the source that was announced (NavManager::OnNewMail, setSource).
THEOREM MirroredIsAnnounced == AutonomySpec => MirrorsWhatIsAnnounced
<1>1. SourceInv /\ [AutonomyNext]_autonomyVars => [mirrored' # mirrored => mirrored' = announced]_autonomyVars
  <2> SUFFICES ASSUME SourceInv, AutonomyNext, mirrored' # mirrored PROVE mirrored' = announced
    OBVIOUS
  <2>1. PICK s \in PositionSource : Fix(s) \/ Speed(s)
    BY Zenon DEF AutonomyNext, Steers, Receiver, SourceRequest, NavIterate, Navigation, HelmSays,
       Override, PidMail, PidIterate, AutonomyTick
  <2>2. mirrored' = s /\ nav.source = s
    BY <2>1 DEF Fix, Speed, Mirrors
  <2>3. s # "none"
    BY DEF PositionSource
  <2> QED BY <2>2, <2>3 DEF SourceInv
<1>2. Typed /\ SourceInv /\ [AutonomyNext]_autonomyVars => SourceInv'
  BY SourceNext
<1> QED
  BY <1>1, <1>2, SourceInit, TypedInit, TypedNext, PTL DEF AutonomySpec, MirrorsWhatIsAnnounced
=============================================================================
