------------------------------ MODULE MCKayak -------------------------------
(* The kayak's propulsion, the switch of its radios, or its autonomy.  The   *)
(* first two share the console, whose radio menu is AtConsole; the autonomy   *)
(* feeds the first with DESIRED_THRUST.  Each is checked by itself.           *)
EXTENDS KayakMotor, KayakRadio, Autonomy

VARIABLE part

\* Full reverse and full turn, with the computer allowed or not; and no contact.
MCFrames ==
  [ok : {TRUE}, thrust : {-1031}, rudder : {60}, thrust_enable : {TRUE}, serial_enable : BOOLEAN]
    \cup {InitSbus.frame}

MCPriorities == <<"rtk_fix", "rtk_float", "gps_internal", "rtk_single">>

\* Nothing was there before, or what was there makes a source seem alive.
MCMemory ==
  {[gps_lock |-> FALSE, rtk_status |-> "no_rtk", age |-> [s \in PositionSource |-> NavTimeout + 1]],
   [gps_lock |-> TRUE, rtk_status |-> "fix",
    age |-> [s \in PositionSource |-> IF s = "exp" THEN Future ELSE NavTimeout + 1]]}

MCInit ==
  /\ MotorInit /\ RadioInit /\ AutonomyInit
  /\ part \in {"motor", "radio", "autonomy"}
  /\ part # "autonomy" => nav.gps_lock    \* one state of the autonomy is enough for the others

MCNext ==
  /\ UNCHANGED part
  /\ \/ part = "motor" /\ MotorNext /\ UNCHANGED <<radioVars, autonomyVars>>
     \/ part = "radio" /\ RadioNext /\ UNCHANGED <<motorVars, autonomyVars>>
     \/ part = "autonomy" /\ AutonomyNext /\ UNCHANGED <<motorVars, radioVars>>

RadioOnly == part = "radio" /\ UNCHANGED <<part, motorVars, autonomyVars>>

\* RadioFairness, for the radio.
MCFairness ==
  /\ WF_radioVars(RadioOnly /\ MainThread) /\ WF_radioVars(RadioOnly /\ SerialThread)
  /\ WF_radioVars(RadioOnly /\ ParseRadioCommand) /\ WF_radioVars(RadioOnly /\ PublishSlow)
  /\ WF_radioVars(RadioOnly /\ RadioTick)

MCSpec ==
  MCInit /\ [][MCNext]_<<part, motorVars, radioVars, autonomyVars>> /\ MCFairness
=============================================================================
