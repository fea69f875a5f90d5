----------------------------- MODULE NavManager -----------------------------
(***************************************************************************)
(* pNavManager, as operators on its state: which of the sources of          *)
(* positions is mirrored as NAV_X, NAV_Y, NAV_SPEED and NAV_HEADING.        *)
(*                                                                         *)
(* Times are ages, in units of time.  The constructor leaves gps_lock,      *)
(* rtk_status and the times of the sources as the memory was: a time may    *)
(* be long ago, or in a future that does not come (Future).  X and Y come   *)
(* together, as their drivers post them.  Secondary positions and points,   *)
(* which are only displayed, are left out.                                  *)
(***************************************************************************)
EXTENDS Integers, SequencesExt

CONSTANTS
  NavTimeout,        \* 5 seconds
  Heartbeat,         \* 5 seconds
  Priorities,        \* source_priorities, as configured
  Memory             \* what the members that the constructor leaves out may begin with

DetailedSource == {"rtk_fix", "rtk_float", "rtk_single", "gps_internal"}

PositionSource == {"gps", "rtk", "exp"}
NavSource == PositionSource \cup {"none"}
Quality == {"fix", "float", "single", "no_rtk"}

Future == -1
NavAge == {Future} \cup 0 .. NavTimeout + 1

NavState ==
  [source : NavSource, exp_available : BOOLEAN, gps_lock : BOOLEAN, rtk_status : Quality,
   age : [PositionSource -> NavAge], posted : 0 .. Heartbeat + 1]

ASSUME NavParameters ==
  /\ NavTimeout \in Nat \ {0} /\ Heartbeat \in Nat \ {0}
  /\ Priorities \in Seq(DetailedSource)
  /\ Memory \subseteq [gps_lock : BOOLEAN, rtk_status : Quality, age : [PositionSource -> NavAge]]

InitNav ==
  {[source |-> "none", exp_available |-> FALSE, posted |-> Heartbeat + 1,
    gps_lock |-> m.gps_lock, rtk_status |-> m.rtk_status, age |-> m.age] : m \in Memory}

OlderNav(n) ==
  [n EXCEPT !.age = [s \in PositionSource |->
                       IF @[s] = Future \/ @[s] > NavTimeout THEN @[s] ELSE @[s] + 1],
            !.posted = IF @ > Heartbeat THEN @ ELSE @ + 1]
-----------------------------------------------------------------------------
(* Mail *)

OnFix(n, s) == [n EXCEPT !.age[s] = 0]
OnLock(n, lock) == [n EXCEPT !.gps_lock = lock]
OnQuality(n, quality) == [n EXCEPT !.rtk_status = quality]

\* Positions and speeds of the source in use are mirrored; of the headings, the compass's
\* unless the source is the experiment.
Mirrors(n, s) == n.source = s
HeadingSource(n) == IF n.source = "exp" THEN "exp" ELSE "compass"

\* SET_NAV_SOURCE: what was available at the last Iterate counts.
OnSetNavSource(n, s) ==
  CASE s = "exp" /\ n.exp_available -> [n EXCEPT !.source = "exp"]
    [] s = "exp" /\ ~n.exp_available -> n
    [] OTHER -> [n EXCEPT !.source = "none"]
-----------------------------------------------------------------------------
(* Iterate *)

Available(n, s) == n.age[s] < NavTimeout /\ (s = "gps" => n.gps_lock)

\* Whether the search for the best source ends with this one.
Decides(n, detailed) ==
  CASE detailed = "gps_internal" -> Available(n, "gps")
    [] detailed = "rtk_fix" -> Available(n, "rtk") /\ n.rtk_status = "fix"
    [] detailed = "rtk_float" -> Available(n, "rtk") /\ n.rtk_status = "float"
    [] detailed = "rtk_single" -> Available(n, "rtk") /\ n.rtk_status = "single"

\* Fault: the quality is taken for part of the source.
NamedInDetail(detailed) ==
  CASE detailed = "gps_internal" -> "gps" [] detailed = "rtk_single" -> "none" [] OTHER -> detailed

Named(detailed) ==
  CASE detailed = "gps_internal" -> "gps" [] detailed = "rtk_single" -> "none" [] OTHER -> "rtk"

BestAvailable(n) ==
  LET deciding == {i \in 1 .. Len(Priorities) : Decides(n, Priorities[i])} IN
    IF deciding = {} THEN "none" ELSE Named(Priorities[Min(deciding)])

\* Fault: the experiment is never given up.
ExperimentStays(n) == IF n.source = "exp" THEN "exp" ELSE BestAvailable(n)

\* The experiment is kept as long as it is there.
Chosen(n) == IF n.source = "exp" /\ Available(n, "exp") THEN "exp" ELSE BestAvailable(n)

\* Fault: a new source is left to the heartbeat.
LeftToHeartbeat(before, after) == FALSE

\* setSource posts a source that is new.
IsNew(before, after) == after.source # before.source

AfterNavIterate(n) == [n EXCEPT !.exp_available = Available(n, "exp"), !.source = Chosen(n)]

\* The heartbeat is due.
IsDue(n) == n.posted > Heartbeat
=============================================================================
