------------------------------ MODULE Pursuit -------------------------------
(***************************************************************************)
(* pPursuitShore commands three pPursuitVehicle over acoustic modems, in   *)
(* the slots of a cycle that each of them follows by its own clock.        *)
(*                                                                         *)
(* The operator posts trajectories to the shore.  In its slot the shore     *)
(* transmits what was posted, to all vehicles at once (multicast) or to one *)
(* (interleaved); in its own slot a vehicle transmits a report, which says  *)
(* whether it has received a command.  For each vehicle the shore posts a   *)
(* good report or, when the vehicle's slot is over, a failure.             *)
(*                                                                         *)
(* Positions, speeds, waypoints, counts of receptions, dummy reports, and   *)
(* acks over wifi are left out.  The modems and the water are external: a   *)
(* sound takes one unit of time or two, may be missed by any listener, and  *)
(* is lost to all if it meets another.                                     *)
(***************************************************************************)
EXTENDS TDMA, FiniteSets

CONSTANTS
  ShoreSchedule,       \* the schedule of the shore, in multicast (TRUE) or not
  VehicleSchedule,
  Active,              \* the vehicles that are out; the programs of the others do not run
  Codes,               \* what trajectories are made of
  command_map,         \* the codes that the vehicles know
  MaxLength,           \* bound: codes in a trajectory
  MaxOrders,           \* bound: RUN and STOP from the operator
  MaxCommands,         \* bound: trajectories from the operator
  MaxLate,             \* bound: units of time in which somebody oversleeps
  Cycles               \* the clock counts cycles modulo this

Vehicles == 1 .. 3
Shore == 4             \* its number on the acoustic network
Procs == Active \cup {Shore}

ScheduleOf(p, mode) ==
  IF p = Shore THEN ShoreSchedule[mode] ELSE VehicleSchedule[mode]

ASSUME PursuitParameters ==
  /\ Active \subseteq Vehicles
  /\ command_map \subseteq Codes
  /\ MaxLength \in Nat /\ MaxOrders \in Nat /\ MaxCommands \in Nat /\ MaxLate \in Nat
  /\ Cycles \in Nat \ {0, 1}
  /\ \A mode \in BOOLEAN, p \in Procs :
       /\ IsSchedule(ScheduleOf(p, mode))
       /\ ScheduleOf(p, mode).period = ScheduleOf(Shore, mode).period

-----------------------------------------------------------------------------
(* Slots *)

\* The vehicles whose command goes out in a slot of the shore.
CommandFor(slot, mode) ==
  IF mode THEN IF slot = 0 THEN Vehicles ELSE {}
  ELSE CASE slot = 0 -> {3} [] slot = 4 -> {1} [] slot = 8 -> {2} [] OTHER -> {}

\* The slot of the shore in which the report of a vehicle is overdue, and the slots in
\* which the buffers are cleared.
OverdueSlot(v, mode) == IF mode THEN <<3, 5, 7>>[v] ELSE <<3, 7, 11>>[v]

ClearSlots(mode) == IF mode THEN {5} ELSE {2, 6, 10}

\* The slot in which a vehicle reports, on its own schedule.
ReportSlot(v, mode) == IF mode THEN v ELSE 2 * v - 1

Transmits(p, slot, mode) ==
  IF p = Shore THEN CommandFor(slot, mode) # {} ELSE slot = ReportSlot(p, mode)

\* A sound takes two units at most.  No two of them meet, not even in the next cycle, if
\* each is sent at the beginning of its slot.
ASSUME SlotsApart ==
  \A mode \in BOOLEAN, p, q \in Procs :
    \A s \in Slots(ScheduleOf(p, mode)), t \in Slots(ScheduleOf(q, mode)) :
      Transmits(p, s, mode) /\ Transmits(q, t, mode) =>
        LET from == StartOf(s, ScheduleOf(p, mode))
            to == StartOf(t, ScheduleOf(q, mode))
        IN /\ from + 2 <= ScheduleOf(p, mode).period
           /\ <<p, s>> = <<q, t>> \/ from + 2 <= to \/ to + 2 <= from

\* The shore waits for a vehicle in the slot before the one in which its report is overdue.
\* It has a slot in which it commands the vehicle.  The command has been heard before the
\* vehicle reports next, and the report before the next command.
ASSUME ReportsAwaited ==
  \A mode \in BOOLEAN, v \in Active :
    LET sched == ScheduleOf(Shore, mode)
        over == OverdueSlot(v, mode)
        from == StartOf(ReportSlot(v, mode), ScheduleOf(v, mode))
    IN /\ over \in Slots(sched) /\ ReportSlot(v, mode) \in Slots(ScheduleOf(v, mode))
       /\ StartOf(over - 1, sched) <= from /\ from + 2 <= StartOf(over, sched)
       /\ \E s \in Slots(sched) :
            /\ v \in CommandFor(s, mode)
            /\ StartOf(s, sched) + 2 < from \/ from + 2 < StartOf(s, sched)

VARIABLES
  multicast,   \* command_mode in everyone's configuration
  clock,       \* the time of day
  engine,      \* tdma_engine of each program
  shore,       \* the rest of pPursuitShore
  vehicle,     \* the rest of each pPursuitVehicle
  air,         \* the sounds on their way
  inbox,       \* ACOMMS_RECEIVED that a program has not read yet
  orders, late,  \* how much of the bounds is used up
  history      \* what properties refer to, no handler reads it

vars == <<multicast, clock, engine, shore, vehicle, air, inbox, orders, late, history>>

\* nr: a trajectory is the nr-th that the operator posted; 0 is none.
Trajectory == [nr : 0 .. MaxCommands, codes : BoundedSeq(Codes, MaxLength)]
Nothing == [nr |-> 0, codes |-> <<>>]

\* PursuitCommandDCCL: a trajectory for each vehicle, and the required fields
\* has_1, has_2 and has_3, which may not have been set.
Field == {"unset", "false", "true"}
Command == [cmd : [Vehicles -> Trajectory], has : [Vehicles -> Field]]
Cleared == [cmd |-> [v \in Vehicles |-> Nothing], has |-> [v \in Vehicles |-> "unset"]]

\* PursuitReportDCCL, and which trajectory the vehicle took over since its last report.
Report == [id : Vehicles, ack : BOOLEAN, nr : 0 .. MaxCommands]

\* A report that is posted, and which trajectory for the vehicle went out last.
Posted(report, last) == [good |-> TRUE, ack |-> report.ack, nr |-> report.nr, last |-> last]
Failed == [good |-> FALSE, ack |-> FALSE, nr |-> 0, last |-> 0]

ShoreState == [got_commands : [Vehicles -> BOOLEAN], dccl_command : Command,
               got_receive : BOOLEAN, sent_reports : [Vehicles -> BOOLEAN], up : BOOLEAN]
VehicleState == [trajectory : BoundedSeq(Codes, MaxLength), ack : BOOLEAN, nr : 0 .. MaxCommands]

Init ==
  /\ multicast \in BOOLEAN
  /\ clock = [cycle |-> 0, pos |-> 0]
  /\ engine = [p \in Procs |-> InitEngine]
  /\ shore = [got_commands |-> [v \in Vehicles |-> FALSE], dccl_command |-> Cleared,
              got_receive |-> FALSE, sent_reports |-> [v \in Vehicles |-> FALSE], up |-> TRUE]
  /\ vehicle = [v \in Vehicles |-> [trajectory |-> <<>>, ack |-> FALSE, nr |-> 0]]
  /\ air = {}
  /\ inbox = [p \in Procs |-> <<>>]
  /\ orders = 0
  /\ late = 0
  /\ history = [posted |-> 0,                              \* trajectories so far
                sent |-> [v \in Vehicles |-> 0],           \* the last one transmitted to v
                reports |-> [v \in Vehicles |-> <<>>],     \* posted since the shore's slot 0
                calm |-> 0]                \* cycles of the shore that nothing disturbed, up to 2

Sched(p) == ScheduleOf(p, multicast)
Due(p) == Advances(engine[p], Sched(p), clock)

Running(p) == IF p = Shore THEN shore.up ELSE TRUE

\* The cycle is disturbed: somebody oversleeps, or is told to run or to stop.
Disturbed == [history EXCEPT !.calm = 0]
-----------------------------------------------------------------------------
(* pPursuitShore *)

\* Fault: the buffer is cleared, what was got is not.
ClearCommandsOnly(s) ==
  [s EXCEPT !.dccl_command = [Cleared EXCEPT !.has = [v \in Vehicles |-> "false"]]]

ClearCommands(s) ==
  [s EXCEPT !.got_commands = [v \in Vehicles |-> FALSE],
            !.dccl_command = [Cleared EXCEPT !.has = [v \in Vehicles |-> "false"]]]

\* PURSUIT_VEHICLE_COMMAND
OnVehicleCommand(v, codes) ==
  LET trajectory == [nr |-> history.posted + 1, codes |-> codes]
      before == IF multicast THEN shore ELSE ClearCommands(shore)
  IN /\ shore.up
     /\ history.posted < MaxCommands
     /\ shore' = [before EXCEPT !.dccl_command.cmd[v] = trajectory,
                                !.dccl_command.has[v] = "true",
                                !.got_commands[v] = TRUE]
     /\ history' = [history EXCEPT !.posted = @ + 1]
     /\ UNCHANGED <<multicast, clock, engine, vehicle, air, inbox, orders, late>>

\* Fault: a vehicle is reported on as often as it is heard.
MayReportAnyway(v) == TRUE

MayReport(v) == ~shore.sent_reports[v]

\* ACOMMS_RECEIVED.  What is older than a second is ignored.
ShoreReceives ==
  /\ shore.up
  /\ inbox[Shore] # <<>>
  /\ inbox' = [inbox EXCEPT ![Shore] = Tail(@)]
  /\ LET mail == Head(inbox[Shore]) IN
       IF mail.fresh /\ MayReport(mail.msg.id)
       THEN /\ shore' = [shore EXCEPT !.got_receive = TRUE, !.sent_reports[mail.msg.id] = TRUE]
            /\ history' = [history EXCEPT !.reports[mail.msg.id] =
                          Append(@, Posted(mail.msg, history.sent[mail.msg.id]))]
       ELSE UNCHANGED <<shore, history>>
  /\ UNCHANGED <<multicast, clock, engine, vehicle, air, orders, late>>

\* The message that goes out in this slot, and whether all its required fields are set:
\* codec->encode throws if not, and nothing catches it.
Outgoing(s, slot) ==
  IF multicast THEN s.dccl_command
  ELSE [s.dccl_command EXCEPT !.has =
          [v \in Vehicles |-> IF v \in CommandFor(slot, multicast) THEN "true" ELSE @[v]]]

Sends(s, slot) == \E v \in CommandFor(slot, multicast) : s.got_commands[v]

RequiredFieldsSet(command) == \A v \in Vehicles : command.has[v] # "unset"

Transmitted(p, msg) == air \cup {[from |-> p, msg |-> msg, old |-> FALSE]}

AfterEncoding(s) == [s EXCEPT !.dccl_command = Cleared]

Overdue(slot) == {v \in Vehicles : OverdueSlot(v, multicast) = slot}

\* The end of Iterate: a vehicle that was not heard is reported as failed, unless it has
\* been reported on.
AfterReceiveSlot(s, slot) ==
  IF ~s.got_receive /\ Overdue(slot) # {}
  THEN [s EXCEPT !.sent_reports = [v \in Vehicles |-> @[v] \/ v \in Overdue(slot)]]
  ELSE [s EXCEPT !.got_receive = FALSE]

\* The cycle begins in time, everybody has the slot of the clock or is about to take
\* it, and no message is under way.
Settled ==
  /\ clock.pos = 0
  /\ air = {} /\ \A p \in Procs : inbox[p] = <<>>
  /\ \A p \in Procs : IsRunning(engine[p]) =>
       \/ InStep(engine[p], Sched(p), clock)
       \/ InStep(Advanced(engine[p], Sched(p), clock), Sched(p), clock)

\* What the shore has posted, and that its cycle begins anew in slot 0.
ShoreHistory(slot, begun, reported, encoded) ==
  [history EXCEPT
     !.reports = [v \in Vehicles |->
        IF v \in reported THEN Append(IF slot = 0 THEN <<>> ELSE @[v], Failed)
        ELSE IF slot = 0 THEN <<>> ELSE @[v]],
     !.sent = [v \in Vehicles |->
        IF encoded /\ Outgoing(begun, slot).has[v] = "true"
        THEN Outgoing(begun, slot).cmd[v].nr ELSE @[v]],
     !.calm = IF slot # 0 THEN @ ELSE IF @ = 0 THEN IF Settled THEN 1 ELSE 0 ELSE 2]

ShoreIterates ==
  LET e == Advanced(engine[Shore], Sched(Shore), clock)
      reset == IF e.slot = 0 THEN [shore EXCEPT !.sent_reports = [v \in Vehicles |-> FALSE]]
               ELSE shore
      begun == IF e.slot \in ClearSlots(multicast) THEN ClearCommands(reset) ELSE reset
      sends == Sends(begun, e.slot)
      fails == sends /\ ~RequiredFieldsSet(Outgoing(begun, e.slot))
      sent == IF sends THEN AfterEncoding(begun) ELSE begun
      ended == AfterReceiveSlot(sent, e.slot)
      reported == {v \in Vehicles : ended.sent_reports[v] /\ ~sent.sent_reports[v]}
  IN /\ shore.up /\ Due(Shore)
     /\ engine' = [engine EXCEPT ![Shore] = IF fails THEN InitEngine ELSE e]
     /\ shore' = IF fails THEN [begun EXCEPT !.up = FALSE] ELSE ended
     /\ air' = IF sends /\ ~fails THEN Transmitted(Shore, Outgoing(begun, e.slot)) ELSE air
     /\ history' = IF fails THEN Disturbed ELSE ShoreHistory(e.slot, begun, reported, sends)
     /\ UNCHANGED <<multicast, clock, vehicle, inbox, orders, late>>
-----------------------------------------------------------------------------
(* pPursuitVehicle *)

\* ACOMMS_RECEIVED from the shore; it is read in every state of the engine.
VehicleReceives(v) ==
  /\ inbox[v] # <<>>
  /\ inbox' = [inbox EXCEPT ![v] = Tail(@)]
  /\ LET command == Head(inbox[v]).msg IN
       vehicle' = IF command.has[v] = "true"
                  THEN [vehicle EXCEPT ![v] = [trajectory |-> command.cmd[v].codes, ack |-> TRUE,
                                               nr |-> command.cmd[v].nr]]
                  ELSE vehicle
  /\ UNCHANGED <<multicast, clock, engine, shore, air, orders, late, history>>

\* Fault: the ack is not reset with the report.
AfterReportAcked(w) == w

AfterReport(w) == [w EXCEPT !.ack = FALSE, !.nr = 0]

\* One code is carried out in every slot.  One that is not in the command_map
\* stays at the head.
CarryOut(trajectory) ==
  IF trajectory # <<>> /\ Head(trajectory) \in command_map THEN Tail(trajectory) ELSE trajectory

VehicleIterates(v) ==
  LET e == Advanced(engine[v], Sched(v), clock)
      reports == e.slot = ReportSlot(v, multicast)
      report == [id |-> v, ack |-> vehicle[v].ack, nr |-> vehicle[v].nr]
      w == IF reports THEN AfterReport(vehicle[v]) ELSE vehicle[v]
  IN /\ Due(v)
     /\ engine' = [engine EXCEPT ![v] = e]
     /\ vehicle' = [vehicle EXCEPT ![v] = [w EXCEPT !.trajectory = CarryOut(@)]]
     /\ air' = IF reports THEN Transmitted(v, report) ELSE air
     /\ UNCHANGED <<multicast, clock, shore, inbox, orders, late, history>>
-----------------------------------------------------------------------------
(* The operator, the water and the clock *)

\* PURSUIT_COMMAND reaches everybody, or one program alone.
Targets == {Procs} \cup {{p} : p \in Procs}

OnRun(P) ==
  /\ orders < MaxOrders
  /\ orders' = orders + 1
  /\ engine' = [p \in Procs |-> IF p \in P /\ Running(p) THEN Run(Sched(p), clock) ELSE engine[p]]
  /\ vehicle' = [v \in Vehicles |->
       IF v \in P THEN [vehicle[v] EXCEPT !.trajectory = <<>>] ELSE vehicle[v]]
  /\ history' = Disturbed
  /\ UNCHANGED <<multicast, clock, shore, air, inbox, late>>

OnStop(P) ==
  /\ orders < MaxOrders
  /\ orders' = orders + 1
  /\ \E p \in P : IsRunning(engine[p])
  /\ engine' = [p \in Procs |-> IF p \in P THEN [engine[p] EXCEPT !.slot = Stopped] ELSE engine[p]]
  /\ history' = Disturbed
  /\ UNCHANGED <<multicast, clock, shore, vehicle, air, inbox, late>>

Oversleeps == \E p \in Procs : Running(p) /\ (Due(p) \/ inbox[p] # <<>>)

Listeners(sound) == IF sound.from = Shore THEN Active ELSE {Shore}

\* A vehicle ignores what does not come from the shore.
Hear(sound, listeners) ==
  [p \in Procs |-> [i \in DOMAIN inbox[p] |-> [inbox[p][i] EXCEPT !.fresh = FALSE]]
                   \o IF p \in listeners /\ Running(p) THEN <<[msg |-> sound.msg, fresh |-> TRUE]>> ELSE <<>>]

Propagate ==
  \/ Cardinality(air) # 1 /\ air' = {} /\ inbox' = Hear({}, {})
  \/ \E sound \in air :
       /\ air = {sound}
       /\ \/ /\ ~sound.old
             /\ air' = {[from |-> sound.from, msg |-> sound.msg, old |-> TRUE]}
             /\ inbox' = Hear(sound, {})
          \/ /\ air' = {}
             /\ \E listeners \in SUBSET Listeners(sound) : inbox' = Hear(sound, listeners)

Later ==
  IF clock.pos + 1 = Sched(Shore).period
  THEN [cycle |-> IF clock.cycle + 1 = Cycles THEN 0 ELSE clock.cycle + 1, pos |-> 0]
  ELSE [clock EXCEPT !.pos = @ + 1]

Tick ==
  /\ Oversleeps => late < MaxLate
  /\ late' = IF Oversleeps THEN late + 1 ELSE late
  /\ history' = IF Oversleeps THEN Disturbed ELSE history
  /\ clock' = Later
  /\ Propagate
  /\ UNCHANGED <<multicast, engine, shore, vehicle, orders>>
-----------------------------------------------------------------------------
Next ==
  \/ \E v \in Active, codes \in BoundedSeq(Codes, MaxLength) \ {<<>>} : OnVehicleCommand(v, codes)
  \/ ShoreReceives
  \/ ShoreIterates
  \/ \E v \in Active : VehicleReceives(v) \/ VehicleIterates(v)
  \/ \E P \in Targets : OnRun(P) \/ OnStop(P)
  \/ Tick

Spec == Init /\ [][Next]_vars
-----------------------------------------------------------------------------
(* Properties *)

\* The state keeps its shape.
TypeOK ==
  /\ multicast \in BOOLEAN
  /\ clock \in [cycle : 0 .. Cycles - 1, pos : 0 .. Sched(Shore).period - 1]
  /\ \A p \in Procs : /\ engine[p].slot \in {Stopped} \cup Slots(Sched(p))
                      /\ engine[p].cycle \in 0 .. Cycles - 1
  /\ shore \in ShoreState
  /\ vehicle \in [Vehicles -> VehicleState]
  /\ \A s \in air : s.from \in Procs /\ s.msg \in IF s.from = Shore THEN Command ELSE Report

\* In a cycle in which nobody was late and no order came, the shore posts one
\* report for each vehicle, good or failed, by the end of the vehicle's slot.
\* It never posts two, whatever happens.
OneReportPerCycle ==
  \A v \in Vehicles :
    /\ Len(history.reports[v]) <= 1
    /\ history.calm > 0 /\ engine[Shore].slot >= OverdueSlot(v, multicast) => Len(history.reports[v]) = 1

\* A vehicle that acknowledges a command has received the last one that was
\* transmitted for it, not an older one: the ack is not left over.
AckIsForLastCommand ==
  \A v \in Vehicles : history.calm = 2 =>
    \A i \in DOMAIN history.reports[v] :
      LET report == history.reports[v][i] IN report.ack => report.nr = report.last

\* As long as nobody is late no two modems sound at the same time, whenever the programs were
\* told to run and to stop.
NoCollision == late = 0 => Cardinality(air) <= 1

\* What the shore transmits has something new in it and nothing old: each
\* trajectory goes out once at most, and never an empty command.
NothingSentTwice ==
  [][\A s \in air' \ air : s.from = Shore /\ ~s.old =>
       LET new == {v \in Vehicles : s.msg.has[v] = "true"} IN
         new # {} /\ \A v \in new : s.msg.cmd[v].nr > history.sent[v]]_vars

\* run leads to the slot of the clock at once, Iterate in at most two rounds of
\* slots, one slot at a time, from wherever the engine was when its program fell asleep.
\* The engines need not be in these states: it is enough to try every time of day, before
\* anything else happens.
CatchesUp ==
  [][clock' # clock /\ orders = 0 /\ history.posted = 0 =>
       \A sched \in {Sched(p) : p \in Procs} :
         LET right == Run(sched, clock) IN
           /\ RunLoop(sched, clock) = right
           /\ \A e \in [slot : Slots(sched), cycle : 0 .. Cycles - 1] :
                TestAdvances(e, sched.lengths \o sched.lengths, sched, clock) = right]_vars

\* What goes out has its required fields set.
RequiredFields == shore.up
=============================================================================
