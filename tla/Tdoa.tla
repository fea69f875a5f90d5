-------------------------------- MODULE Tdoa --------------------------------
(***************************************************************************)
(* pTDOAShore and three pTDOAVehicle share the positions of the vehicles    *)
(* over acoustic modems, in the slots of a cycle.  Each vehicle saves its   *)
(* position in slot 1 and transmits it in its own slot, with those that it  *)
(* has heard from the others in this cycle; the shore posts what is new to  *)
(* it for the tracker, and a failure if a slot brings nothing.  In the last *)
(* slot it transmits the waypoints that the tracker has answered with.      *)
(*                                                                         *)
(* The programs iterate and read their mail in every unit of time, before   *)
(* the next.  Coordinates are left out, and what is only displayed: counts  *)
(* of receptions, RESET, which clears them, got_command and got_commands.   *)
(* External are the water, in which a sound takes one unit and may be       *)
(* missed, and the codec, which encodes as much as max_repeat allows.       *)
(***************************************************************************)
EXTENDS TDMA, FiniteSets

CONSTANTS
  TdoaShoreSchedule, TdoaVehicleSchedule,
  Afloat,              \* the vehicles that are out; the programs of the others do not run
  TdoaMaxOrders,       \* bound: RUN and STOP from the operator
  TdoaMaxCommands      \* bound: waypoints from the tracker

Ids == 1 .. 3
ShoreId == 4           \* its number on the acoustic network
Stations == Afloat \cup {ShoreId}
MaxRepeat == 3

SlotsOf(p) == IF p = ShoreId THEN TdoaShoreSchedule ELSE TdoaVehicleSchedule

ASSUME TdoaParameters ==
  /\ Afloat \subseteq Ids /\ TdoaMaxOrders \in Nat /\ TdoaMaxCommands \in Nat
  /\ \A p \in Stations : IsSchedule(SlotsOf(p)) /\ SlotsOf(p).period = SlotsOf(ShoreId).period

VARIABLES
  time,          \* the time of day
  tdma_engine,   \* of each program
  tdoa_shore,    \* the rest of pTDOAShore
  dccl_report,   \* of each pTDOAVehicle: the positions to transmit
  task,          \* the waypoint it was given last; 0 after RUN, which is to keep station
  sounds,        \* messages in the water
  heard,         \* ACOMMS_RECEIVED that a program has not read yet
  told, asked,   \* RUN and STOP, and waypoints, so far
  record         \* what properties refer to, no handler reads it

tdoaVars == <<time, tdma_engine, tdoa_shore, dccl_report, task, sounds, heard, told, asked, record>>

\* Whose position it is, and whether it was saved in the cycle that the clock shows.
Position == [id : Ids, now : BOOLEAN]

\* A waypoint: nr is its number among all that the tracker gave.
Waypoint == [id : Ids, nr : 1 .. TdoaMaxCommands]

\* sent_reports: of whom a position was posted in this cycle.  now: whether
\* report_struct.cycle is the cycle that the clock shows.
TdoaShoreState ==
  [dccl_command : Seq(Waypoint), sent_reports : SUBSET Ids, got_receive : BOOLEAN, now : BOOLEAN]

TdoaInit ==
  /\ time = [cycle |-> 0, pos |-> 0]
  /\ tdma_engine = [p \in Stations |-> InitEngine]
  /\ tdoa_shore = [dccl_command |-> <<>>, sent_reports |-> {}, got_receive |-> FALSE, now |-> FALSE]
  /\ dccl_report = [v \in Ids |-> <<>>]
  /\ task = [v \in Ids |-> 0]
  /\ sounds = {}
  /\ heard = [p \in Stations |-> <<>>]
  /\ told = 0 /\ asked = 0
  /\ record = [ran |-> FALSE,                     \* RUN came in this cycle
               posted |-> <<>>,                   \* TDOA_VEHICLE_REPORT in this cycle
               obeyed |-> [v \in Ids |-> 0]]      \* the last waypoint of each vehicle

MustAdvance(p) == Advances(tdma_engine[p], SlotsOf(p), time)

\* Fault: the last slot has a next one too.
NextEnginePastTheEnd(p) == [tdma_engine[p] EXCEPT !.slot = @ + 1]

NextEngine(p) == Advanced(tdma_engine[p], SlotsOf(p), time)

WhoseIn(data) == {data[i].id : i \in DOMAIN data}

AddNew(data, position) ==
  IF position.id \in WhoseIn(data) THEN data ELSE Append(data, position)

Encoded(data) == IF Len(data) > MaxRepeat THEN SubSeq(data, 1, MaxRepeat) ELSE data
Sounding(p, data) == sounds \cup {[from |-> p, data |-> Encoded(data)]}
-----------------------------------------------------------------------------
(* pTDOAVehicle *)

\* Of the waypoints in a command the first that is for this vehicle counts.
WaypointsFor(v, command) == {i \in DOMAIN command : command[i].id = v}

TdoaVehicleReceives(v) ==
  /\ heard[v] # <<>>
  /\ heard' = [heard EXCEPT ![v] = <<>>]
  /\ LET msg == Head(heard[v]) IN
       IF msg.from = ShoreId
       THEN /\ UNCHANGED dccl_report
            /\ IF WaypointsFor(v, msg.data) = {} THEN UNCHANGED <<task, record>>
               ELSE LET nr == msg.data[Min(WaypointsFor(v, msg.data))].nr IN
                      /\ task' = [task EXCEPT ![v] = nr]
                      /\ record' = [record EXCEPT !.obeyed[v] = nr]
       ELSE /\ dccl_report' = [dccl_report EXCEPT ![v] = FoldLeft(AddNew, @, msg.data)]
            /\ UNCHANGED <<task, record>>
  /\ UNCHANGED <<time, tdma_engine, tdoa_shore, sounds, told, asked>>

\* Fault: the report is only cleared when it was transmitted.
CollectedAllAlong(v, slot) == dccl_report[v]

\* The positions of the last cycle are cleared in slot 0.
Collected(v, slot) == IF slot = 0 THEN <<>> ELSE dccl_report[v]

\* It saves its own position whether or not it has one already.
Saved(v, slot, data) == IF slot = 1 THEN Append(data, [id |-> v, now |-> TRUE]) ELSE data

TdoaVehicleIterates(v) ==
  LET slot == NextEngine(v).slot
      data == Saved(v, slot, Collected(v, slot))
      sends == slot = v + 1
  IN /\ MustAdvance(v)
     /\ tdma_engine' = [tdma_engine EXCEPT ![v] = NextEngine(v)]
     /\ dccl_report' = [dccl_report EXCEPT ![v] = IF sends THEN <<>> ELSE data]
     /\ sounds' = IF sends THEN Sounding(v, data) ELSE sounds
     /\ UNCHANGED <<time, tdoa_shore, task, heard, told, asked, record>>
-----------------------------------------------------------------------------
(* pTDOAShore *)

\* TDOA_VEHICLE_COMMAND
OnWaypoint(v) ==
  /\ asked < TdoaMaxCommands
  /\ asked' = asked + 1
  /\ tdoa_shore' = [tdoa_shore EXCEPT !.dccl_command = Append(@, [id |-> v, nr |-> asked'])]
  /\ UNCHANGED <<time, tdma_engine, dccl_report, task, sounds, heard, told, record>>

\* TDOA_VEHICLE_REPORT: of which vehicle's slot, with which positions and of which cycle.
Posting(slot, positions, now) ==
  record' = [record EXCEPT !.posted = Append(@, [slot |-> slot, positions |-> positions, now |-> now])]

\* What has been posted in this cycle is passed over.
AddUnreported(data, position) ==
  IF position.id \in tdoa_shore.sent_reports THEN data ELSE AddNew(data, position)

TdoaShoreReceives ==
  /\ heard[ShoreId] # <<>>
  /\ heard' = [heard EXCEPT ![ShoreId] = <<>>]
  /\ LET msg == Head(heard[ShoreId])
         new == FoldLeft(AddUnreported, <<>>, msg.data)
     IN /\ Posting(msg.from, new, tdoa_shore.now)
        /\ tdoa_shore' = [tdoa_shore EXCEPT !.sent_reports = @ \cup WhoseIn(new), !.got_receive = TRUE]
  /\ UNCHANGED <<time, tdma_engine, dccl_report, task, sounds, told, asked>>

\* In which slot of the shore the report of a vehicle should have come.
MissedSlot(v) == v + 2

\* A vehicle transmits in the slot in which the shore waits for it, early enough to be heard in it.
ASSUME PositionsAwaited ==
  \A v \in Afloat :
    LET sent == StartOf(v + 1, TdoaVehicleSchedule) IN
      /\ v + 1 \in Slots(TdoaVehicleSchedule) /\ MissedSlot(v) \in Slots(TdoaShoreSchedule)
      /\ StartOf(v + 1, TdoaShoreSchedule) <= sent
      /\ sent + 2 <= StartOf(MissedSlot(v), TdoaShoreSchedule)

\* Fault: what is transmitted stays until the next cycle.
AfterCommandKept(s) == s

AfterCommand(s) == [s EXCEPT !.dccl_command = <<>>]

TdoaShoreIterates ==
  LET slot == NextEngine(ShoreId).slot
      cleared == IF slot = 4 THEN [tdoa_shore EXCEPT !.dccl_command = <<>>] ELSE tdoa_shore
      begun == IF slot = 0 THEN [cleared EXCEPT !.sent_reports = {}, !.now = TRUE] ELSE cleared
      missed == {v \in Ids : slot = MissedSlot(v) /\ ~tdoa_shore.got_receive}
  IN /\ MustAdvance(ShoreId)
     /\ tdma_engine' = [tdma_engine EXCEPT ![ShoreId] = NextEngine(ShoreId)]
     /\ tdoa_shore' = [(IF slot = 6 THEN AfterCommand(begun) ELSE begun) EXCEPT !.got_receive = FALSE]
     /\ sounds' = IF slot = 6 THEN Sounding(ShoreId, begun.dccl_command) ELSE sounds
     /\ \/ slot = 1 /\ Posting(0, <<>>, begun.now)
        \/ \E v \in missed : Posting(v, <<>>, begun.now)
        \/ slot # 1 /\ missed = {} /\ UNCHANGED record
     /\ UNCHANGED <<time, dccl_report, task, heard, told, asked>>
-----------------------------------------------------------------------------
(* The operator, the water and the clock *)

\* TDOA_COMMAND reaches everybody, or one program alone.
ToldAtOnce == {Stations} \cup {{p} : p \in Stations}

TdoaRun(P) ==
  /\ told < TdoaMaxOrders
  /\ told' = told + 1
  /\ tdma_engine' = [p \in Stations |-> IF p \in P THEN Run(SlotsOf(p), time) ELSE tdma_engine[p]]
  /\ task' = [v \in Ids |-> IF v \in P THEN 0 ELSE task[v]]
  /\ record' = [record EXCEPT !.ran = TRUE]
  /\ UNCHANGED <<time, tdoa_shore, dccl_report, sounds, heard, asked>>

TdoaStop(P) ==
  /\ told < TdoaMaxOrders
  /\ told' = told + 1
  /\ \E p \in P : IsRunning(tdma_engine[p])
  /\ tdma_engine' = [p \in Stations |->
       IF p \in P THEN [tdma_engine[p] EXCEPT !.slot = Stopped] ELSE tdma_engine[p]]
  /\ UNCHANGED <<time, tdoa_shore, dccl_report, task, sounds, heard, asked, record>>

\* Positions of the cycle that is over.
Older(data) == [i \in DOMAIN data |-> [data[i] EXCEPT !.now = FALSE]]

Hearing(listeners) ==
  heard' = [p \in Stations |-> IF p \in listeners THEN <<CHOOSE s \in sounds : TRUE>> ELSE <<>>]

\* Any station but the one that sounds may hear it; two sounds at once are lost.
WaterCarries ==
  /\ sounds' = {}
  /\ IF Cardinality(sounds) # 1 THEN Hearing({})
     ELSE \E listeners \in SUBSET {p \in Stations : \A s \in sounds : s.from # p} : Hearing(listeners)

\* All programs have iterated and read their mail.
TdoaTick ==
  /\ \A p \in Stations : ~MustAdvance(p) /\ heard[p] = <<>>
  /\ WaterCarries
  /\ IF time.pos + 1 < SlotsOf(ShoreId).period
     THEN /\ time' = [time EXCEPT !.pos = @ + 1]
          /\ UNCHANGED <<tdoa_shore, dccl_report, record>>
     ELSE /\ time' = [cycle |-> 1 - time.cycle, pos |-> 0]
          /\ tdoa_shore' = [tdoa_shore EXCEPT !.now = FALSE]
          /\ dccl_report' = [v \in Ids |-> Older(dccl_report[v])]
          /\ record' = [record EXCEPT !.ran = FALSE, !.posted = <<>>]
  /\ UNCHANGED <<tdma_engine, task, told, asked>>

TdoaNext ==
  \/ \E v \in Afloat : TdoaVehicleReceives(v) \/ TdoaVehicleIterates(v) \/ OnWaypoint(v)
  \/ TdoaShoreReceives \/ TdoaShoreIterates
  \/ \E P \in ToldAtOnce : TdoaRun(P) \/ TdoaStop(P)
  \/ TdoaTick

TdoaSpec == TdoaInit /\ [][TdoaNext]_tdoaVars
-----------------------------------------------------------------------------
(* Properties *)

\* The state keeps its shape.
TdoaTypeOK ==
  /\ \A p \in Stations : tdma_engine[p].slot \in {Stopped} \cup Slots(SlotsOf(p))
  /\ tdoa_shore \in TdoaShoreState
  /\ \A v \in Ids : dccl_report[v] \in Seq(Position) /\ task[v] \in 0 .. TdoaMaxCommands
  /\ \A s \in sounds : /\ s.from \in Stations
                       /\ s.data \in IF s.from = ShoreId THEN Seq(Waypoint) ELSE Seq(Position)

\* Whatever is missed or stopped, in a cycle in which nobody was told to run the tracker gets
\* one report for each vehicle's slot by its end, with positions that were saved in this cycle,
\* whoever passed them on, each vehicle's once.
TrackerIsServed ==
  ~record.ran /\ IsRunning(tdma_engine[ShoreId]) /\ tdma_engine[ShoreId].cycle = time.cycle =>
    /\ \A v \in Ids :
         LET ofSlot == {i \in DOMAIN record.posted : record.posted[i].slot = v} IN
           /\ Cardinality(ofSlot) <= 1
           /\ tdma_engine[ShoreId].slot >= MissedSlot(v) => ofSlot # {}
    /\ \A i \in DOMAIN record.posted :
         LET positions == record.posted[i].positions IN
           /\ record.posted[i].now
           /\ \A k \in DOMAIN positions :
                /\ positions[k].now
                /\ \A j \in DOMAIN record.posted :
                     \A l \in DOMAIN record.posted[j].positions :
                       record.posted[j].positions[l].id = positions[k].id => <<j, l>> = <<i, k>>

\* A vehicle is sent to a waypoint once: what it takes over is newer than all that it had
\* before, also when it was told to keep station in between.
WaypointsAreNew ==
  [][\A v \in Ids : task'[v] \notin {0, task[v]} => task'[v] > record.obeyed[v]]_tdoaVars
=============================================================================
