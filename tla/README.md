# The hovergroup vehicles and their communication, in TLA+

This directory models programs of this repository: MOOS applications that run on
marine vehicles and on the shoreside computer that supervises them, and the
firmware of the kayak. Four parts are modelled: acknowledged messages over pShare;
the acoustic driver and its simulator; the programs that share the water in slots
of a cycle; and the kayak from its sensors to its motor. The models
are checked with TLC, and what matters most is proved with TLAPS. Paths below are
relative to `src/`.

## The system

Each vehicle and the shoreside run a MOOSDB, a blackboard, and a set of MOOS
applications. An application is sequential: the MOOS loop calls `OnNewMail` with
the batch of messages that arrived, then `Iterate`, several times a second
(`AppTick`), and `OnConnectToServer` whenever the connection to the MOOSDB is
made, also when it is made again. What is concurrent are the applications among
each other, the second mail client of a simulated driver, the serial threads of
some drivers, and the networks between them.

    shoreside                                   vehicle
    ---------                                   -------
    pAckedCommsShoreside --- pShare (UDP) --->  pAckedCommsVehicle
            ^---------------- acks -------------------'
    pAcommsSimulator  <---- second client --->  iAcommsDriver (simulation)
                                                iAcommsDriver --- serial --- Micro-Modem
                                                  ^ mail: rate, data, lockout
                                                pAcommsScheduler, pScheduledTransmit
    pPursuitShore  <------ acoustic messages, in slots ------>  pPursuitVehicle
    pTDOAShore     <------ acoustic messages, in slots ------>  pTDOAVehicle

    pNavManager --- NAV_* ---> pMarinePID_Hover <--- helm
                                     | DESIRED_THRUST, DESIRED_RUDDER
                                     v
                               iHoverKayak --- serial ---> Arduino (kestrel_v2): motor,
                                                           servo, battery, radios,
                                                           remote control, console

The current programs are under `code/marine` and `code/personal/josh`;
`ivp-extend` holds older copies of them, and is the only home of
`pAcommsScheduler`.

### Inventory

| Component | State | Operations | Interacts by | What is hard | What makes it correct |
|---|---|---|---|---|---|
| pAckedCommsShoreside | variables, vehicles, next number, active transmissions | OnConnectToServer, post, broadcast, returned ack, retransmission loop | pShare to and from the vehicles, lines on the console | loss, duplication, delay, an erase inside the loop, restart, reconnection | a line on the console is true, final, one for each request, and comes |
| pAckedCommsVehicle | none | OnNewMail | publishes, returns an ack | damaged and repeated messages | it acknowledges what it published |
| iAcommsDriver | status, lockout, transmission protobuf, three times | OnNewMail, OnConnectToServer, Iterate, transmit_data, the modem's signals | serial line, or a second mail client | signals lost, reception against transmission, rate changed on the way, reconnection | a transmission was allowed when it was handed over, and busy ends |
| lib_HoverAcomms | rate, protobuf | setRate, fillData, parseFromString | used by the driver | refilling when the rate changes | data fits the rate |
| pAcommsSimulator | a modem with a queue for each vehicle | report, transmission, doWork | posts to the drivers' second client | receptions and transmissions that overlap, losses | states in order, nothing heard twice, back to READY |
| pAcommsScheduler | observations, slot, one pending transmission | OnNewMail, Iterate | lockout and transmissions to the driver | the status may change on the way | nothing is sent in the lock |
| lib_JoshUtils (TDMAEngine) | slot, cycle | run, stop, testAdvance | called by the programs below | the clock goes on while a program sleeps, cycles end | it catches up to the slot of the clock |
| pPursuitShore | commands, reports of this cycle, engine | OnNewMail, Iterate | acoustic messages to and from the vehicles | losses, oversleeping, RUN and STOP at any moment, a command that comes late | one report for each vehicle and cycle, nothing sent twice |
| pPursuitVehicle | trajectory, ack, engine | OnNewMail, Iterate | acoustic messages | the same | it acknowledges the last command, and sounds alone |
| pTDOAShore, pTDOAVehicle | positions to pass on, waypoints, engine | OnNewMail, Iterate | acoustic messages, the tracker | losses, and what was heard goes on through others | the tracker gets a report for each slot, of this cycle, without doubles |
| lib_timed-acomms, pTDOAComms | slots | doWork, Iterate | callbacks | flags left set, slots that go back | commented out in the build |
| pScheduledTransmit | last slot | Iterate | data to the driver | day change, change of period | one transmission for each slot |
| pNavManager | source, availabilities | OnNewMail, Iterate | mirrors one source | stale availability, uninitialised fields | what is mirrored is alive and announced |
| pMarinePID_Hover | control, tardy times, all-stop, heading | OnNewMail, Iterate | thrust and rudder for iHoverKayak | a key of any source renews the time, all-stop once | silence of the helm or the sensors stops the vehicle |
| iHoverKayak | commands, radio | mail, Iterate, serial thread | serial line to the Arduino | two threads, a switch that needs confirmation | commands expire, the radio can be reached |
| Arduino firmware | source of control | serial input, remote control, loop | serial line | arbitration, timeouts | manual over remote over computer |

The other components, and why they are not modelled, are in `PROJECT.json`:
control laws and geometry work on real numbers, sensor drivers and consoles are
input and output, `pSmartComms` is an empty template, the rest are experiments of
single authors. The MATLAB, LabVIEW, mission, configuration and third-party
directories hold no program that is modelled.

## The modules

| Module | What it is |
|---|---|
| `AckedDelivery` | what the acknowledged bridge promises, without retransmissions, numbers or a network |
| `AckedComms` | pAckedCommsShoreside, pAckedCommsVehicle and the network between them |
| `AckedCommsProofs` | theorems about `AckedComms` |
| `AcommsDriver` | the handlers of iAcommsDriver, as operators on the state of one driver |
| `MicroModem` | one driver with the modem it drives |
| `AcommsNetwork` | pAcommsSimulator with one driver for each vehicle |
| `FoldProofs` | what a fold of the community modules does with a sequence of any length |
| `AcommsDriverProofs` | lemmas about the handlers of `AcommsDriver` |
| `MicroModemProofs` | theorems about `MicroModem` |
| `AcommsNetworkProofs` | theorems about `AcommsNetwork` |
| `TDMA` | TDMAEngine: schedules and engines, as operators |
| `Pursuit` | pPursuitShore and the pPursuitVehicles, in both modes |
| `Tdoa` | pTDOAShore and the pTDOAVehicles |
| `TDMAProofs` | theorems about `Pursuit` and `Tdoa` |
| `Kestrel` | the parts of the kayak's firmware, as operators |
| `KayakMotor` | the firmware's loop with iHoverKayak's commands |
| `KayakRadio` | the radio switch: iHoverKayak's two threads and the Arduino |
| `KayakProofs` | theorems about `KayakMotor` and `KayakRadio` |
| `NavManager` | the handlers of pNavManager, as operators |
| `MarinePID` | the handlers of pMarinePID_Hover, as operators |
| `Autonomy` | the two together, from sensors and helm to thrust |
| `AutonomyProofs` | theorems about `Autonomy` |
| `MC...` | the instances that TLC checks; `MCPursuit` holds `Pursuit` and `Tdoa`, `MCKayak` the three parts of the kayak |

An operator marked *Fault* is a plausible mistake in the one that follows it. It
is used by nothing: with it in the place of the other, the property named in
`PROJECT.json` fails, which shows that the property depends on the code.

### AckedComms

`m_transmissions`, a vector, is a function from the numbers that are active: the
vector is always in the order of the numbers. `OnConnectToServer`, `Post`,
`Broadcast`, `OnReturnAck` and `Iterate` are the handlers; `DelayPasses` is the
time after which `MOOSTime() - transmit_time > delay`. `Iterate` is the whole
loop, with the element it passes over after each erase. `Restart` is the death
and new start of the process. `OnTransmit` is the vehicle's handler, which
acknowledges also what it could not parse. The network is the set of all that was
sent: a member may be received any number of times, in any order, or never. A
vehicle that does not exist (a typo in the posted name) has no network. A
configured `delay` is taken to be positive: the example configurations have half
a second and more.

`AckedDelivery` has no numbers, attempts or messages. The request is the number
it got in the first run of the shoreside; `ImplementsAckedDelivery` maps the
console's lines to confirmed and abandoned requests. A request that was abandoned
may still arrive, as in the code.

### AcommsDriver and MicroModem

A driver is a record: the status, the lockout, the rate and whether the frames
hold data and the protobuf a rate, the age of the present status as far as a timeout
reads it, and the time since the start. `OnNewMail` folds the handler of one mail
over the batch and then transmits once at most. `Iterate` is the start-up timer,
the signals that the modem has by then, and the two timeouts.

`MicroModem` puts a modem on the other end of the serial line. It is not in this
repository: it is modelled by the signals that the driver handles and by the
durations that pAcommsSimulator gives to it. Any signal may be lost; the modem
may hear something just when a transmission is handed to it, and then refuses to
send or stops listening.

Time goes on in steps (`Tick`). The driver iterates five times a second, several
times in a step, so a step passes only when an `Iterate` would change nothing
any more. Counters of time stop once they are past every timeout.

A pre-built transmission (`ACOMMS_TRANSMIT`) replaces the protobuf and leaves the
rate of the driver alone: it is sent at the driver's own rate. If it comes
without a rate, the driver writes FSK0 into it, after its data was checked at the
rate of before; this is why `DataFitsRate` leaves FSK0 out. That a protobuf
without a rate answers a negative one is goby's default, which the code relies on.

### AcommsNetwork

`sims[v]` is the `SingleDriverSim` of vehicle `v`: a state and a queue of events,
each with the time it is still due in, the state it leads to and what it posts.
`HandleNewTransmission` is the simulator's handler, with the cancellation
(`Cleared`), the vehicles that hear (`Hearers`; the loss of a whole transmission
is drawn for any set of them) and the queueing. `DoWork` takes what is due off
one queue. `OnSimMail` is the driver's second mail client, a thread of its own
with a slot for a raw message and one for a reception; the driver's next
`Iterates` reads both. `HandleReport` makes a vehicle known; a transmission of a
vehicle that is not known is dropped.

Mail arrives and every process iterates within the half second that a step of
time stands for, in any order. Drivers have been started and are not
restarted or connected anew in this module; that is checked in `MicroModem`.
Transmissions are numbered for the properties; the code does not number them.

### TDMA and Pursuit

`TDMA` has the engine's functions as they are: a slot is over when the time within it
has come to its length, and `Advances` is also true in a new cycle. The
clock shows whole units, and code runs strictly between two of them, so the code's
strict comparison is one with equality in the model. `Run` is what
the loop in `run` comes to; that it does is a property (`CatchesUp`), which is proved.

`Pursuit` has one configuration (`command_mode`) for everybody. `ShoreIterates` is
the whole of the shore's `Iterate`: what the slot resets and clears, whether a
command goes out, and the reports of failure. A command holds, for each
vehicle, a trajectory and a required field that may not have been set; goby's codec
throws if it has not, nobody catches that, and the program ends (`up`). The shore ignores
receptions of more than a second ago (`fresh`). A program that
oversleeps is a `Tick` that comes while it has a slot to take or mail to read.

### Tdoa

A vehicle saves its position in slot 1, adds those that it hears, and transmits them
in its slot; `MaxRepeat` is what fits in a message. The shore keeps the report
of a slot until the tracker is to have it, posts failures for slots that bring nothing,
and transmits waypoints in the last slot. `now` says whether a position was saved in the
cycle of the clock. Nobody oversleeps in this module.

### Kestrel, KayakMotor and KayakRadio

`Kestrel` translates the classes of the firmware one by one: the console's menus,
remote control, computer, battery, servo. Times are ages. Thrust is in tenths of a
percent, so that the constants of the code are whole numbers. `Loop` is the
Arduino's `loop`, once at least in every unit of time, with anything that may have come
in: a key, a frame of the remote control, a command from the line, the servo's time.
The console sets its two times with printing in between, which takes up to a unit
(`printing`). iHoverKayak iterates as often or as rarely as it likes, so a program that
hangs or dies is included. A garbled line is one that is never parsed.

`KayakRadio` has iHoverKayak's two threads, which share `m_usingFreewave` and
`m_radioSetTime` without a lock. What a thread has to write is written one variable at
a time (`todo`), in the order of the code, and the other thread may come in
between. Reports and commands are lines on their way; a command may be lost. The
serial thread may lag by `MaxLag` reports. The console's radio menu switches directly.

### NavManager, MarinePID and Autonomy

A source's age is the time since its last position; X and Y come together. `Memory`
is what was in the members that pNavManager's constructor does not set: a time
may lie in a future that does not come (`Future`), and such a source is available
although it was never heard. What the code does not keep, `past` keeps beside it for the
properties: when a source was really heard, and which sources have no time yet but the one
from the memory (`unset`). `Chosen` is the search through the priorities, with the
experiment kept as long as it is there. `MarinePID` has the controllers compute any
value, of which only 0 is told apart, and keeps the guards: control, all-stop,
tardy inputs, and when the speed PID runs; that it ignores mail whose time stamp is six
minutes or more off (`ACCEPTABLE_SKEW_FIX_ME`) is left out, since pNavManager, the helm and
pMarinePID_Hover share a MOOSDB and its clock. `Autonomy` delivers what
pNavManager mirrors to pMarinePID_Hover, which renews the time of the navigation at any
key that begins with `NAV_`, but registers for two of those that pNavManager posts.

## The runs

| Run | Checks | Result |
|---|---|---|
| `acked` | the console's lines under loss, repetition, delay and damage, a second connection, a restart | holds |
| `acked_live` | every request is resolved; refinement of `AckedDelivery` with its liveness | holds |
| `acked_reconnect` | "broadcast, add a transmission for each vehicle" | violated |
| `modem` | lockout, data and rate, timeouts, a second connection | holds |
| `modem_rate` | "set transmit timeout based on packet type" | violated |
| `network` | order of the queues, receptions, quiet in the end | holds |
| `network_conflict` | "the simulator will retroactively cancel the reception" | violated |
| `pursuit` | one report for each vehicle and cycle, acks, collisions, positions for the tracker | holds |
| `pursuit_abort` | "required bool has_1" | violated |
| `kayak` | who commands the motor, its limits, the radio switch, silence of sensors and helm | holds |
| `kestrel_manual` | "control will timeout after 30 seconds of inactivity" | violated |
| `pid_heading` | "within ANGLE_LIMIT of the desired heading for at least TIME_DELAY seconds" | violated |

What the six violations show:

* **A second connection doubles the vehicles.** `m_started` is never set, so each
  connection to the MOOSDB appends the configured vehicles to the list again, and
  a broadcast then goes to each of them twice, under two numbers.
* **The transmit timeout follows the next packet.** It is computed from the rate
  that is set at the moment, not from the rate of the packet that sounds. Setting
  the rate to MINI during an FSK0 packet makes the driver READY after three
  seconds, with two seconds of sound to go. `TimeoutOutlastsTransmission`, which
  holds, says that a change of the rate is the only way to this.
* **A queued reception is not cancelled.** The simulator cancels a reception for a
  transmission only if the modem's state has left READY. A reception whose sound
  is still on its way stays queued, the transmission is queued behind it, and the
  driver is given data while it transmits. `QueuesInOrder`, which holds and is
  proved, says that the queue nevertheless goes through its states in order.
* **An incomplete command ends the shore's program.** In multicast mode a command
  needs a field for each of the three vehicles. After a transmission they are
  not set again until slot 5, and before the first slot 5 they never were; if not
  all three vehicles are commanded in that time, encoding the next command throws.
* **Manual control outlasts its timeout.** The console has a second timeout, of
  the same length, that leads back to the main menu at the next key. It may run out
  first, does not end manual control, and takes the first timeout out of force: the motor
  then keeps the last manual thrust, and nobody else is listened to.
* **Opposite headings count as near.** The difference of two headings is brought into
  range by half turns. Heading 0 with 190 desired counts as 10 degrees off, and the
  speed PID runs.

Properties that hold and may surprise: `SuccessSound` admits that after a restart
an ack of the previous run makes the line of a new request, since the numbers
begin with 0 again; and it holds only as long as no message was damaged, since
the vehicle acknowledges what it cannot parse. `HeardUnlessOverlapped` excuses a
transmission that the receiver follows with one of its own, which cancels it, and one
that is still on its way when a later one is queued at the same modem: the second
reception may replace the first one in the client's only slot. Both may come from one
vehicle: the simulator has no length for the higher rates, and two packets
of no length can be received between two iterations of the driver. A reception that a modem which
is still parsing refuses has not begun, and nothing is said of it.

`OneReportPerCycle` promises exactly one report only for a cycle that is calm, in which
nobody oversleeps and nobody is told to run or to stop; at most one holds always.
`TrackerIsServed` leaves out cycles with a RUN: a vehicle that is told to run in the
middle of a cycle passes on positions of the one before. `SilenceStops` is about a motor
that the computer commands: when the remote control is lost, its timeout is
looked at only when a frame comes. `UnconfirmedReverts` excuses three
ways in which a switch may not be undone: the two threads write at the same time, a line
is lost, or the switch is asked for before the Arduino's first report, which is then
believed at once. A command that is not repeated can thus leave the operator cut off in these
cases; `RadioIsKnown`, which has no such excuse, says that iHoverKayak at least knows. One race
is finer than the model's steps: `Iterate` reads `m_radioSetTime` twice (`kayak_driver.cpp:130`),
the model's `WaitedTooLong` once. If the serial thread ends the wait between the two, the second reading
is -1, the wait seems too long, and the switch is flipped once more than the model has it.
It would be a race of the kind that `UnconfirmedReverts` excuses.

`SourceIsAlive` excuses a source that was never heard and whose time, which the constructor
does not set (`NavManager.cpp:214`), happens to lie in the future or less than a timeout ago:
`Iterate` takes such a source for one that is there, and after it `SET_NAV_SOURCE` with "EXP"
(`:113`) brings an experiment into use that never sent a position. With a time in the future
this does not end. It is a weakness of the code, which setting the three times in the
constructor would remove; the run reaches it, and the formula names it. A source that was
heard at least once is in use no longer than the timeout allows. It holds although
`rtk_single`, when it is usable, ends the search with the source "none".
`SilentSensorsStop` counts the compass among the sensors: the compass alone keeps the PID from
being tardy while there is no source of positions.

### Bounds

* `acked`: one vehicle and one name that is nobody's, two numbers, two attempts, two
  connections, one restart, one run of damaged messages. Two numbers give an
  element that is passed over, a broadcast doubled by the second connection, and
  a number that is used again. 967,000 distinct states.
* `acked_live`: three numbers and two variables, with two attempts and with one, so
  that elements are erased next to each other in one pass and at different ones;
  no restart and no damage, which `AckedDelivery` does not promise to survive.
* `modem`: a step of one second, eight being the longest timeout. Each mail alone, and a request with each
  change of rate or lockout, in both orders; one mini packet heard, one second
  connection. The rates are one of each kind: standard, mini, ranging.
* `network`: three vehicles, one at half a second's distance of two that are close
  to each other, two transmissions at any moments. Three vehicles are the least
  at which two transmissions meet at a third; two are the most that one queue
  can hold of others there.
* `pursuit`, the pursuit: two of the three vehicles are out, so that one never answers; two
  commands, cycles counted modulo 2. Nothing runs before the first order, a RUN to all or to one
  program at any moment; it is followed by one more RUN or STOP, or by one unit that somebody
  oversleeps. `pursuit_abort` has one order and nobody who oversleeps. The schedules have the
  order of slots of the missions PursuitFourSlot and PursuitInterleaved, with the
  proportions roughly kept. The theorems have none of these bounds.
* `pursuit`, the positions: vehicles 1 and 3, two orders, one waypoint, the slots of the
  mission TDOA_centralized in a cycle of 15 units. Two vehicles are enough for a position
  that reaches the shore through another. With one waypoint the run shows that it is not taken
  twice; that several are taken in their order is left to the theorem `WaypointsTakenOnce`.
  Together 1,454,000 distinct states.
* `kayak`: three inputs to the motor (a key, a stick and a command, or any voltages in a row), timeouts
  of one to three units, in no other order than those of the code; three switches of
  the radio, with reports that lag by one; four inputs to the autonomy. Each part is checked by
  itself in one run. 854,000 distinct states. `pid_heading` has two headings and three
  inputs.

### Fairness

* `AckedComms`: the loop runs (`Iterate` is called `AppTick` times a second) and
  the delay of a transmission runs out. Nothing is assumed of the network or the
  vehicles: every request is resolved even if nothing ever arrives.
* `MicroModem`: the modem takes what it is handed; `Iterate` runs, and time goes on.
  The two are strongly fair because MOOS calls `Iterate` after each `OnNewMail`:
  mail that keeps coming cannot keep the loop or the clock from their turn. No
  signal of the modem is assumed to arrive.
* `AcommsNetwork`: each process handles its mail and iterates, and time goes on,
  again strongly for the drivers' `Iterates` and for `Tick`.
* `KayakRadio`: both threads, the Arduino's parsing and reporting, and time go on. Weak
  fairness is enough, since nothing takes the turn from any of them. No line is assumed to
  arrive: what is lost is simply read away.
* `Pursuit`, `Tdoa`, `KayakMotor` and `Autonomy` have no fairness: what is said of them
  are safety properties, the timely ones by counting time (`SilenceStops`,
  `SilentHelmStops`), which also covers programs that stop altogether.

## What is proved

The theorems hold for all values of the constants under the assumptions that the modules
name. Most of these only give the constants their types (`Parameters`, `NetworkParameters`,
`DriverParameters`, `ModemParameters`, `KestrelParameters`, `MotorParameters`, `NavParameters`,
`PidParameters`, `AutonomyParameters`); in `MicroModem` a second is one or two steps, and the driver
is on hardware. The others say something of the configuration:

* `RadioParameters`: the two seconds after which a report is believed are less than the wait for
  a confirmation.
* `PursuitParameters`, `TdoaParameters`: the slots of a schedule follow one another and fill its period, as
  `appendSlot` makes them of positive lengths, and the shore and the vehicles have the same period.
* `SlotsApart`: transmitting slots begin two units apart, so that a sound has died away.
  `ReportsAwaited`: a vehicle begins to report in the slot in which the shore waits for
  it, two units before the report is overdue, and reports and commands are two units apart.
  The `tdma` blocks of the missions satisfy both: in PursuitFourSlot and
  PursuitInterleaved, `meta_icarus.moos` gives the shore the slot for a vehicle's report, and
  `meta_vehicle_fld_rtk.moos` begins the vehicle's slot with it.
* `PositionsAwaited`: a vehicle transmits in the slot in which the shore waits for it, at least
  two units before the shore's next one. The files of the mission TDOA_centralized of these two
  names satisfy it; both begin with slots of 5, 2 and 7 seconds.

The three on slots can be violated by a configuration alone: the code does not compare
the schedules of two programs.

* `AckedCommsProofs`: `TypeCorrect`, `SuccessIsSound`, `NumbersAccountedFor`,
  `FailureIsExhausted`, `VerdictsAreFinal`, `ImplementsSafely`. The inductive
  invariant `IInv` is the type invariant, `NumbersHandedOut` (numbers active, sent or
  printed in this run are below `m_currentID`), `AcksTrue` (unless a message was
  damaged, an ack in flight is for something published in this run or an earlier one), and the three
  invariants of the runs. `SuccessSound` needs `AcksTrue`, since an ack
  may be used long after it was sent; `EveryNumberAccountedFor` needs
  `NumbersHandedOut`, or a new number might have a line already.
  `VerdictIsFinal` follows from `EveryNumberAccountedFor`: a line can only be
  printed for a number that is active, and that has none. `ImplementsSafely`
  maps each action to a step of `AckedDelivery` or to a stutter; it is about the first run,
  with no damaged messages.
* `FoldProofs`: the handlers fold over batches of mail and over schedules. A fold is a recursive function
  on the sets of positions of a sequence; that it exists (`FoldExists`), stays in a set that no
  step leads out of (`FoldStays`), and goes on step by step (`FoldSteps`), for a
  sequence of any length, follows from the library's well-founded induction on numbers with a
  set in the place of the operator that the prover could not instantiate.
* `MicroModemProofs`: `TypeCorrect`, `LockoutIsHonoured`, `DataAlwaysFits`,
  `TimeoutIsLongEnough`. The first three are about a batch of any mails in any order:
  `AfterMailStays` (in `AcommsDriverProofs`) makes a property of every batch of one of every
  mail. `TimeoutOutlastsTransmission` needs `Punctual`: the driver's age and what the modem
  still has to send together do not exceed the packet, and the age of a transmission that the
  modem has not taken yet is zero.
* `AcommsNetworkProofs`: `TypeCorrect`, `QueuesStayInOrder`, `NothingReceivedTwice`,
  `NothingElseIsLost`. The invariant `QInv` adds to
  `QueuesInOrder` that the queues are sequences. The lemmas say that each
  operation on a modem, `StartTransmission`, `StartReception`, `ClearQueue`,
  `AfterWork`, `Closer`, keeps it; what makes the first two work is that they are
  refused unless the state is READY, and that every queue ends in READY, so three
  more events may follow. `ReceivedOnce` follows from `Once`: the numbers of transmissions
  ascend along the `Line` on which they come to a vehicle (asked for, queued in its modem,
  posted, heard, received), so that each is in one place, and a vehicle's own are on no line to it.
  `LostOnlyByOverlap`, the safety half of `HeardUnlessOverlapped`, is not in a run: a number leaves the
  line only when it is received, when the vehicle transmitted after it, or when a later one was on
  the line too. The steps that could drop one are a cancellation (`SimReadsMailDrops`), a
  post that replaces another (`OnSimMailDrops`) and doWork, which posts all that it takes off the
  queue (`DoWorkKeeps`); a first report finds an empty queue (`Strangers`).
* `TDMAProofs`, of the pursuit, for any vehicles, schedules and orders:
  * `NoModemsMeet`. The invariant `IInv` says that, as long as
    nobody oversleeps, every running engine has the slot of the clock or one that is
    just over (`Timely`), that a sound in the water began with its slot (`SoundInSlot`),
    and that there is one (`OneSound`). What makes the step work is that `Run` in the
    middle of a slot never transmits: only an engine that advances does.
  * `PursuitTypeCorrect` (`Typed`), and `WhatIsSentIsNew` by `Fresh`: a field of the buffered
    command that has a trajectory has one newer than the last one sent to that vehicle.
  * `LoopsCatchUp`: two rounds of `testAdvance` over the slots bring any engine to the slot of the clock,
    since each call lessens the distance (`Behind`) by one until it is `CaughtUp`.
  * `OneReportOfEach`. `Counted` is for all cycles: what is posted of a vehicle is as many reports as the flag
    `sent_reports` says. `Undisturbed` is for the calm ones: when the slot after a vehicle's is taken,
    the vehicle has been heard or its failure was posted; a report that waits in the mail
    (`HeardNow`) is that of the vehicle the shore waits for, so a late one cannot be taken for that
    of another.
  * `AcksAnswerTheLastCommand`. In `Acknowledging`, `Told` says from the clock and the engines
    whether a vehicle was commanded after its last report: if it was, an ack it holds is for the
    last command sent to it, and if not, it holds none. `CommandsUnderWay` and `AcksUnderWay` say the same of
    what is in the water and in the mail; `Known` leaves out a vehicle that has not reported yet
    since the calm began, which may hold an ack from before. `ReportsAwaited` is what makes the
    command and the report alternate.
* `TDMAProofs`, of the TDOA mission: `TdoaTypeCorrect` (`TdoaTyped`), and `WaypointsTakenOnce` by `WaypointsInTurn`: the numbers
  of the waypoints for a vehicle ascend from those obeyed over the mail and the water to
  the shore's buffer.
* `TDMAProofs`, of the reports to the tracker: `TrackerGetsReports`, by `Tracking`, for all cycles in
  which nobody is told to run. A program that runs has the slot of the clock, or its next one
  begins just now (`Prompt`). What is in the water began with the sender's slot and is heard a
  unit later, in the same cycle (`SentInSlot`), so that the positions that a vehicle collects,
  transmits and passes on are of this cycle, each vehicle's once (`PositionsOfNow`).
  `Serving` says from the slot of the shore which reports it has posted, and `PositionsAwaited` that
  a report comes before the shore would post the failure of its slot. With a RUN the theorem
  would be false: the vehicle then begins with the positions of an older cycle.
* `KayakProofs`, of the motor: `MotorTyped`, with a lemma for each part of the firmware;
  `ThrustWithinLimits`, from what `loop` does with the thrust, whose order of the two limits
  matters; `SilenceStopsMotor`, by `SilenceInv`, which follows a command from its
  age in iHoverKayak over the line to its age in the Arduino and the motor;
  `LimitChangesForReason`, by `DetectionInv`: a detection that goes on has a reason that has
  held at least as long.
* `KayakProofs`, of the radio: `RadioTypeCorrect`, with the number of reports bounded by the lag, and
  `UnconfirmedSwitchIsUndone`, by `Reverts`: until a switch was confirmed the main thread
  has it to write, waits for it or has reverted it. It has the hypothesis `MaxLag <= SwitchTime`:
  the Arduino reports once in each unit, so a serial thread that lags by more may take a report
  of before the switch for one of after it, and believe it: TLC finds that the property is then
  false. In the code a unit is a second (`slow_publish_period`), `SwitchTime` is two, and the
  thread reads each line as it comes.
* `AutonomyProofs`: `AutonomyTyped`; `StandsStill` (`ControlInv`: the flag of the all-stop
  is set only while the vehicle stands still); `SilenceOfTheHelm` (`HelmInv`: the age
  that the PID knows is no less than the silence); `SilenceOfTheSensors` (`SensorInv`: mail
  from pNavManager means that a sensor was heard in this unit of time); `SourceInUse` and
  `MirroredIsAnnounced` (`SourceInv`: the age of a source that was heard is the time since; the
  source in use and the experiment's availability rest on an age in time, which of a source
  never heard is what the memory held; and what is announced is in use).

Only model-checked: what has to happen in the end (`EveryRequestResolved` and the liveness of
`ImplementsAckedDelivery`, `BusyEnds`, `ReadyInTheEnd`, `QuietInTheEnd`, `HeardUnlessOverlapped`,
`RadioIsKnown`), which is beyond the prover. Every invariant of the runs is proved.
The folds of the community modules have definitions that the prover can expand;
`SelectSeq` has none, so the models that are proved about use sets or folds in its place.

## Plan

In this order:

1. `AcommsScheduler`: pAcommsScheduler in front of `AcommsDriver`, with the lockout.
   Abstract specification: one pending transmission, released outside of the lock.
   Properties: nothing is handed over in the lock; a transmission accepted is
   handed over or replaced.
2. `PacketLoss`: createReception, the losses and `getStatus` as operators, checked
   for every number of frames and every draw against what the types of loss say.
3. `ScheduledTransmit`, on the slot functions of `TDMA`; the firmware of silvana and
   nostromo on the operators of `Kestrel`.

New parts join the runs of the parts they belong to, as `MCPursuit` and `MCKayak` do.

## Not modelled

Beyond the components above: the values that are sent, destination addresses,
positions, statistics, warnings and logs, which no guard in the modelled handlers
reads; goby's driver and the modem's own protocol; `SimConnect`, whose missing
return statement makes the start of a simulated driver depend on the compiler;
numbers that wrap after 2^32 transmissions; the periodic repetition of an
unchanged status. Of the pursuit: positions and speeds, counts of receptions and their RESET,
dummy reports, acks over wifi. Of the kayak: lights, the motor controller's
protocol, temperature, `RUDDER_OFFSET` mail, and lines read byte by byte. Of the
autonomy: what the controllers compute, depth control, the PID types FACTOR and PID,
and what pNavManager posts for display.

`lib_timed-acomms`, `pTDOAComms` and the pTulip programs are commented out in
`code/personal/josh/src/CMakeLists.txt`. Behaviours, tracking and simulation of
sound and motion work on real numbers. Parsers of logs, reporters and consoles,
which are the longest files of the repository, keep no state that another program depends on.
The tree under `ivp-extend` repeats much of `code/` in older versions.

## Running

    tlc -workers 2 -config AckedComms.cfg MCAckedComms
    tlapm AckedCommsProofs.tla

The configuration, the module and the properties of each run are listed in
`PROJECT.json`. The longest run takes about a minute and
a half.
