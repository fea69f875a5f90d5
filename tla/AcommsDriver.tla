---------------------------- MODULE AcommsDriver ----------------------------
(***************************************************************************)
(* The handlers of iAcommsDriver, the driver of the acoustic modem, as     *)
(* operators on the driver's state.  MicroModem runs one driver with the    *)
(* modem, AcommsNetwork one for each vehicle with pAcommsSimulator.         *)
(*                                                                         *)
(* Time goes on in steps of a fraction of a second.  Of a transmission's    *)
(* frames the model keeps whether they hold any data, of its protobuf's     *)
(* rate whether it is set.  Destination, acknowledgement flag, position, warnings, statistics *)
(* and logs are left out: no guard reads them.                             *)
(***************************************************************************)
EXTENDS Integers, SequencesExt

CONSTANTS
  in_sim,          \* whether the modem is simulated
  Second           \* the steps of time in a second

ASSUME DriverParameters == in_sim \in BOOLEAN /\ Second \in Nat \ {0}

Status == {"READY", "TRANSMITTING", "RECEIVING", "NOT_RUNNING", "STARTING"}

Ranging == {"REMUS_LBL", "TWO_WAY_RANGING"}
Special == Ranging \cup {"MINI"}
Standard == {"FSK0", "PSK1", "PSK2", "PSK3", "PSK4", "PSK5", "PSK6"}
Rate == Standard \cup Special

ReceiveTimeout == 8 * Second
StartUp == 5 * Second
Never == -1                  \* start_time = -1: the start-up timer is off

\* age: since transmit_set_time or receive_set_time, whichever the status needs.
Driver == [status : Status, lockout : BOOLEAN, rate : Rate, data : BOOLEAN,
           rateSet : BOOLEAN, age : 0 .. (ReceiveTimeout + 1),
           start : {Never} \cup 0 .. (StartUp + 1)]

InitDriver == [status |-> "NOT_RUNNING", lockout |-> FALSE, rate |-> "FSK0",
               data |-> TRUE, rateSet |-> TRUE, age |-> 0, start |-> Never]

\* publishStatus.  A status that is published anew has age 0.
Publish(d, status) == [d EXCEPT !.status = status, !.age = 0]

Busy(d) == d.status \in {"TRANSMITTING", "RECEIVING"}

\* A step of time later.  Counters stop once they are past every timeout.
Older(d) ==
  [d EXCEPT !.age = IF Busy(d) /\ @ <= ReceiveTimeout THEN @ + 1 ELSE @,
            !.start = IF @ \in {Never, StartUp + 1} THEN @ ELSE @ + 1]
-----------------------------------------------------------------------------
(* lib_HoverAcomms *)

\* Fault: a ranging ping keeps the frames it had.
FilledAlways(r, data) == r = "MINI" \/ data

\* Whether fillData leaves data in the frames at rate r.  A mini packet always
\* has its two bytes, a ranging ping has no frame.
Filled(r, data) == r = "MINI" \/ (r \notin Ranging /\ data)

\* The data is filled in again for the new rate; only a standard rate is
\* written to the protobuf's own field.
SetRate(d, r) == [d EXCEPT !.rate = r, !.data = Filled(r, @),
                           !.rateSet = @ \/ r \in Standard]
-----------------------------------------------------------------------------
(* OnNewMail *)

Mail == [kind : {"RATE"}, rate : Rate \cup {"unsupported"}]
   \cup [kind : {"DATA"}, data : BOOLEAN]
   \cup [kind : {"PREBUILT"}, data : BOOLEAN, rateSet : BOOLEAN]
   \cup [kind : {"LOCKOUT"}, on : BOOLEAN]
   \cup [kind : {"LOGGER_DIRECTORY"}]

\* STARTING is left before startDriver returns.
StartDriver(d) == [Publish(d, "READY") EXCEPT !.start = 0]

\* Fault: a rate that is not supported is stored before it is refused.
HandleMailUnchecked(d, m) == IF m.kind = "RATE" THEN [d EXCEPT !.rate = m.rate] ELSE d

\* A pre-built transmission replaces the protobuf and leaves m_rate alone.
HandleMail(d, m) ==
  CASE m.kind = "RATE" /\ m.rate \in Rate -> SetRate(d, m.rate)
    [] m.kind = "DATA" -> [d EXCEPT !.data = Filled(d.rate, m.data)]
    [] m.kind = "PREBUILT" -> [d EXCEPT !.data = m.data, !.rateSet = m.rateSet]
    [] m.kind = "LOCKOUT" -> [d EXCEPT !.lockout = m.on]
    [] m.kind = "LOGGER_DIRECTORY" /\ d.status = "NOT_RUNNING" -> StartDriver(d)
    [] OTHER -> d

AfterMail(d, batch) == FoldLeft(HandleMail, d, batch)

AsksForTransmission(batch) == \E i \in DOMAIN batch : batch[i].kind \in {"DATA", "PREBUILT"}

MayTransmit(d) ==
  /\ d.status = "READY"
  /\ ~d.lockout
  /\ d.data \/ d.rate \in Ranging

\* Fault: the lockout is looked at as it was before the batch.
TransmitsTooEarly(d, batch) ==
  /\ AsksForTransmission(batch)
  /\ MayTransmit([AfterMail(d, batch) EXCEPT !.lockout = d.lockout])

\* One transmission at most, after all the mail of the batch was read.
Transmits(d, batch) == AsksForTransmission(batch) /\ MayTransmit(AfterMail(d, batch))

\* What transmit_data makes of the driver.  The rate goes into the protobuf again:
\* the driver's, or FSK0 if the protobuf came without.
Transmitting(d) ==
  SetRate(Publish(d, "TRANSMITTING"), IF d.rateSet THEN d.rate ELSE "FSK0")

OnNewMail(d, batch) ==
  LET read == AfterMail(d, batch) IN
    IF Transmits(d, batch) THEN Transmitting(read) ELSE read

\* Fault: connecting again also turns the start-up timer off.
OnConnectToServerAnew(d) == [Publish(d, "NOT_RUNNING") EXCEPT !.start = Never]

\* A second connection finds the driver running and says it is not.
OnConnectToServer(d) == Publish(d, "NOT_RUNNING")
-----------------------------------------------------------------------------
(* Iterate *)

Running(d) == d.status \notin {"NOT_RUNNING", "STARTING"}

\* Ready five seconds after the start, if that has not been said before.
StartUpTimer(d) ==
  IF d.status = "NOT_RUNNING" /\ d.start > StartUp
  THEN [Publish(d, "READY") EXCEPT !.start = Never]
  ELSE d

Signal == {"TXF", "RXP", "DATA"}

HandleSignal(d, signal) ==
  CASE signal = "RXP" /\ (in_sim => d.status = "READY") ->
         Publish(d, "RECEIVING")
    [] signal \in {"TXF", "DATA"} -> Publish(d, "READY")
    [] OTHER -> d

\* Fault: the short timeout for every rate.
ShortTimeout(d) == 3 * Second

TransmitTimeout(d) == (IF d.rate = "MINI" THEN 3 ELSE 8) * Second

\* Fault: a reception that never ends is waited for.
TransmitTimedOut(d) == d.status = "TRANSMITTING" /\ d.age > TransmitTimeout(d)

\* Fault: an end of transmission that is never reported is waited for.
ReceiveTimedOut(d) == d.status = "RECEIVING" /\ d.age > ReceiveTimeout

TimedOut(d) == \/ d.status = "RECEIVING" /\ d.age > ReceiveTimeout
               \/ d.status = "TRANSMITTING" /\ d.age > TransmitTimeout(d)

Timeouts(d) == IF TimedOut(d) THEN Publish(d, "READY") ELSE d

\* `signals' is what the modem, or the simulator, has for the driver by now.
Iterate(d, signals) ==
  LET started == StartUpTimer(d) IN
    IF Running(started)
    THEN Timeouts(FoldLeft(HandleSignal, started, signals))
    ELSE started
=============================================================================
