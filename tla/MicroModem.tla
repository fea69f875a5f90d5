----------------------------- MODULE MicroModem -----------------------------
(***************************************************************************)
(* iAcommsDriver with the acoustic modem it drives over a serial line.     *)
(*                                                                         *)
(* The modem is not part of the repository: it is modelled by the signals  *)
(* the driver handles and the durations pAcommsSimulator gives it.  It may *)
(* hear something while the driver hands it a transmission, and any of its *)
(* signals may be lost.                                                    *)
(*                                                                         *)
(* Time goes on in steps.  The driver iterates five times a second, so at   *)
(* half a second or more to a step it iterates several times in each.      *)
(***************************************************************************)
EXTENDS AcommsDriver

CONSTANTS
  Batch,          \* the sequences of mail OnNewMail may be called with
  Heard,          \* the rates of the transmissions that reach the modem
  MaxHeard,       \* bound: how many of them
  MaxReconnects   \* bound: connections to the MOOSDB after the first

ASSUME ModemParameters ==
  /\ ~in_sim
  /\ Second \in 1 .. 2
  /\ Batch \subseteq Seq(Mail)
  /\ Heard \subseteq Rate
  /\ MaxHeard \in Nat
  /\ MaxReconnects \in Nat

VARIABLES
  driver,
  handed,       \* the transmission the driver handed over and the modem has not seen
  modem,        \* what the modem is doing, at which rate and for how long yet
  serial,       \* the modem's signals that the driver has not read
  heard,        \* how many transmissions have reached the modem
  reconnects

vars == <<driver, handed, modem, serial, heard, reconnects>>

Transmission == [rate : Rate, data : BOOLEAN]
None == [rate |-> "none", data |-> FALSE]

\* The modem needs one more step to parse what it heard.
Length(rate) == CASE rate = "MINI" -> 2 * Second
                  [] rate \in Ranging -> Second
                  [] OTHER -> 5 * Second
Parse == 1
Idle == [doing |-> "idle", rate |-> "none", left |-> 0]

Modem == [doing : {"sending", "hearing"}, rate : Rate, left : 1 .. (5 * Second + Parse)]

Init ==
  /\ driver = InitDriver
  /\ handed = None
  /\ modem = Idle
  /\ serial = <<>>
  /\ heard = 0
  /\ reconnects = 0
-----------------------------------------------------------------------------
(* The driver *)

ReadsMail(batch) ==
  /\ driver' = OnNewMail(driver, batch)
  /\ handed' = IF Transmits(driver, batch)
               THEN [rate |-> driver'.rate, data |-> driver'.data]
               ELSE handed
  /\ UNCHANGED <<modem, serial, heard, reconnects>>

\* An Iterate that does not run the driver leaves the serial line unread.
Iterates ==
  /\ driver' = Iterate(driver, serial)
  /\ serial' = IF Running(StartUpTimer(driver)) THEN <<>> ELSE serial
  /\ UNCHANGED <<handed, modem, heard, reconnects>>

Reconnects ==
  /\ reconnects < MaxReconnects
  /\ driver' = OnConnectToServer(driver)
  /\ reconnects' = reconnects + 1
  /\ UNCHANGED <<handed, modem, serial, heard>>
-----------------------------------------------------------------------------
(* The modem *)

\* The driver hears of it, or not.
Signals(signal) == serial' \in {serial, Append(serial, signal)}

\* A modem that hears something stops listening, or refuses to send.
Sends ==
  /\ handed # None
  /\ handed' = None
  /\ modem' \in {[doing |-> "sending", rate |-> handed.rate, left |-> Length(handed.rate)]}
                \cup IF modem.doing = "idle" THEN {} ELSE {modem}
  /\ UNCHANGED <<driver, serial, heard, reconnects>>

Hears(rate) ==
  /\ modem.doing = "idle"
  /\ heard < MaxHeard
  /\ heard' = heard + 1
  /\ modem' = [doing |-> "hearing", rate |-> rate, left |-> Length(rate) + Parse]
  /\ Signals("RXP")
  /\ UNCHANGED <<driver, handed, reconnects>>

\* A step of time passes when an Iterate would change nothing any more.
Tick ==
  /\ Iterate(driver, serial) = driver
  /\ Running(driver) => serial = <<>>
  /\ handed = None
  /\ driver' = Older(driver)
  /\ modem' = IF modem.left <= 1 THEN Idle ELSE [modem EXCEPT !.left = @ - 1]
  /\ IF modem.left = 1
     THEN Signals(IF modem.doing = "sending" THEN "TXF" ELSE "DATA")
     ELSE serial' = serial
  /\ UNCHANGED <<handed, heard, reconnects>>
-----------------------------------------------------------------------------
Next ==
  \/ \E batch \in Batch : ReadsMail(batch)
  \/ Iterates
  \/ Reconnects
  \/ Sends
  \/ \E rate \in Heard : Hears(rate)
  \/ Tick

\* The modem takes what it is handed.  MOOS calls Iterate after each OnNewMail,
\* so mail that keeps coming stops neither the driver nor time.
Fairness == WF_vars(Sends) /\ SF_vars(Iterates) /\ SF_vars(Tick)

Spec == Init /\ [][Next]_vars /\ Fairness
-----------------------------------------------------------------------------
(* Properties *)

\* The state has the shape the program gives it.
TypeOK ==
  /\ driver \in Driver
  /\ handed \in Transmission \cup {None}
  /\ modem \in Modem \cup {Idle}
  /\ serial \in Seq(Signal)
  /\ heard \in 0 .. MaxHeard
  /\ reconnects \in 0 .. MaxReconnects

\* What is handed to the modem was allowed by the whole batch of mail that asked
\* for it: a lockout that follows the data in the same batch still stops it.
LockoutHonoured == [][handed' \notin {handed, None} => ~driver'.lockout]_vars

\* Whatever was posted before, a ranging ping carries no data and any other
\* transmission does.  FSK0 is left out: it also stands in for the rate of a
\* pre-built transmission that has none, after the data was checked.
DataFitsRate ==
  [][handed' \notin {handed, None} /\ handed'.rate # "FSK0" =>
       (handed'.data <=> handed'.rate \notin Ranging)]_vars

\* If every signal is lost, the driver gives up after its timeout.
BusyEnds ==
  driver.status \in {"TRANSMITTING", "RECEIVING"} ~> driver.status \in {"READY", "NOT_RUNNING"}

\* A driver that was started becomes ready in the end, without another
\* LOGGER_DIRECTORY, although connecting again said it was not running.
ReadyInTheEnd == driver.start # Never ~> driver.status = "READY"

\* Only a change of the rate lets the driver call itself ready while its own
\* transmission is sounding and no reception was reported in between.
TimeoutOutlastsTransmission ==
  [][/\ driver.status = "TRANSMITTING"
     /\ driver'.status = "READY"
     /\ serial = <<>>
     => modem.doing # "sending" \/ driver.rate # modem.rate]_vars

\* "set transmit timeout based on packet type"
TimeoutBasedOnPacket ==
  [][/\ driver.status = "TRANSMITTING"
     /\ driver'.status = "READY"
     /\ serial = <<>>
     => modem.doing # "sending"]_vars
=============================================================================
