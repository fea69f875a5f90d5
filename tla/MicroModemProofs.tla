-------------------------- MODULE MicroModemProofs --------------------------
(***************************************************************************)
(* The driver and its modem, for every set of batches of mail, of           *)
(* transmissions that are heard and every number of reconnections.         *)
(***************************************************************************)
EXTENDS MicroModem, AcommsDriverProofs

-----------------------------------------------------------------------------
(* Types *)

LEMMA LengthType ==
  ASSUME NEW rate \in Rate
  PROVE  Length(rate) \in 1 .. 5 * Second /\ Length(rate) <= 5 * Second
<1>1. Length(rate) \in {2 * Second, Second, 5 * Second}
  BY DEF Length
<1> QED BY <1>1, SecondType

LEMMA BatchType ==
  ASSUME NEW batch \in Batch
  PROVE  batch \in Seq(Mail)
BY ModemParameters

LEMMA InitType == Init => TypeOK
<1>1. InitDriver \in Driver
  BY SecondType DEF InitDriver, Driver, Status, Rate, Standard, Never
<1> QED BY <1>1, ModemParameters DEF Init, TypeOK

LEMMA TypeStep == TypeOK /\ [Next]_vars => TypeOK'
<1> SUFFICES ASSUME TypeOK, [Next]_vars PROVE TypeOK'
  OBVIOUS
<1> USE DEF TypeOK
<1>1. ASSUME NEW batch \in Batch, ReadsMail(batch) PROVE TypeOK'
  <2>1. driver' \in Driver
    BY <1>1, BatchType, OnNewMailType DEF ReadsMail
  <2>2. handed' \in Transmission \cup {None}
    BY <2>1, <1>1 DEF ReadsMail, Transmission, Driver
  <2> QED BY <2>1, <2>2, <1>1 DEF ReadsMail
<1>2. CASE Iterates
  <2>1. driver' \in Driver
    BY <1>2, IterateType DEF Iterates
  <2>2. serial' \in Seq(Signal)
    BY <1>2 DEF Iterates
  <2> QED BY <2>1, <2>2, <1>2 DEF Iterates
<1>3. CASE Reconnects
  <2>1. driver' \in Driver
    BY <1>3, PublishType DEF Reconnects, OnConnectToServer, Status
  <2>2. reconnects' \in 0 .. MaxReconnects
    BY <1>3, ModemParameters DEF Reconnects
  <2> QED BY <2>1, <2>2, <1>3 DEF Reconnects
<1>4. CASE Sends
  <2>1. handed \in Transmission /\ handed.rate \in Rate
    BY <1>4 DEF Sends, Transmission
  <2>2. Length(handed.rate) \in 1 .. (5 * Second + Parse)
    BY <2>1, LengthType, SecondType DEF Parse
  <2>3. [doing |-> "sending", rate |-> handed.rate, left |-> Length(handed.rate)] \in Modem
    BY <2>1, <2>2 DEF Modem
  <2> QED BY <2>3, <1>4 DEF Sends
<1>5. ASSUME NEW rate \in Heard, Hears(rate) PROVE TypeOK'
  <2>1. rate \in Rate
    BY ModemParameters
  <2>2. Length(rate) + Parse \in 1 .. (5 * Second + Parse)
    BY <2>1, LengthType, SecondType DEF Parse
  <2>3. modem' \in Modem
    BY <2>1, <2>2, <1>5 DEF Hears, Modem
  <2>4. serial' \in Seq(Signal)
    BY <1>5 DEF Hears, Signals, Signal
  <2>5. heard' \in 0 .. MaxHeard
    BY <1>5, ModemParameters DEF Hears
  <2> QED BY <2>3, <2>4, <2>5, <1>5 DEF Hears
<1>6. CASE Tick
  <2>1. driver' \in Driver
    BY <1>6, OlderType DEF Tick
  <2>2. modem' \in Modem \cup {Idle}
    <3>1. CASE modem.left <= 1
      BY <3>1, <1>6 DEF Tick
    <3>2. CASE ~(modem.left <= 1)
      <4>1. modem \in Modem
        BY <3>2 DEF Idle
      <4>2. modem.left - 1 \in 1 .. (5 * Second + Parse)
        BY <4>1, <3>2, SecondType DEF Modem, Parse
      <4> QED BY <4>1, <4>2, <3>2, <1>6 DEF Tick, Modem
    <3> QED BY <3>1, <3>2
  <2>3. serial' \in Seq(Signal)
    BY <1>6 DEF Tick, Signals, Signal
  <2> QED BY <2>1, <2>2, <2>3, <1>6 DEF Tick
<1>7. CASE UNCHANGED vars
  BY <1>7 DEF vars
<1> QED BY <1>1, <1>2, <1>3, <1>4, <1>5, <1>6, <1>7 DEF Next

\* The driver, the modem and what lies between them keep their shape, whatever
\* is posted and heard.
THEOREM TypeCorrect == Spec => []TypeOK
BY InitType, TypeStep, PTL DEF Spec
-----------------------------------------------------------------------------
(* What is handed to the modem *)

\* Only mail hands a transmission over, and the driver transmits it.
LEMMA HandedByMail ==
  ASSUME TypeOK, [Next]_vars, handed' \notin {handed, None}
  PROVE  \E batch \in Batch :
           /\ Transmits(driver, batch)
           /\ driver' = Transmitting(AfterMail(driver, batch))
           /\ handed' = [rate |-> driver'.rate, data |-> driver'.data]
<1>1. PICK batch \in Batch : ReadsMail(batch)
  BY DEF Next, vars, Iterates, Reconnects, Sends, Hears, Tick
<1>2. Transmits(driver, batch) /\ handed' = [rate |-> driver'.rate, data |-> driver'.data]
  BY <1>1 DEF ReadsMail
<1> QED BY <1>1, <1>2 DEF ReadsMail, OnNewMail

\* Whatever comes in one batch, and in whatever order, the modem is handed nothing
\* under a lockout.
THEOREM LockoutIsHonoured == Spec => LockoutHonoured
<1>1. TypeOK /\ [Next]_vars => (handed' \notin {handed, None} => ~driver'.lockout)
  <2> SUFFICES ASSUME TypeOK, [Next]_vars, handed' \notin {handed, None}
               PROVE  ~driver'.lockout
    OBVIOUS
  <2>1. PICK batch \in Batch : /\ Transmits(driver, batch)
                               /\ driver' = Transmitting(AfterMail(driver, batch))
    BY HandedByMail
  <2> DEFINE read == AfterMail(driver, batch)
  <2>2. read \in Driver /\ ~read.lockout
    BY <2>1, BatchType, AfterMailType DEF Transmits, MayTransmit, TypeOK
  <2>3. Transmitting(read).lockout = read.lockout
    BY <2>2 DEF Transmitting, SetRate, Publish, Driver
  <2> QED BY <2>1, <2>2, <2>3
<1>2. UNCHANGED vars => ~(handed' \notin {handed, None})
  BY DEF vars
<1> QED BY <1>1, TypeCorrect, PTL DEF Spec, LockoutHonoured

\* Whatever changed the rate or the data before, in whatever batches, what is
\* handed over holds data exactly when its rate has room for it.
THEOREM DataAlwaysFits == Spec => DataFitsRate
<1>1. TypeOK /\ [Next]_vars =>
        (handed' \notin {handed, None} /\ handed'.rate # "FSK0" =>
           (handed'.data <=> handed'.rate \notin Ranging))
  <2> SUFFICES ASSUME TypeOK, [Next]_vars, handed' \notin {handed, None}, handed'.rate # "FSK0"
               PROVE  handed'.data <=> handed'.rate \notin Ranging
    OBVIOUS
  <2>1. PICK batch \in Batch : /\ Transmits(driver, batch)
                               /\ driver' = Transmitting(AfterMail(driver, batch))
                               /\ handed' = [rate |-> driver'.rate, data |-> driver'.data]
    BY HandedByMail
  <2> DEFINE read == AfterMail(driver, batch)
  <2>2. read \in Driver /\ (read.data \/ read.rate \in Ranging)
    BY <2>1, BatchType, AfterMailType DEF Transmits, MayTransmit, TypeOK
  <2> DEFINE r == IF read.rateSet THEN read.rate ELSE "FSK0"
  <2>3. Transmitting(read).rate = r /\ Transmitting(read).data = Filled(r, read.data)
    <3> HIDE DEF read
    <3> QED BY <2>2 DEF Transmitting, SetRate, Publish, Driver
  <2>4. handed'.rate = r /\ handed'.data = Filled(r, read.data)
    BY <2>1, <2>3
  <2>5. r = read.rate
    BY <2>4
  <2>6. "MINI" \notin Ranging
    BY DEF Ranging
  <2> HIDE DEF read, r
  <2> QED BY <2>2, <2>4, <2>5, <2>6 DEF Filled
<1>2. UNCHANGED vars => ~(handed' \notin {handed, None})
  BY DEF vars
<1> QED BY <1>1, <1>2, TypeCorrect, PTL DEF Spec, DataFitsRate
-----------------------------------------------------------------------------
(* The transmit timeout *)

\* A transmission that waits for the modem has just been handed over, and one that
\* sounds has no more left than the time the driver has not counted yet.
Punctual ==
  /\ handed # None /\ driver.status = "TRANSMITTING" => driver.age = 0
  /\ modem.doing = "sending" =>
       /\ modem.left <= Length(modem.rate)
       /\ driver.status = "TRANSMITTING" => driver.age + modem.left <= Length(modem.rate)

LEMMA InitPunctual == Init => Punctual
BY DEF Init, Punctual, Idle

LEMMA PunctualStep == TypeOK /\ Punctual /\ [Next]_vars => Punctual'
<1> SUFFICES ASSUME TypeOK, Punctual, [Next]_vars PROVE Punctual'
  OBVIOUS
<1>1. driver \in Driver /\ driver.age \in Nat
  BY DEF TypeOK, Driver
<1>2. modem.doing = "sending" => modem.left \in Nat /\ modem.rate \in Rate
  BY DEF TypeOK, Modem, Idle
<1>3. ASSUME NEW batch \in Batch, ReadsMail(batch) PROVE Punctual'
  <2> DEFINE read == AfterMail(driver, batch)
  <2>1. /\ read \in Driver
        /\ read.status = "TRANSMITTING" => driver.status = "TRANSMITTING" /\ read.age = driver.age
    BY <1>1, BatchType, AfterMailType
  <2>2. CASE Transmits(driver, batch)
    <3>1. driver' = Transmitting(read)
      BY <2>2, <1>3 DEF ReadsMail, OnNewMail
    <3>2. Transmitting(read).age = 0
      <4> HIDE DEF read
      <4> QED BY <2>1 DEF Transmitting, SetRate, Publish, Driver
    <3>3. modem.doing = "sending" => 0 + modem.left <= Length(modem.rate)
      BY <1>2 DEF Punctual
    <3> QED BY <3>1, <3>2, <3>3, <1>3 DEF ReadsMail, Punctual
  <2>3. CASE ~Transmits(driver, batch)
    <3>1. driver' = read /\ handed' = handed
      BY <2>3, <1>3 DEF ReadsMail, OnNewMail
    <3> HIDE DEF read
    <3> QED BY <2>1, <3>1, <1>3 DEF ReadsMail, Punctual
  <2> QED BY <2>2, <2>3
<1>4. CASE Iterates
  <2>1. driver'.status = "TRANSMITTING" => driver' = driver
    BY <1>1, <1>4, IterateType DEF Iterates, TypeOK
  <2> QED BY <2>1, <1>4 DEF Iterates, Punctual
<1>5. CASE Reconnects
  <2>1. driver'.status = "NOT_RUNNING"
    BY <1>1, <1>5 DEF Reconnects, OnConnectToServer, Publish, Driver
  <2> QED BY <2>1, <1>5 DEF Reconnects, Punctual
<1>6. CASE Sends
  <2>1. CASE modem' = modem
    BY <2>1, <1>6 DEF Sends, Punctual
  <2>2. CASE modem' = [doing |-> "sending", rate |-> handed.rate, left |-> Length(handed.rate)]
    <3>1. handed.rate \in Rate
      BY <1>6 DEF Sends, TypeOK, Transmission
    <3>2. Length(handed.rate) \in Nat /\ modem'.left = Length(modem'.rate)
      BY <2>2, <3>1, LengthType
    <3>3. driver.status = "TRANSMITTING" => driver.age = 0
      BY <1>6 DEF Sends, Punctual
    <3> QED BY <2>2, <3>2, <3>3, <1>6 DEF Sends, Punctual
  <2> QED BY <2>1, <2>2, <1>6 DEF Sends
<1>7. ASSUME NEW rate \in Heard, Hears(rate) PROVE Punctual'
  BY <1>7 DEF Hears, Punctual
<1>8. CASE Tick
  <2>1. /\ handed' = None
        /\ driver'.status = driver.status
        /\ driver'.age \in driver.age .. (driver.age + 1)
    BY <1>1, <1>8, OlderType DEF Tick
  <2>2. CASE modem.left <= 1
    BY <2>1, <2>2, <1>8 DEF Tick, Punctual, Idle
  <2>3. CASE ~(modem.left <= 1)
    <3>1. modem' = [modem EXCEPT !.left = modem.left - 1]
      BY <2>3, <1>8 DEF Tick
    <3>2. modem'.doing = modem.doing /\ modem'.rate = modem.rate /\ modem'.left = modem.left - 1
      BY <3>1 DEF TypeOK, Modem, Idle
    <3>3. CASE modem.doing = "sending"
      <4>1. Length(modem.rate) \in Nat
        BY <1>2, <3>3, LengthType
      <4>2. driver'.age \in Nat /\ driver'.age <= driver.age + 1
        BY <1>1, <2>1
      <4> QED BY <1>1, <1>2, <2>1, <3>2, <3>3, <4>1, <4>2 DEF Punctual
    <3>4. CASE modem.doing # "sending"
      BY <3>4, <3>2, <2>1 DEF Punctual
    <3> QED BY <3>3, <3>4
  <2> QED BY <2>2, <2>3
<1>9. CASE UNCHANGED vars
  BY <1>9 DEF vars, Punctual
<1> QED BY <1>3, <1>4, <1>5, <1>6, <1>7, <1>8, <1>9 DEF Next

\* Every rate's timeout is longer than its transmission: the driver calls itself
\* ready over its own transmission only if the rate was changed meanwhile.
THEOREM TimeoutIsLongEnough == Spec => TimeoutOutlastsTransmission
<1> DEFINE Early == /\ driver.status = "TRANSMITTING"
                    /\ driver'.status = "READY"
                    /\ serial = <<>>
           Excused == modem.doing # "sending" \/ driver.rate # modem.rate
<1>1. TypeOK /\ Punctual /\ [Next]_vars => (Early => Excused)
  <2> SUFFICES ASSUME TypeOK, Punctual, [Next]_vars, Early PROVE Excused
    OBVIOUS
  <2>1. driver \in Driver /\ driver.age \in Nat
    BY DEF TypeOK, Driver
  <2>2. ASSUME NEW batch \in Batch, ReadsMail(batch) PROVE FALSE
    <3>1. AfterMail(driver, batch).status = "TRANSMITTING"
      BY <2>1, BatchType, AfterMailType
    <3> QED BY <3>1, <2>2 DEF ReadsMail, OnNewMail, Transmits, MayTransmit
  <2>3. CASE Iterates
    <3>1. driver.age > TransmitTimeout(driver)
      BY <2>1, <2>3, EndsAtTimeout DEF Iterates
    <3>2. SUFFICES ASSUME modem.doing = "sending", driver.rate = modem.rate PROVE FALSE
      OBVIOUS
    <3>3. modem.left \in Nat /\ modem.rate \in Rate
      BY <3>2 DEF TypeOK, Modem, Idle
    <3>4. driver.age + modem.left <= Length(modem.rate)
      BY <3>2 DEF Punctual
    <3>5. Length(modem.rate) < TransmitTimeout(driver)
      BY <3>2, SecondType DEF Length, TransmitTimeout, Ranging
    <3>6. Length(modem.rate) \in Nat /\ TransmitTimeout(driver) \in Nat
      BY <3>3, LengthType, SecondType DEF TransmitTimeout
    <3> QED BY <2>1, <3>1, <3>3, <3>4, <3>5, <3>6
  <2>4. CASE Reconnects
    BY <2>1, <2>4 DEF Reconnects, OnConnectToServer, Publish, Driver
  <2>5. CASE Sends \/ (\E rate \in Heard : Hears(rate)) \/ UNCHANGED vars
    BY <2>5 DEF Sends, Hears, vars
  <2>6. CASE Tick
    BY <2>1, <2>6, OlderType DEF Tick
  <2> QED BY <2>2, <2>3, <2>4, <2>5, <2>6 DEF Next
<1>2. Spec => []Punctual
  BY InitPunctual, PunctualStep, TypeCorrect, PTL DEF Spec
<1> QED BY <1>1, <1>2, TypeCorrect, PTL DEF Spec, TimeoutOutlastsTransmission
=============================================================================
