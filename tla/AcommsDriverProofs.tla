------------------------- MODULE AcommsDriverProofs -------------------------
(***************************************************************************)
(* What reading a batch of mail, or what the modem has signalled, makes of  *)
(* the driver, for batches of every length.                                *)
(*                                                                         *)
(* Both are folds of FoldProofs: a set of drivers that no single mail leads *)
(* out of is not left by a batch (AfterMailStays).                         *)
(***************************************************************************)
EXTENDS AcommsDriver, FoldProofs
-----------------------------------------------------------------------------
(* Batches *)

\* A set of drivers that no mail leads out of is not left by a batch of mail.
LEMMA AfterMailStays ==
  ASSUME NEW D, NEW d \in D, NEW batch \in Seq(Mail),
         \A x \in D, m \in Mail : HandleMail(x, m) \in D
  PROVE  AfterMail(d, batch) \in D
<1> DEFINE IsFold(f) == f = [s \in SUBSET DOMAIN batch |->
             IF s = {} THEN d ELSE HandleMail(f[s \ {Max(s)}], batch[Max(s)])]
           read == CHOOSE f : IsFold(f)
           len == Len(batch)
<1>1. len \in Nat /\ DOMAIN batch = 1 .. len /\ \A i \in 1 .. len : batch[i] \in Mail
  OBVIOUS
<1>2. \A s \in SUBSET (1 .. len) : s # {} => batch[Max(s)] \in Mail
  BY <1>1, LastPosition
<1>3. \E f : IsFold(f)
  <2> DEFINE H == [x \in D |-> [m \in Mail |-> HandleMail(x, m)]]
  <2>1. H \in [D -> [Mail -> D]]
    OBVIOUS
  <2>2. PICK f : f \in [SUBSET (1 .. len) -> D] /\ Folds(f, len, H, d, batch)
    <3> HIDE DEF H
    <3> QED BY <2>1, FoldExists
  <2>3. ASSUME NEW s \in SUBSET (1 .. len)
        PROVE  f[s] = IF s = {} THEN d ELSE HandleMail(f[s \ {Max(s)}], batch[Max(s)])
    <3>1. CASE s = {}
      BY <3>1, <2>2 DEF Folds
    <3>2. CASE s # {}
      <4>1. f[s \ {Max(s)}] \in D /\ batch[Max(s)] \in Mail
        BY <1>2, <2>2, <3>2
      <4>2. f[s] = H[f[s \ {Max(s)}]][batch[Max(s)]]
        <5> HIDE DEF H
        <5> QED BY <2>2, <3>2 DEF Folds
      <4> QED BY <4>1, <4>2, <3>2
    <3> QED BY <3>1, <3>2
  <2>4. f = [s \in SUBSET DOMAIN batch |-> f[s]]
    BY <1>1, <2>2
  <2> QED BY <1>1, <2>3, <2>4
<1>4. IsFold(read)
  BY <1>3
<1>5. AfterMail(d, batch) = read[1 .. len]
  BY <1>1 DEF AfterMail, FoldLeft, MapThenFoldSet
<1> HIDE DEF read
<1>6. read[{}] \in D
  BY <1>4
<1>7. \A s \in SUBSET (1 .. len) : s # {} /\ read[s \ {Max(s)}] \in D => read[s] \in D
  BY <1>1, <1>2, <1>4
<1>8. read[1 .. len] \in D
  <2> HIDE DEF len
  <2> QED BY <1>1, <1>6, <1>7, FoldStays
<1> QED BY <1>5, <1>8

\* The same for the signals that Iterate handles.
LEMMA AfterSignalsStays ==
  ASSUME NEW D, NEW d \in D, NEW A, NEW signals \in Seq(A),
         \A x \in D, signal \in A : HandleSignal(x, signal) \in D
  PROVE  FoldLeft(HandleSignal, d, signals) \in D
<1> DEFINE IsFold(f) == f = [s \in SUBSET DOMAIN signals |->
             IF s = {} THEN d ELSE HandleSignal(f[s \ {Max(s)}], signals[Max(s)])]
           heard == CHOOSE f : IsFold(f)
           len == Len(signals)
<1>1. len \in Nat /\ DOMAIN signals = 1 .. len /\ \A i \in 1 .. len : signals[i] \in A
  OBVIOUS
<1>2. \A s \in SUBSET (1 .. len) : s # {} => signals[Max(s)] \in A
  BY <1>1, LastPosition
<1>3. \E f : IsFold(f)
  <2> DEFINE H == [x \in D |-> [m \in A |-> HandleSignal(x, m)]]
  <2>1. H \in [D -> [A -> D]]
    OBVIOUS
  <2>2. PICK f : f \in [SUBSET (1 .. len) -> D] /\ Folds(f, len, H, d, signals)
    <3> HIDE DEF H
    <3> QED BY <2>1, FoldExists
  <2>3. ASSUME NEW s \in SUBSET (1 .. len)
        PROVE  f[s] = IF s = {} THEN d ELSE HandleSignal(f[s \ {Max(s)}], signals[Max(s)])
    <3>1. CASE s = {}
      BY <3>1, <2>2 DEF Folds
    <3>2. CASE s # {}
      <4>1. f[s \ {Max(s)}] \in D /\ signals[Max(s)] \in A
        BY <1>2, <2>2, <3>2
      <4>2. f[s] = H[f[s \ {Max(s)}]][signals[Max(s)]]
        <5> HIDE DEF H
        <5> QED BY <2>2, <3>2 DEF Folds
      <4> QED BY <4>1, <4>2, <3>2
    <3> QED BY <3>1, <3>2
  <2>4. f = [s \in SUBSET DOMAIN signals |-> f[s]]
    BY <1>1, <2>2
  <2> QED BY <1>1, <2>3, <2>4
<1>4. IsFold(heard)
  BY <1>3
<1>5. FoldLeft(HandleSignal, d, signals) = heard[1 .. len]
  BY <1>1 DEF FoldLeft, MapThenFoldSet
<1> HIDE DEF heard
<1>6. heard[{}] \in D
  BY <1>4
<1>7. \A s \in SUBSET (1 .. len) : s # {} /\ heard[s \ {Max(s)}] \in D => heard[s] \in D
  BY <1>1, <1>2, <1>4
<1>8. heard[1 .. len] \in D
  <2> HIDE DEF len
  <2> QED BY <1>1, <1>6, <1>7, FoldStays
<1> QED BY <1>5, <1>8
-----------------------------------------------------------------------------
(* The driver *)

LEMMA SecondType == Second \in Nat /\ Second >= 1 /\ StartUp \in Nat /\ ReceiveTimeout \in Nat
BY DriverParameters DEF StartUp, ReceiveTimeout

LEMMA PublishType ==
  ASSUME NEW d \in Driver, NEW status \in Status
  PROVE  Publish(d, status) \in Driver
<1>1. 0 \in 0 .. (ReceiveTimeout + 1)
  BY SecondType
<1> QED BY <1>1 DEF Publish, Driver

LEMMA SetRateType ==
  ASSUME NEW d \in Driver, NEW r \in Rate
  PROVE  SetRate(d, r) \in Driver
<1>1. Filled(r, d.data) \in BOOLEAN
  BY DEF Filled, Driver
<1> QED BY <1>1 DEF SetRate, Driver

\* A mail keeps the driver one, and does not start or end a transmission.
LEMMA HandleMailType ==
  ASSUME NEW d \in Driver, NEW m \in Mail
  PROVE  /\ HandleMail(d, m) \in Driver
         /\ \/ HandleMail(d, m).status = d.status /\ HandleMail(d, m).age = d.age
            \/ d.status = "NOT_RUNNING" /\ HandleMail(d, m).status = "READY"
<1> USE DEF HandleMail
<1>1. CASE m.kind = "RATE" /\ m.rate \in Rate
  <2>1. HandleMail(d, m) = SetRate(d, m.rate)
    BY <1>1
  <2> QED BY <2>1, <1>1, SetRateType DEF SetRate, Driver
<1>2. CASE m.kind = "DATA"
  <2>1. HandleMail(d, m) = [d EXCEPT !.data = Filled(d.rate, m.data)]
    BY <1>2
  <2>2. Filled(d.rate, m.data) \in BOOLEAN
    BY <1>2 DEF Filled, Mail
  <2> QED BY <2>1, <2>2 DEF Driver
<1>3. CASE m.kind = "PREBUILT"
  <2>1. HandleMail(d, m) = [d EXCEPT !.data = m.data, !.rateSet = m.rateSet]
    BY <1>3
  <2>2. m.data \in BOOLEAN /\ m.rateSet \in BOOLEAN
    BY <1>3 DEF Mail
  <2> QED BY <2>1, <2>2 DEF Driver
<1>4. CASE m.kind = "LOCKOUT"
  <2>1. HandleMail(d, m) = [d EXCEPT !.lockout = m.on]
    BY <1>4
  <2>2. m.on \in BOOLEAN
    BY <1>4 DEF Mail
  <2> QED BY <2>1, <2>2 DEF Driver
<1>5. CASE m.kind = "LOGGER_DIRECTORY" /\ d.status = "NOT_RUNNING"
  <2>1. HandleMail(d, m) = StartDriver(d)
    BY <1>5
  <2>2. Publish(d, "READY") \in Driver /\ 0 \in 0 .. (StartUp + 1)
    BY PublishType, SecondType DEF Status
  <2> QED BY <2>1, <2>2, <1>5 DEF StartDriver, Publish, Driver
<1>6. CASE ~(\/ m.kind = "RATE" /\ m.rate \in Rate
             \/ m.kind \in {"DATA", "PREBUILT", "LOCKOUT"}
             \/ m.kind = "LOGGER_DIRECTORY" /\ d.status = "NOT_RUNNING")
  BY <1>6
<1> QED BY <1>1, <1>2, <1>3, <1>4, <1>5, <1>6

\* So does a batch.
LEMMA AfterMailType ==
  ASSUME NEW d \in Driver, NEW batch \in Seq(Mail)
  PROVE  /\ AfterMail(d, batch) \in Driver
         /\ \/ AfterMail(d, batch).status = d.status /\ AfterMail(d, batch).age = d.age
            \/ d.status = "NOT_RUNNING" /\ AfterMail(d, batch).status = "READY"
<1> DEFINE D == {x \in Driver : \/ x.status = d.status /\ x.age = d.age
                                \/ d.status = "NOT_RUNNING" /\ x.status = "READY"}
<1>1. d \in D
  OBVIOUS
<1>2. ASSUME NEW x \in D, NEW m \in Mail PROVE HandleMail(x, m) \in D
  <2>1. x \in Driver
    OBVIOUS
  <2> QED BY <2>1, HandleMailType
<1>3. AfterMail(d, batch) \in D
  <2> HIDE DEF D
  <2> QED BY <1>1, <1>2, AfterMailStays
<1> QED BY <1>3

LEMMA TransmittingType ==
  ASSUME NEW d \in Driver
  PROVE  Transmitting(d) \in Driver
<1>1. Publish(d, "TRANSMITTING") \in Driver
  BY PublishType DEF Status
<1>2. (IF d.rateSet THEN d.rate ELSE "FSK0") \in Rate
  BY DEF Driver, Rate, Standard
<1> QED BY <1>1, <1>2, SetRateType DEF Transmitting

LEMMA OnNewMailType ==
  ASSUME NEW d \in Driver, NEW batch \in Seq(Mail)
  PROVE  OnNewMail(d, batch) \in Driver
BY AfterMailType, TransmittingType DEF OnNewMail

LEMMA StartUpTimerType ==
  ASSUME NEW d \in Driver
  PROVE  StartUpTimer(d) \in Driver
<1>1. Publish(d, "READY") \in Driver
  BY PublishType DEF Status
<1> QED BY <1>1 DEF StartUpTimer, Driver

\* A signal keeps the driver one, and starts no transmission.
LEMMA HandleSignalType ==
  ASSUME NEW d \in Driver, NEW signal \in Signal
  PROVE  /\ HandleSignal(d, signal) \in Driver
         /\ HandleSignal(d, signal).status = "TRANSMITTING" => HandleSignal(d, signal) = d
<1>1. Publish(d, "RECEIVING") \in Driver /\ Publish(d, "RECEIVING").status = "RECEIVING"
  BY PublishType DEF Status, Publish, Driver
<1>2. Publish(d, "READY") \in Driver /\ Publish(d, "READY").status = "READY"
  BY PublishType DEF Status, Publish, Driver
<1>3. HandleSignal(d, signal) \in {Publish(d, "RECEIVING"), Publish(d, "READY"), d}
  BY DEF HandleSignal
<1> QED BY <1>1, <1>2, <1>3

LEMMA AfterSignalsType ==
  ASSUME NEW d \in Driver, NEW signals \in Seq(Signal)
  PROVE  /\ FoldLeft(HandleSignal, d, signals) \in Driver
         /\ FoldLeft(HandleSignal, d, signals).status = "TRANSMITTING" =>
              FoldLeft(HandleSignal, d, signals) = d
<1> DEFINE D == {x \in Driver : x.status = "TRANSMITTING" => x = d}
<1>1. d \in D
  OBVIOUS
<1>2. ASSUME NEW x \in D, NEW signal \in Signal PROVE HandleSignal(x, signal) \in D
  <2>1. x \in Driver
    OBVIOUS
  <2> QED BY <2>1, HandleSignalType
<1>3. FoldLeft(HandleSignal, d, signals) \in D
  <2> HIDE DEF D
  <2> QED BY <1>1, <1>2, AfterSignalsStays
<1> QED BY <1>3

\* Iterate keeps the driver one, and starts no transmission.
LEMMA IterateType ==
  ASSUME NEW d \in Driver, NEW signals \in Seq(Signal)
  PROVE  /\ Iterate(d, signals) \in Driver
         /\ Iterate(d, signals).status = "TRANSMITTING" => Iterate(d, signals) = d
<1> DEFINE started == StartUpTimer(d)
           heard == FoldLeft(HandleSignal, started, signals)
<1>1. started \in Driver /\ (started.status = "TRANSMITTING" => started = d)
  BY StartUpTimerType DEF StartUpTimer, Publish, Driver
<1>2. heard \in Driver /\ (heard.status = "TRANSMITTING" => heard = started)
  <2> HIDE DEF started
  <2> QED BY <1>1, AfterSignalsType
<1>3. Publish(heard, "READY") \in Driver /\ Publish(heard, "READY").status = "READY"
  <2> HIDE DEF heard
  <2> QED BY <1>2, PublishType DEF Status, Publish, Driver
<1>4. Timeouts(heard) \in {heard, Publish(heard, "READY")}
  BY DEF Timeouts
<1>5. Iterate(d, signals) \in {started, Timeouts(heard)}
  BY DEF Iterate
<1> HIDE DEF started, heard
<1>6. CASE Iterate(d, signals) = started
  BY <1>6, <1>1
<1>7. CASE Iterate(d, signals) = heard
  BY <1>7, <1>1, <1>2
<1>8. CASE Iterate(d, signals) = Publish(heard, "READY")
  BY <1>8, <1>3
<1> QED BY <1>4, <1>5, <1>6, <1>7, <1>8

\* With no signal a transmission ends at its timeout only.
LEMMA EndsAtTimeout ==
  ASSUME NEW d \in Driver, d.status = "TRANSMITTING", Iterate(d, <<>>).status # "TRANSMITTING"
  PROVE  d.age > TransmitTimeout(d)
<1>1. FoldLeft(HandleSignal, d, <<>>) \in {d}
  <2> DEFINE D == {d}
             A == {}
  <2>1. d \in D /\ <<>> \in Seq(A) /\ \A x \in D, signal \in A : HandleSignal(x, signal) \in D
    OBVIOUS
  <2>2. FoldLeft(HandleSignal, d, <<>>) \in D
    <3> HIDE DEF A, D
    <3> QED BY <2>1, AfterSignalsStays
  <2> QED BY <2>2
<1>2. StartUpTimer(d) = d
  BY DEF StartUpTimer
<1> QED BY <1>1, <1>2 DEF Iterate, Running, Timeouts, TimedOut

LEMMA OlderType ==
  ASSUME NEW d \in Driver
  PROVE  /\ Older(d) \in Driver
         /\ Older(d).status = d.status
         /\ Older(d).age \in d.age .. (d.age + 1)
<1>1. d.age \in 0 .. (ReceiveTimeout + 1) /\ d.start \in {Never} \cup 0 .. (StartUp + 1)
  BY DEF Driver
<1>2. (IF Busy(d) /\ d.age <= ReceiveTimeout THEN d.age + 1 ELSE d.age) \in 0 .. (ReceiveTimeout + 1)
  BY <1>1, SecondType
<1>3. (IF d.start \in {Never, StartUp + 1} THEN d.start ELSE d.start + 1)
        \in {Never} \cup 0 .. (StartUp + 1)
  BY <1>1, SecondType DEF Never
<1>4. Older(d) \in Driver /\ Older(d).status = d.status
  BY <1>2, <1>3 DEF Older, Driver
<1>5. Older(d).age = IF Busy(d) /\ d.age <= ReceiveTimeout THEN d.age + 1 ELSE d.age
  BY DEF Older, Driver
<1> QED BY <1>1, <1>4, <1>5
=============================================================================
