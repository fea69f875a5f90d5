---------------------------- MODULE AcommsNetwork ----------------------------
(***************************************************************************)
(* pAcommsSimulator with an iAcommsDriver on every vehicle, connected by   *)
(* the shoreside's MOOSDB.  The simulator plays the modem of each vehicle: *)
(* a state and a queue of the changes that are to come, each with a signal *)
(* for the driver.  A driver has a second mail client for them, which runs *)
(* in a thread of its own and keeps the last of each kind until the next   *)
(* Iterate.                                                                *)
(*                                                                         *)
(* Time goes on in half seconds.  Every process iterates several times in  *)
(* half a second and mail arrives within it, so all that is due is done    *)
(* before time goes on, in any order.                                      *)
(*                                                                         *)
(* Transmissions are numbered for the properties; the code does not.  Of   *)
(* the losses only the loss of a whole transmission is modelled.           *)
(***************************************************************************)
EXTENDS AcommsDriver

CONSTANTS
  Vehicle,
  Batch,          \* the sequences of mail a driver's OnNewMail may be called with
  Flight,         \* Flight[v][w]: the time of flight from v to w
  MaxSent         \* bound: transmissions

ASSUME NetworkParameters ==
  /\ in_sim
  /\ Batch \subseteq Seq(Mail)
  /\ Flight \in [Vehicle -> [Vehicle -> Nat]]
  /\ MaxSent \in Nat

VARIABLES
  drivers,     \* the drivers
  raw,         \* m_simRaw of each driver, or "none"
  reception,   \* m_simReception of each driver, or 0
  simIn,       \* ACOMMS_SIM_IN mail for the simulator
  simOut,      \* ACOMMS_SIM_OUT mail for each driver
  m_vehicles,  \* the vehicles the simulator has reports from
  sims,        \* m_singleSims: the modem of each vehicle
  sent,        \* the vehicles that transmitted, in order
  received     \* the transmissions each driver has posted as received

driverVars == <<drivers, raw, reception, received>>
simVars == <<m_vehicles, sims>>
vars == <<driverVars, simIn, simOut, simVars, sent>>

-----------------------------------------------------------------------------
(* SingleDriverSim *)

SimState == {"READY", "TRANSMIT_POSTED", "TRANSMIT_STARTED", "RECEIVING_SOUND",
             "RECEIVING_PARSE"}

Number == 1 .. MaxSent
NoPost == [signal |-> "none", of |-> 0]
Post == {NoPost} \cup [signal : {"RXP", "TXF"}, of : {0}]
                 \cup [signal : {"DATA"}, of : Number]

\* due: the time until post_time.
Event == [due : Nat, new_state : SimState, to_post : Post]

Idle == [state |-> "READY", queue |-> <<>>]

PostToTransmitDelay == 0
ParseTime == 1

\* RATE_TRANSMIT_LENGTH_MAP has no entry, hence 0, for the higher rates.
TransmitLength(rate) ==
  CASE rate = "REMUS_LBL" -> Second
    [] rate \in {"MINI", "TWO_WAY_RANGING"} -> 2 * Second
    [] rate \in {"FSK0", "PSK1", "PSK2"} -> 5 * Second
    [] OTHER -> 0

At(due, new_state, signal, of) ==
  [due |-> due, new_state |-> new_state, to_post |-> [signal |-> signal, of |-> of]]

StartTransmission(sim, rate) ==
  IF sim.state # "READY" THEN sim ELSE
    [state |-> sim.state,
     queue |-> sim.queue \o
       <<At(0, "TRANSMIT_POSTED", "none", 0),
         At(PostToTransmitDelay, "TRANSMIT_STARTED", "none", 0),
         At(PostToTransmitDelay + TransmitLength(rate), "READY", "TXF", 0)>>]

\* A reception is refused unless the modem is READY, which it still is when
\* another reception or a transmission is queued.
StartReception(sim, start, rate, number) ==
  IF sim.state # "READY" THEN sim ELSE
    [state |-> sim.state,
     queue |-> sim.queue \o
       <<At(start, "RECEIVING_SOUND", "RXP", 0),
         At(start + TransmitLength(rate), "RECEIVING_PARSE", "none", 0),
         At(start + TransmitLength(rate) + ParseTime, "READY", "DATA", number)>>]

\* Fault: the events are dropped but the state is kept.
ClearQueueOnly(sim) == [state |-> sim.state, queue |-> <<>>]

ClearQueue(sim) == Idle

\* doWork takes the first n events off the queue: those before the first one
\* that is not due.
TakesOff(n, queue) ==
  /\ n \in 1 .. Len(queue)
  /\ \A i \in 1 .. n : queue[i].due = 0
  /\ n < Len(queue) => queue[n + 1].due > 0

AfterWork(n, sim) ==
  [state |-> sim.queue[n].new_state, queue |-> SubSeq(sim.queue, n + 1, Len(sim.queue))]

\* An event with nothing to post is passed over.
WithPost(posts, event) ==
  IF event.to_post = NoPost THEN posts ELSE Append(posts, event.to_post)

Posted(n, sim) == FoldLeft(WithPost, <<>>, SubSeq(sim.queue, 1, n))

HasWork(sim) == sim.queue # <<>> /\ Head(sim.queue).due = 0

Closer(sim) ==
  [state |-> sim.state,
   queue |-> [i \in 1 .. Len(sim.queue) |->
     At(IF sim.queue[i].due = 0 THEN 0 ELSE sim.queue[i].due - 1,
        sim.queue[i].new_state, sim.queue[i].to_post.signal, sim.queue[i].to_post.of)]]
-----------------------------------------------------------------------------
\* The drivers were started more than five seconds ago.
Init ==
  /\ drivers = [v \in Vehicle |-> [StartDriver(InitDriver) EXCEPT !.start = StartUp + 1]]
  /\ raw = [v \in Vehicle |-> "none"]
  /\ reception = [v \in Vehicle |-> 0]
  /\ simIn = <<>>
  /\ simOut = [v \in Vehicle |-> <<>>]
  /\ m_vehicles = {}
  /\ sims = [v \in Vehicle |-> Idle]
  /\ sent = <<>>
  /\ received = [v \in Vehicle |-> <<>>]
-----------------------------------------------------------------------------
(* The drivers *)

ReadsMail(v, batch) ==
  /\ drivers' = [drivers EXCEPT ![v] = OnNewMail(@, batch)]
  /\ IF Transmits(drivers[v], batch)
     THEN /\ Len(sent) < MaxSent
          /\ sent' = Append(sent, v)
          /\ simIn' = Append(simIn, [from |-> v, rate |-> drivers'[v].rate,
                                     number |-> Len(sent')])
     ELSE UNCHANGED <<sent, simIn>>
  /\ UNCHANGED <<raw, reception, simOut, simVars, received>>

\* The second mail client: of two posts of one kind the last one stays.
OnSimMail(v) ==
  /\ simOut[v] # <<>>
  /\ simOut' = [simOut EXCEPT ![v] = Tail(@)]
  /\ LET post == Head(simOut[v]) IN
       IF post.signal = "DATA"
       THEN reception' = [reception EXCEPT ![v] = post.of] /\ UNCHANGED raw
       ELSE raw' = [raw EXCEPT ![v] = post.signal] /\ UNCHANGED reception
  /\ UNCHANGED <<drivers, simIn, simVars, sent, received>>

\* A raw message is handled before a reception.
Signals(v) == (IF raw[v] = "none" THEN <<>> ELSE <<raw[v]>>)
              \o (IF reception[v] = 0 THEN <<>> ELSE <<"DATA">>)

\* Fault: a reception is dropped unless the driver knows that it is receiving.
IteratesIfReceiving(v) ==
  /\ drivers' = [drivers EXCEPT ![v] = Iterate(@, Signals(v))]
  /\ raw' = [raw EXCEPT ![v] = "none"]
  /\ reception' = [reception EXCEPT ![v] = 0]
  /\ received' = IF reception[v] = 0 \/ drivers[v].status # "RECEIVING" THEN received
                 ELSE [received EXCEPT ![v] = Append(@, reception[v])]
  /\ UNCHANGED <<simIn, simOut, simVars, sent>>

Iterates(v) ==
  /\ drivers' = [drivers EXCEPT ![v] = Iterate(@, Signals(v))]
  /\ raw' = [raw EXCEPT ![v] = "none"]
  /\ reception' = [reception EXCEPT ![v] = 0]
  /\ received' = IF reception[v] = 0 THEN received
                 ELSE [received EXCEPT ![v] = Append(@, reception[v])]
  /\ UNCHANGED <<simIn, simOut, simVars, sent>>
-----------------------------------------------------------------------------
(* The simulator *)

\* Each Iterate of a driver reports; the first report makes the vehicle known.
HandleReport(v) ==
  /\ v \notin m_vehicles
  /\ m_vehicles' = m_vehicles \cup {v}
  /\ sims' = [sims EXCEPT ![v] = Idle]
  /\ UNCHANGED <<driverVars, simIn, simOut, sent>>

\* Fault: the vehicle that transmits hears itself.
HearersAndSource(t, deaf) == m_vehicles \ deaf

\* `deaf' are the vehicles the loss of the whole transmission was drawn for.
Hearers(t, deaf) == m_vehicles \ (deaf \cup {t.from})

\* Only a modem that is not READY is cleared for its own transmission.
Cleared(sim) == IF sim.state # "READY" THEN ClearQueue(sim) ELSE sim

HandleNewTransmission(t, deaf) ==
  sims' = [v \in Vehicle |->
             LET heard == IF v \in Hearers(t, deaf)
                          THEN StartReception(sims[v], Flight[t.from][v], t.rate, t.number)
                          ELSE sims[v]
             IN  IF v = t.from THEN StartTransmission(Cleared(heard), t.rate) ELSE heard]

SimReadsMail ==
  /\ simIn # <<>>
  /\ simIn' = Tail(simIn)
  /\ IF Head(simIn).from \in m_vehicles
     THEN \E deaf \in SUBSET m_vehicles : HandleNewTransmission(Head(simIn), deaf)
     ELSE UNCHANGED sims
  /\ UNCHANGED <<driverVars, simOut, m_vehicles, sent>>

\* doWork for vehicle v.  The events of the others become due a moment earlier
\* or later.
DoWork(v) ==
  /\ HasWork(sims[v])
  /\ \E n \in 1 .. Len(sims[v].queue) :
       /\ TakesOff(n, sims[v].queue)
       /\ sims' = [sims EXCEPT ![v] = AfterWork(n, @)]
       /\ simOut' = [simOut EXCEPT ![v] = @ \o Posted(n, sims[v])]
  /\ UNCHANGED <<driverVars, simIn, m_vehicles, sent>>

\* Half a second passes when nothing is left to be done in this one: an Iterate
\* of a driver would change nothing any more.
Tick ==
  /\ simIn = <<>>
  /\ \A v \in Vehicle : /\ ~HasWork(sims[v])
                        /\ simOut[v] = <<>> /\ Signals(v) = <<>>
                        /\ Iterate(drivers[v], <<>>) = drivers[v]
  /\ drivers' = [v \in Vehicle |-> Older(drivers[v])]
  /\ sims' = [v \in Vehicle |-> Closer(sims[v])]
  /\ UNCHANGED <<raw, reception, simIn, simOut, m_vehicles, sent, received>>
-----------------------------------------------------------------------------
Next ==
  \/ \E v \in Vehicle, batch \in Batch : ReadsMail(v, batch)
  \/ \E v \in Vehicle : OnSimMail(v)
  \/ \E v \in Vehicle : Iterates(v)
  \/ \E v \in Vehicle : HandleReport(v)
  \/ SimReadsMail
  \/ \E v \in Vehicle : DoWork(v)
  \/ Tick

\* The mail clients' threads and the MOOS loop of each process go on, and mail that
\* keeps coming stops neither a driver nor time.
Fairness ==
  /\ \A v \in Vehicle : /\ WF_vars(OnSimMail(v))
                        /\ SF_vars(Iterates(v))
                        /\ WF_vars(HandleReport(v))
                        /\ WF_vars(DoWork(v))
  /\ WF_vars(SimReadsMail)
  /\ SF_vars(Tick)

Spec == Init /\ [][Next]_vars /\ Fairness
-----------------------------------------------------------------------------
(* Properties *)

\* The state has the shape the program gives it.
TypeOK ==
  /\ drivers \in [Vehicle -> Driver]
  /\ raw \in [Vehicle -> {"none", "RXP", "TXF"}]
  /\ reception \in [Vehicle -> {0} \cup Number]
  /\ simIn \in Seq([from : Vehicle, rate : Rate, number : Number])
  /\ simOut \in [Vehicle -> Seq(Post \ {NoPost})]
  /\ m_vehicles \subseteq Vehicle
  /\ sims \in [Vehicle -> [state : SimState, queue : Seq(Event)]]
  /\ sent \in Seq(Vehicle) /\ Len(sent) <= MaxSent
  /\ received \in [Vehicle -> Seq(Number)]

\* What may come after each state.
Follows(new, state) ==
  \/ state = "READY" /\ new \in {"TRANSMIT_POSTED", "RECEIVING_SOUND"}
  \/ state = "TRANSMIT_POSTED" /\ new = "TRANSMIT_STARTED"
  \/ state = "RECEIVING_SOUND" /\ new = "RECEIVING_PARSE"
  \/ state \in {"TRANSMIT_STARTED", "RECEIVING_PARSE"} /\ new = "READY"

InOrder(sim) ==
  /\ sim.queue = <<>> => sim.state = "READY"
  /\ sim.queue # <<>> => /\ Follows(sim.queue[1].new_state, sim.state)
                         /\ sim.queue[Len(sim.queue)].new_state = "READY"
  /\ \A i \in 1 .. (Len(sim.queue) - 1) :
       Follows(sim.queue[i + 1].new_state, sim.queue[i].new_state)

\* However receptions, transmissions and their cancellations interleave, a modem
\* goes through its states in their order and its queue ends in READY.
QueuesInOrder == \A v \in Vehicle : InOrder(sims[v])

\* No vehicle receives a transmission twice, or one of its own.
ReceivedOnce ==
  \A v \in Vehicle : \A i \in DOMAIN received[v] :
    /\ sent[received[v][i]] # v
    /\ \A j \in DOMAIN received[v] : received[v][i] = received[v][j] => i = j

Quiet == \A v \in Vehicle : /\ sims[v] = Idle
                            /\ drivers[v].status = "READY"
                            /\ simOut[v] = <<>>

\* Whatever overlapped, all the modems and drivers are ready for good once no
\* more is sent.
QuietInTheEnd == <>[]Quiet

Queued(v, n) == \E i \in DOMAIN sims[v].queue : sims[v].queue[i].to_post.of = n

\* Queued in v's modem, posted to its driver or not yet taken by it.
StillToHear(v, n) ==
  Queued(v, n) \/ reception[v] = n \/ \E i \in DOMAIN simOut[v] : simOut[v][i].of = n

\* A transmission that v's modem has begun to receive comes to its driver, unless v
\* transmits after it, or a later one too is queued before the driver has it.
HeardUnlessOverlapped ==
  \A v \in Vehicle, n \in Number :
    Queued(v, n) ~> \/ \E i \in DOMAIN received[v] : received[v][i] = n
                    \/ \E m \in n + 1 .. Len(sent) :
                         sent[m] = v \/ (StillToHear(v, n) /\ Queued(v, m))

\* "the simulator will retroactively cancel the reception for that driver and
\* instead execute the timing for a transmission on that driver"
TransmissionCancelsReception ==
  [][\A v \in Vehicle : drivers[v].status = "TRANSMITTING" => received'[v] = received[v]]_vars
=============================================================================
