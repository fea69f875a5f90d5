----------------------------- MODULE AckedComms -----------------------------
(***************************************************************************)
(* The acknowledged bridge: pAckedCommsShoreside turns every post of a     *)
(* bridged variable VAR_DEST into numbered transmissions, sends each again *)
(* until its number comes back or its attempts are used up, and prints     *)
(* SUCCESS or FAILURE; pAckedCommsVehicle publishes what it receives and   *)
(* returns the number.  pShare carries both over UDP: the network is the    *)
(* set of all that was sent, and a message of it may be received late,     *)
(* several times, in any order, or never.                                  *)
(*                                                                         *)
(* A transmission is known by its number, m_transmissions being a function *)
(* from the numbers still active: numbers are handed out in increasing     *)
(* order and erasing keeps the order, so the order of the vector is the    *)
(* order of the numbers.  The payload is left out.                         *)
(***************************************************************************)
EXTENDS Naturals, Sequences

CONSTANTS
  Vehicle,       \* the vehicles that run pAckedCommsVehicle and are bridged to
  Dest,          \* what may follow the last '_' of a key: a vehicle, or a typo
  Var,           \* the bridged variables of the configuration block
  VehicleList,   \* the configuration's list "vehicles"
  Repeat,        \* Repeat[x]: the attempts allowed for variable x
  MaxID,         \* bound: transmissions numbered in one run of the shoreside
  MaxConnects,   \* bound: connections to the MOOSDB in one run
  MaxRestarts,   \* bound: restarts of the shoreside process
  MayGarble      \* whether a message may reach a vehicle unparsable

ASSUME Parameters ==
  /\ Vehicle \subseteq Dest
  /\ VehicleList \in Seq(Vehicle)
  /\ Repeat \in [Var -> Nat]
  /\ MaxID \in Nat
  /\ MaxConnects \in Nat
  /\ MaxRestarts \in Nat
  /\ MayGarble \in BOOLEAN

VARIABLES
  m_vars,          \* the variables registered for
  m_vehicles,      \* the list a broadcast goes to
  m_currentID,     \* the next number
  m_transmissions, \* the active transmissions, by number
  transmits,       \* ACKEDCOMMS_TRANSMIT messages sent
  acks,            \* ACKEDCOMMS_RETURN_ACK numbers sent
  published,       \* <<run, id>> of what the vehicles have published
  printed,         \* the verdicts printed on the console, by <<run, id>>
  run,             \* how often the shoreside process was restarted
  garbled          \* whether a message was garbled so far

shoreVars == <<m_vars, m_vehicles, m_currentID, m_transmissions>>
netVars == <<transmits, acks>>
vars == <<m_vars, m_vehicles, m_currentID, m_transmissions, transmits, acks,
          published, printed, run, garbled>>

-----------------------------------------------------------------------------
ID == 0 .. (MaxID - 1)
Run == 0 .. MaxRestarts

\* `waited' stands for MOOSTime() - transmit_time > delay.
Transmission == [destination : Dest, var : Var, num_transmits : Nat, waited : BOOLEAN]

Verdict == [verdict : {"SUCCESS", "FAILURE"}, var : Var, num_transmits : Nat]

\* A message remembers the run it was sent in, which the program does not see.
Message == [run : Run, id : ID, dest : Vehicle, parses : BOOLEAN]

Active == DOMAIN m_transmissions

Init ==
  /\ m_vars = {}
  /\ m_vehicles = <<>>
  /\ m_currentID = 0
  /\ m_transmissions = [i \in {} |-> i]
  /\ transmits = {}
  /\ acks = {}
  /\ published = {}
  /\ printed = [k \in {} |-> k]
  /\ run = 0
  /\ garbled = FALSE
-----------------------------------------------------------------------------
(* The shoreside *)

\* m_started is never set, so every connection appends the vehicles again,
\* while a variable that is already known is not registered twice.
OnConnectToServer ==
  /\ Len(m_vehicles) < MaxConnects * Len(VehicleList)
  /\ m_vehicles' = m_vehicles \o VehicleList
  /\ m_vars' = Var
  /\ UNCHANGED <<m_currentID, m_transmissions, netVars, published, printed, run, garbled>>

\* transmit_time starts at -1: a new transmission has nothing to wait for.
NewTransmission(dest, x) ==
  [destination |-> dest, var |-> x, num_transmits |-> 0, waited |-> TRUE]

\* Fault: a broadcast advances the number once.
NextIDOnce(dests) == m_currentID + 1

NextID(dests) == m_currentID + Len(dests)

AddTransmissions(dests, x) ==
  LET new == m_currentID .. (m_currentID + Len(dests) - 1) IN
    /\ x \in m_vars
    /\ m_currentID + Len(dests) <= MaxID
    /\ m_currentID' = NextID(dests)
    /\ m_transmissions' =
         [i \in Active \cup new |->
            IF i \in new THEN NewTransmission(dests[i - m_currentID + 1], x)
                         ELSE m_transmissions[i]]
    /\ UNCHANGED <<m_vars, m_vehicles, netVars, published, printed, run, garbled>>

\* VAR_DEST was posted.
Post(dest, x) == AddTransmissions(<<dest>>, x)

\* VAR_ALL was posted.
Broadcast(x) == AddTransmissions(m_vehicles, x)

PrintVerdicts(ids, verdict) ==
  LET lines == {<<run, i>> : i \in ids} IN
    printed' = [k \in DOMAIN printed \cup lines |->
                  IF k \in lines
                  THEN [verdict |-> verdict,
                        var |-> m_transmissions[k[2]].var,
                        num_transmits |-> m_transmissions[k[2]].num_transmits]
                  ELSE printed[k]]

\* Fault: the vector is erased up to the element instead of at it.
EraseUpTo(ids) ==
  m_transmissions' = [i \in {j \in Active : \A k \in ids : k < j} |-> m_transmissions[i]]

\* Fault: the element stays where it is.
EraseNothing(ids) == UNCHANGED m_transmissions

Erase(ids) == m_transmissions' = [i \in Active \ ids |-> m_transmissions[i]]

\* Fault: any ack resolves the oldest active transmission.
OnReturnAckUnmatched(i) ==
  /\ m_vars # {}
  /\ i \in acks
  /\ LET matched == {j \in Active : \A k \in Active : j <= k}
     IN  PrintVerdicts(matched, "SUCCESS") /\ Erase(matched)
  /\ UNCHANGED <<m_vars, m_vehicles, m_currentID, netVars, published, run, garbled>>

\* The number of a returned ack is looked up among the active transmissions.
OnReturnAck(i) ==
  /\ m_vars # {}
  /\ i \in acks
  /\ LET matched == {i} \cap Active
     IN  PrintVerdicts(matched, "SUCCESS") /\ Erase(matched)
  /\ UNCHANGED <<m_vars, m_vehicles, m_currentID, netVars, published, run, garbled>>

MaySend(t) == t.waited /\ t.num_transmits < Repeat[t.var]

\* Fault: the last attempt is given no time to be acknowledged, or is not made.
GivesUpEarly(t) == t.waited /\ t.num_transmits + 1 >= Repeat[t.var]

\* Fault: `>' for `>=': the loop waits for an attempt it never makes.
NeverGivesUp(t) == t.waited /\ t.num_transmits > Repeat[t.var]

GivesUp(t) == t.waited /\ t.num_transmits >= Repeat[t.var]

\* i stands right behind j in the vector.
Follows(j, i) == j < i /\ \A k \in Active : ~(j < k /\ k < i)

\* The loop erases element i and then increments i, so the element behind one
\* that was erased, which moved to index i, is passed over.
Visited(erased) == {i \in Active : \A j \in erased : ~Follows(j, i)}

Sent(erased) == {i \in Visited(erased) : MaySend(m_transmissions[i])}

\* An attempt sets transmit_time to now: the delay is ahead of it again.
Attempted(t) == [destination |-> t.destination, var |-> t.var,
                 num_transmits |-> t.num_transmits + 1, waited |-> FALSE]

\* One pass of the loop, which erases `erased' and sends the others that may be
\* sent.  What it sends has its delay ahead of it, and is not erased as well.
Pass(erased) ==
  /\ erased = {i \in Visited(erased) : GivesUp(m_transmissions[i])}
  /\ m_transmissions' = [i \in Active \ erased |->
                           IF i \in Sent(erased) THEN Attempted(m_transmissions[i])
                                                ELSE m_transmissions[i]]
  /\ transmits' = transmits \cup
       {[run |-> run, id |-> i, dest |-> m_transmissions[i].destination, parses |-> TRUE]
          : i \in {j \in Sent(erased) : m_transmissions[j].destination \in Vehicle}}
  /\ PrintVerdicts(erased, "FAILURE")
  /\ UNCHANGED <<m_vars, m_vehicles, m_currentID, acks, published, run, garbled>>

Iterate == \E erased \in SUBSET Active : Pass(erased)

\* The delay of transmission i runs out.
DelayPasses(i) ==
  /\ i \in Active
  /\ ~m_transmissions[i].waited
  /\ m_transmissions' = [m_transmissions EXCEPT ![i].waited = TRUE]
  /\ UNCHANGED <<m_vars, m_vehicles, m_currentID, netVars, published, printed, run, garbled>>

\* The process dies and is started again: it begins with the constructor's
\* state, and numbers its transmissions from 0 once more.
Restart ==
  /\ run < MaxRestarts
  /\ m_vars # {}
  /\ run' = run + 1
  /\ m_vars' = {}
  /\ m_vehicles' = <<>>
  /\ m_currentID' = 0
  /\ m_transmissions' = [i \in {} |-> i]
  /\ UNCHANGED <<netVars, published, printed, garbled>>
-----------------------------------------------------------------------------
(* A vehicle *)

\* What the vehicle publishes and the number it returns.  The ack is returned
\* even if the message does not parse; the number is then the one that was
\* read before parsing failed, or protobuf's default.
OnTransmit(m) ==
  /\ m \in transmits
  /\ published' = IF m.parses THEN published \cup {<<m.run, m.id>>} ELSE published
  /\ \E i \in (IF m.parses THEN {m.id} ELSE {0, m.id}) : acks' = acks \cup {i}
  /\ UNCHANGED <<shoreVars, transmits, printed, run, garbled>>
-----------------------------------------------------------------------------
(* The network *)

\* A copy of m is damaged on its way.
Garble(m) ==
  /\ MayGarble
  /\ m \in transmits
  /\ transmits' = transmits \cup {[m EXCEPT !.parses = FALSE]}
  /\ garbled' = TRUE
  /\ UNCHANGED <<shoreVars, acks, published, printed, run>>
-----------------------------------------------------------------------------
Next ==
  \/ OnConnectToServer
  \/ \E dest \in Dest, x \in Var : Post(dest, x)
  \/ \E x \in Var : Broadcast(x)
  \/ \E i \in ID : OnReturnAck(i)
  \/ Iterate
  \/ \E i \in ID : DelayPasses(i)
  \/ Restart
  \/ \E m \in transmits : OnTransmit(m)
  \/ \E m \in transmits : Garble(m)

\* MOOS runs Iterate AppTick times a second, and time goes on.
Fairness ==
  /\ WF_vars(Iterate)
  /\ \A i \in ID : WF_vars(DelayPasses(i))

Spec == Init /\ [][Next]_vars /\ Fairness
-----------------------------------------------------------------------------
(* Properties *)

\* Every part of the state has the shape the program gives it, active numbers
\* are below m_currentID and no transmission is attempted more often than its
\* variable's `repeat' allows.
TypeOK ==
  /\ m_vars \in SUBSET Var
  /\ m_vehicles \in Seq(Vehicle)
  /\ m_currentID \in 0 .. MaxID
  /\ Active \subseteq 0 .. (m_currentID - 1)
  /\ \A i \in Active : /\ m_transmissions[i] \in Transmission
                       /\ m_transmissions[i].num_transmits <= Repeat[m_transmissions[i].var]
  /\ m_transmissions = [i \in Active |-> m_transmissions[i]]
  /\ transmits \subseteq Message
  /\ acks \subseteq ID
  /\ published \subseteq Run \X ID
  /\ DOMAIN printed \subseteq Run \X ID
  /\ \A k \in DOMAIN printed : printed[k] \in Verdict
  /\ printed = [k \in DOMAIN printed |-> printed[k]]
  /\ run \in Run
  /\ garbled \in BOOLEAN

\* A SUCCESS line is true: a transmission of that number has been published by
\* a vehicle, in this run of the shoreside or in an earlier one whose numbers
\* are used again.  In the first run, it is the very transmission.  Only an
\* unparsable message, which is acknowledged all the same, may break this.
SuccessSound ==
  ~garbled =>
    \A k \in DOMAIN printed :
      printed[k].verdict = "SUCCESS" => \E r \in 0 .. k[1] : <<r, k[2]>> \in published

\* No request is forgotten or resolved twice: every number handed out in this
\* run is either still active or has its line on the console, never both.
EveryNumberAccountedFor ==
  \A i \in 0 .. (m_currentID - 1) : (i \in Active) # (<<run, i>> \in DOMAIN printed)

\* FAILURE is printed only after all the attempts the variable is allowed.
FailureAfterAllAttempts ==
  \A k \in DOMAIN printed :
    printed[k].verdict = "FAILURE" => printed[k].num_transmits = Repeat[printed[k].var]

\* A line on the console is final, and restarting does not change it.
VerdictIsFinal ==
  [][\A k \in DOMAIN printed : k \in DOMAIN printed' /\ printed'[k] = printed[k]]_vars

\* Although the loop passes over elements, each request of the first run is
\* resolved in the end, whatever the network does.
EveryRequestResolved ==
  \A i \in ID : (i \in Active) ~> (<<0, i>> \in DOMAIN printed)

\* "broadcast, add a transmission for each vehicle"
BroadcastOncePerVehicle ==
  [][\A x \in Var : Broadcast(x) =>
       \A i, j \in (DOMAIN m_transmissions') \ Active :
         m_transmissions'[i].destination = m_transmissions'[j].destination => i = j]_vars
-----------------------------------------------------------------------------
(* The first run of the shoreside implements AckedDelivery. *)
VerdictOf(v) == {i \in ID : <<0, i>> \in DOMAIN printed /\ printed[<<0, i>>].verdict = v}

Abs == INSTANCE AckedDelivery WITH
         Request <- ID,
         accepted <- 0 .. (m_currentID - 1),
         arrived <- {i \in ID : <<0, i>> \in published},
         confirmed <- VerdictOf("SUCCESS"),
         abandoned <- VerdictOf("FAILURE")

\* With no restart and no unparsable message the bridge keeps the promises of
\* AckedDelivery, resolving every request included.
ImplementsAckedDelivery == Abs!Spec
=============================================================================
