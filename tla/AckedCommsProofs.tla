-------------------------- MODULE AckedCommsProofs --------------------------
(***************************************************************************)
(* Theorems about AckedComms for any vehicles, variables, limits and       *)
(* numbers of connections and restarts.  The argument is one inductive     *)
(* invariant: TypeOK, where a number may occur (NumbersHandedOut), what an *)
(* ack in flight proves (AcksTrue), and the safety properties themselves.  *)
(***************************************************************************)
EXTENDS AckedComms, TLAPS

\* Number i was handed out in run r of the shoreside.
HandedOut(r, i) == r < run \/ (r = run /\ i < m_currentID)

NumbersHandedOut ==
  /\ \A m \in transmits : HandedOut(m.run, m.id)
  /\ \A k \in DOMAIN printed : HandedOut(k[1], k[2])
  /\ \A k \in published : HandedOut(k[1], k[2])

AcksTrue ==
  ~garbled => /\ \A m \in transmits : m.parses
              /\ \A i \in acks : \E r \in 0 .. run : <<r, i>> \in published

IInv == /\ TypeOK
        /\ NumbersHandedOut
        /\ AcksTrue
        /\ SuccessSound
        /\ EveryNumberAccountedFor
        /\ FailureAfterAllAttempts

\* The lines printed for a set of active transmissions of this run.
LEMMA PrintedLines ==
  ASSUME TypeOK, NEW ids \in SUBSET Active, NEW v \in {"SUCCESS", "FAILURE"},
         PrintVerdicts(ids, v)
  PROVE  /\ DOMAIN printed' = DOMAIN printed \cup {<<run, i>> : i \in ids}
         /\ DOMAIN printed' \subseteq Run \X ID
         /\ printed' = [k \in DOMAIN printed' |-> printed'[k]]
         /\ \A k \in DOMAIN printed' : printed'[k] \in Verdict
         /\ \A k \in DOMAIN printed' :
              \/ k \in DOMAIN printed /\ printed'[k] = printed[k]
              \/ /\ k[1] = run
                 /\ k[2] \in ids
                 /\ printed'[k].verdict = v
                 /\ printed'[k].var = m_transmissions[k[2]].var
                 /\ printed'[k].num_transmits = m_transmissions[k[2]].num_transmits
<1> USE Parameters DEF TypeOK, ID, Run, Active
<1> DEFINE lines == {<<run, i>> : i \in ids}
<1>1. /\ DOMAIN printed' = DOMAIN printed \cup lines
      /\ printed' = [k \in DOMAIN printed' |-> printed'[k]]
      /\ \A k \in DOMAIN printed \ lines : printed'[k] = printed[k]
  BY DEF PrintVerdicts
<1>2. \A i \in ids : i \in 0 .. (MaxID - 1) /\ m_transmissions[i] \in Transmission
  OBVIOUS
<1>3. DOMAIN printed' \subseteq (0 .. MaxRestarts) \X (0 .. (MaxID - 1))
  BY <1>1, <1>2
<1>4. \A i \in ids :
        printed'[<<run, i>>] = [verdict |-> v, var |-> m_transmissions[i].var,
                                num_transmits |-> m_transmissions[i].num_transmits]
  BY <1>1 DEF PrintVerdicts
<1>5. \A i \in ids : printed'[<<run, i>>] \in Verdict
  <2> SUFFICES ASSUME NEW i \in ids PROVE printed'[<<run, i>>] \in Verdict
    OBVIOUS
  <2>1. m_transmissions[i].var \in Var /\ m_transmissions[i].num_transmits \in Nat
    BY <1>2 DEF Transmission
  <2>2. [verdict |-> v, var |-> m_transmissions[i].var,
         num_transmits |-> m_transmissions[i].num_transmits] \in Verdict
    BY <2>1 DEF Verdict
  <2> QED
    BY <1>4, <2>2
<1>6. \A k \in DOMAIN printed' : printed'[k] \in Verdict
  BY <1>1, <1>5
<1>7. ASSUME NEW k \in DOMAIN printed', ~(k \in DOMAIN printed /\ printed'[k] = printed[k])
      PROVE  /\ k[1] = run
             /\ k[2] \in ids
             /\ printed'[k].verdict = v
             /\ printed'[k].var = m_transmissions[k[2]].var
             /\ printed'[k].num_transmits = m_transmissions[k[2]].num_transmits
  <2>1. PICK i \in ids : k = <<run, i>>
    BY <1>1, <1>7
  <2>2. k[1] = run /\ k[2] = i
    BY <2>1
  <2>3. printed'[k] = [verdict |-> v, var |-> m_transmissions[i].var,
                       num_transmits |-> m_transmissions[i].num_transmits]
    BY <1>4, <2>1
  <2> QED
    BY <2>2, <2>3
<1> QED
  BY <1>1, <1>3, <1>6, <1>7

\* TypeOK holds initially and is preserved by every step on its own.
LEMMA TypeInductive ==
  /\ Init => TypeOK
  /\ TypeOK /\ [Next]_vars => TypeOK'
<1> USE Parameters DEF TypeOK, ID, Run, Active
<1>1. Init => TypeOK
  <2> SUFFICES ASSUME Init PROVE TypeOK
    OBVIOUS
  <2>1. /\ DOMAIN m_transmissions = {}
        /\ m_transmissions = [i \in DOMAIN m_transmissions |-> m_transmissions[i]]
    BY DEF Init
  <2>2. DOMAIN printed = {} /\ printed = [k \in DOMAIN printed |-> printed[k]]
    BY DEF Init
  <2>3. m_vehicles \in Seq(Vehicle) /\ run \in 0 .. MaxRestarts /\ m_currentID \in 0 .. MaxID
    BY DEF Init
  <2> QED
    BY <2>1, <2>2, <2>3 DEF Init
<1>2. TypeOK /\ [Next]_vars => TypeOK'
  <2> SUFFICES ASSUME TypeOK, [Next]_vars PROVE TypeOK'
    OBVIOUS
  <2>1. CASE OnConnectToServer
    BY <2>1 DEF OnConnectToServer, netVars
  <2>2. ASSUME NEW dests \in Seq(Dest), NEW x \in Var, AddTransmissions(dests, x) PROVE TypeOK'
    <3> DEFINE new == m_currentID .. (m_currentID + Len(dests) - 1)
    <3>1. /\ DOMAIN m_transmissions' = DOMAIN m_transmissions \cup new
          /\ m_transmissions' = [i \in DOMAIN m_transmissions' |-> m_transmissions'[i]]
          /\ \A i \in DOMAIN m_transmissions \ new : m_transmissions'[i] = m_transmissions[i]
          /\ \A i \in new :
               m_transmissions'[i] = NewTransmission(dests[i - m_currentID + 1], x)
      BY <2>2 DEF AddTransmissions, NextID
    <3>2. Len(dests) \in Nat /\ m_currentID \in Nat
      OBVIOUS
    <3>3. \A i \in new : i - m_currentID + 1 \in 1 .. Len(dests)
      BY <3>2
    <3>4. \A i \in new : dests[i - m_currentID + 1] \in Dest
      BY <3>3
    <3>5. \A i \in new : /\ m_transmissions'[i] \in Transmission
                         /\ m_transmissions'[i].num_transmits
                              <= Repeat[m_transmissions'[i].var]
      <4>1. \A d \in Dest : /\ NewTransmission(d, x) \in Transmission
                             /\ NewTransmission(d, x).num_transmits
                                  <= Repeat[NewTransmission(d, x).var]
        BY DEF NewTransmission, Transmission
      <4> QED
        BY <3>1, <3>4, <4>1
    <3>6. m_currentID' = m_currentID + Len(dests) /\ m_currentID' \in 0 .. MaxID
      BY <3>2, <2>2 DEF AddTransmissions, NextID
    <3>7. DOMAIN m_transmissions' \subseteq 0 .. (m_currentID' - 1)
      BY <3>1, <3>2, <3>6
    <3>8. \A i \in DOMAIN m_transmissions' :
            /\ m_transmissions'[i] \in Transmission
            /\ m_transmissions'[i].num_transmits <= Repeat[m_transmissions'[i].var]
      BY <3>1, <3>5
    <3> QED
      BY <2>2, <3>1, <3>6, <3>7, <3>8 DEF AddTransmissions, NextID, netVars
  <2>3. ASSUME NEW i \in ID, OnReturnAck(i) PROVE TypeOK'
    <3>1. {i} \cap Active \in SUBSET Active /\ PrintVerdicts({i} \cap Active, "SUCCESS")
      BY <2>3 DEF OnReturnAck
    <3> HIDE DEF Active
    <3>2. /\ DOMAIN printed' \subseteq Run \X ID
          /\ printed' = [k \in DOMAIN printed' |-> printed'[k]]
          /\ \A k \in DOMAIN printed' : printed'[k] \in Verdict
      BY <3>1, PrintedLines
    <3> QED
      BY <2>3, <3>2 DEF OnReturnAck, Erase, netVars, Active
  <2>4. CASE Iterate
    <3>1. PICK erased \in SUBSET Active : Pass(erased)
      BY <2>4 DEF Iterate
    <3>2. /\ DOMAIN printed' \subseteq Run \X ID
          /\ printed' = [k \in DOMAIN printed' |-> printed'[k]]
          /\ \A k \in DOMAIN printed' : printed'[k] \in Verdict
      <4> HIDE DEF Active
      <4> QED
        BY <3>1, PrintedLines DEF Pass
    <3>3. /\ DOMAIN m_transmissions' = DOMAIN m_transmissions \ erased
          /\ m_transmissions' = [i \in DOMAIN m_transmissions' |-> m_transmissions'[i]]
          /\ \A i \in DOMAIN m_transmissions \ erased :
               m_transmissions'[i] = IF i \in Sent(erased) THEN Attempted(m_transmissions[i])
                                                          ELSE m_transmissions[i]
      BY <3>1 DEF Pass
    <3>4. \A i \in Sent(erased) :
            /\ Attempted(m_transmissions[i]) \in Transmission
            /\ Attempted(m_transmissions[i]).num_transmits
                 <= Repeat[Attempted(m_transmissions[i]).var]
      <4>1. SUFFICES ASSUME NEW t \in Transmission, MaySend(t)
                     PROVE  /\ Attempted(t) \in Transmission
                            /\ Attempted(t).num_transmits <= Repeat[Attempted(t).var]
        BY DEF Sent, Visited
      <4> QED
        BY <4>1 DEF MaySend, Attempted, Transmission
    <3>5. transmits' \subseteq Message
      <4>1. \A i \in Sent(erased) : i \in 0 .. (MaxID - 1)
        BY DEF Sent, Visited
      <4>2. \A i \in Sent(erased) : m_transmissions[i].destination \in Vehicle =>
              [run |-> run, id |-> i, dest |-> m_transmissions[i].destination,
               parses |-> TRUE] \in Message
        BY <4>1 DEF Message
      <4> QED
        BY <3>1, <4>2 DEF Pass
    <3> QED
      BY <3>1, <3>2, <3>3, <3>4, <3>5 DEF Pass
  <2>5. ASSUME NEW i \in ID, DelayPasses(i) PROVE TypeOK'
    BY <2>5 DEF DelayPasses, Transmission, netVars
  <2>6. CASE Restart
    BY <2>6 DEF Restart, netVars
  <2>7. ASSUME NEW m \in transmits, OnTransmit(m) PROVE TypeOK'
    BY <2>7 DEF OnTransmit, Message, shoreVars
  <2>8. ASSUME NEW m \in transmits, Garble(m) PROVE TypeOK'
    BY <2>8 DEF Garble, Message, shoreVars
  <2>9. CASE UNCHANGED vars
    BY <2>9 DEF vars
  <2>10. /\ \A dest \in Dest : <<dest>> \in Seq(Dest)
         /\ m_vehicles \in Seq(Dest)
    OBVIOUS
  <2> QED
    BY <2>1, <2>2, <2>3, <2>4, <2>5, <2>6, <2>7, <2>8, <2>9, <2>10 DEF Next, Post, Broadcast
<1> QED
  BY <1>1, <1>2
\* Every reachable state has the right types: in particular no transmission is
\* ever attempted more often than its variable allows.
THEOREM TypeCorrect == Spec => []TypeOK
<1>1. Init => TypeOK
  BY TypeInductive
<1>2. TypeOK /\ [Next]_vars => TypeOK'
  BY TypeInductive
<1> QED
  BY <1>1, <1>2, PTL DEF Spec

\* NumbersHandedOut is preserved by every step.
LEMMA NumbersInductive ==
  ASSUME TypeOK, NumbersHandedOut, [Next]_vars
  PROVE  NumbersHandedOut'
<1> USE Parameters DEF NumbersHandedOut, HandedOut
<1>0. /\ m_currentID \in Nat /\ run \in Nat
      /\ \A i \in Active : i \in Nat /\ i < m_currentID
      /\ \A m \in transmits : m.run \in Nat /\ m.id \in Nat
      /\ \A k \in DOMAIN printed \cup published : k[1] \in Nat /\ k[2] \in Nat
  BY DEF TypeOK, Run, ID, Message
<1>1. CASE OnConnectToServer
  BY <1>1 DEF OnConnectToServer, netVars
<1>2. ASSUME NEW dests \in Seq(Dest), NEW x \in Var, AddTransmissions(dests, x)
      PROVE  NumbersHandedOut'
  BY <1>0, <1>2 DEF AddTransmissions, NextID, netVars
<1>3. ASSUME NEW i \in ID, OnReturnAck(i) PROVE NumbersHandedOut'
  <2>1. \A k \in DOMAIN printed' : k \in DOMAIN printed \/ (k[1] = run /\ k[2] \in Active)
    BY <1>3, PrintedLines, {i} \cap Active \in SUBSET Active DEF OnReturnAck
  <2> QED
    BY <1>0, <1>3, <2>1 DEF OnReturnAck, netVars
<1>4. CASE Iterate
  <2>1. PICK erased \in SUBSET Active : Pass(erased)
    BY <1>4 DEF Iterate
  <2>2. \A k \in DOMAIN printed' : k \in DOMAIN printed \/ (k[1] = run /\ k[2] \in Active)
    BY <2>1, PrintedLines DEF Pass
  <2>3. \A m \in transmits' : m \in transmits \/ (m.run = run /\ m.id \in Active)
    BY <2>1 DEF Pass, Sent, Visited
  <2>4. UNCHANGED <<m_currentID, published, run>>
    BY <2>1 DEF Pass
  <2> QED
    BY <1>0, <2>2, <2>3, <2>4
<1>5. ASSUME NEW i \in ID, DelayPasses(i) PROVE NumbersHandedOut'
  BY <1>5 DEF DelayPasses, netVars
<1>6. CASE Restart
  BY <1>0, <1>6 DEF Restart, netVars
<1>7. ASSUME NEW m \in transmits, OnTransmit(m) PROVE NumbersHandedOut'
  BY <1>7 DEF OnTransmit, shoreVars
<1>8. ASSUME NEW m \in transmits, Garble(m) PROVE NumbersHandedOut'
  <2>1. [m EXCEPT !.parses = FALSE].run = m.run /\ [m EXCEPT !.parses = FALSE].id = m.id
    BY DEF TypeOK, Message
  <2> QED
    BY <1>8, <2>1 DEF Garble, shoreVars
<1>9. CASE UNCHANGED vars
  BY <1>9 DEF vars
<1>10. /\ \A dest \in Dest : <<dest>> \in Seq(Dest)
       /\ m_vehicles \in Seq(Dest)
  BY DEF TypeOK
<1> QED
  BY <1>1, <1>2, <1>3, <1>4, <1>5, <1>6, <1>7, <1>8, <1>9, <1>10 DEF Next, Post, Broadcast

\* What is in flight stays true, and so do the SUCCESS lines drawn from it.
LEMMA SuccessInductive ==
  ASSUME TypeOK, NumbersHandedOut, AcksTrue, SuccessSound, [Next]_vars
  PROVE  AcksTrue' /\ SuccessSound'
<1> USE Parameters
<1>0. run \in Nat /\ \A k \in DOMAIN printed : k[1] \in Nat
  BY DEF TypeOK, Run
\* More publications and a later run only help.
<1>a. ASSUME ~garbled' => ~garbled, published \subseteq published', run' \in Nat, run <= run',
             ~garbled' => \A m \in transmits' : m.parses,
             ~garbled' => \A i \in acks' :
                            i \in acks \/ \E r \in 0 .. run : <<r, i>> \in published'
      PROVE  AcksTrue'
  <2> SUFFICES ASSUME ~garbled' PROVE \A i \in acks' : \E r \in 0 .. run' : <<r, i>> \in published'
    BY <1>a DEF AcksTrue
  <2>1. ~garbled
    BY <1>a
  <2>2. \A r \in 0 .. run : r \in 0 .. run'
    BY <1>0, <1>a
  <2>3. \A i \in acks' : \E r \in 0 .. run : <<r, i>> \in published'
    <3>1. \A i \in acks : \E r \in 0 .. run : <<r, i>> \in published
      BY <2>1 DEF AcksTrue
    <3> QED
      BY <3>1, <1>a
  <2> QED
    BY <2>2, <2>3
<1>b. ASSUME ~garbled' => ~garbled, published \subseteq published',
             \A k \in DOMAIN printed' :
                \/ k \in DOMAIN printed /\ printed'[k] = printed[k]
                \/ printed'[k].verdict # "SUCCESS"
                \/ k[1] = run /\ k[2] \in acks
      PROVE  SuccessSound'
  BY <1>0, <1>b DEF SuccessSound, AcksTrue
<1>1. CASE OnConnectToServer
  BY <1>1 DEF OnConnectToServer, netVars, AcksTrue, SuccessSound
<1>2. ASSUME NEW dests, NEW x, AddTransmissions(dests, x)
      PROVE  AcksTrue' /\ SuccessSound'
  BY <1>2 DEF AddTransmissions, NextID, netVars, AcksTrue, SuccessSound
<1>3. ASSUME NEW i \in ID, OnReturnAck(i) PROVE AcksTrue' /\ SuccessSound'
  <2>1. \A k \in DOMAIN printed' :
          \/ k \in DOMAIN printed /\ printed'[k] = printed[k]
          \/ k[1] = run /\ k[2] \in acks
    BY <1>3, PrintedLines, {i} \cap Active \in SUBSET Active DEF OnReturnAck
  <2> QED
    BY <1>3, <1>b, <2>1 DEF OnReturnAck, netVars, AcksTrue
<1>4. CASE Iterate
  <2>1. PICK erased \in SUBSET Active : Pass(erased)
    BY <1>4 DEF Iterate
  <2>2. \A k \in DOMAIN printed' :
          \/ k \in DOMAIN printed /\ printed'[k] = printed[k]
          \/ printed'[k].verdict # "SUCCESS"
    BY <2>1, PrintedLines DEF Pass
  <2>3. \A m \in transmits' : m \in transmits \/ m.parses
    BY <2>1 DEF Pass
  <2>4. UNCHANGED <<garbled, published, acks, run>>
    BY <2>1 DEF Pass
  <2> QED
    BY <1>b, <2>2, <2>3, <2>4 DEF AcksTrue
<1>5. ASSUME NEW i \in ID, DelayPasses(i) PROVE AcksTrue' /\ SuccessSound'
  BY <1>5 DEF DelayPasses, netVars, AcksTrue, SuccessSound
<1>6. CASE Restart
  <2>1. UNCHANGED <<transmits, acks, published, printed, garbled>> /\ run' = run + 1
    BY <1>6 DEF Restart, netVars
  <2>2. SuccessSound'
    BY <2>1 DEF SuccessSound
  <2>3. ASSUME NEW r \in 0 .. run PROVE r \in 0 .. run'
    BY <1>0, <2>1
  <2>4. AcksTrue'
    BY <2>1, <2>3 DEF AcksTrue
  <2> QED
    BY <2>2, <2>4
<1>7. ASSUME NEW m \in transmits, OnTransmit(m) PROVE AcksTrue' /\ SuccessSound'
  <2>1. m.run \in 0 .. run
    BY <1>0 DEF TypeOK, Message, Run, NumbersHandedOut, HandedOut
  <2>2. ASSUME ~garbled PROVE m.parses
    BY <2>2 DEF AcksTrue
  <2>3. /\ UNCHANGED <<garbled, run, transmits, printed>>
        /\ published \subseteq published'
        /\ m.parses => /\ <<m.run, m.id>> \in published'
                       /\ acks' = acks \cup {m.id}
    BY <1>7 DEF OnTransmit
  <2>4. AcksTrue'
    BY <1>0, <1>a, <2>1, <2>2, <2>3 DEF AcksTrue
  <2>5. SuccessSound'
    BY <1>b, <2>3
  <2> QED
    BY <2>4, <2>5
<1>8. ASSUME NEW m \in transmits, Garble(m) PROVE AcksTrue' /\ SuccessSound'
  BY <1>8 DEF Garble, AcksTrue, SuccessSound
<1>9. CASE UNCHANGED vars
  BY <1>9 DEF vars, AcksTrue, SuccessSound
<1> QED
  BY <1>1, <1>2, <1>3, <1>4, <1>5, <1>6, <1>7, <1>8, <1>9 DEF Next, Post, Broadcast

\* Every number stays accounted for, and FAILURE lines tell of all attempts.
LEMMA AccountInductive ==
  ASSUME TypeOK, NumbersHandedOut, EveryNumberAccountedFor, FailureAfterAllAttempts, [Next]_vars
  PROVE  EveryNumberAccountedFor' /\ FailureAfterAllAttempts'
<1> USE Parameters DEF EveryNumberAccountedFor, FailureAfterAllAttempts
<1>0. /\ m_currentID \in Nat /\ run \in Nat
      /\ \A i \in Active : i \in 0 .. (m_currentID - 1)
      /\ \A k \in DOMAIN printed : HandedOut(k[1], k[2]) /\ k[1] \in Nat /\ k[2] \in Nat
  BY DEF TypeOK, Run, ID, NumbersHandedOut
\* Printing a verdict for exactly the numbers that are erased keeps the account.
<1>a. ASSUME NEW ids \in SUBSET Active, NEW v \in {"SUCCESS", "FAILURE"},
             PrintVerdicts(ids, v), Active' = Active \ ids, UNCHANGED <<m_currentID, run>>
      PROVE  EveryNumberAccountedFor'
  <2>1. DOMAIN printed' = DOMAIN printed \cup {<<run, i>> : i \in ids}
    BY <1>a, PrintedLines
  <2>2. \A i \in 0 .. (m_currentID - 1) :
          <<run, i>> \in DOMAIN printed' <=> <<run, i>> \in DOMAIN printed \/ i \in ids
    BY <2>1
  <2> QED
    BY <1>0, <1>a, <2>2
<1>1. CASE OnConnectToServer
  BY <1>1 DEF OnConnectToServer, Active
<1>2. ASSUME NEW dests \in Seq(Dest), NEW x \in Var, AddTransmissions(dests, x)
      PROVE  EveryNumberAccountedFor' /\ FailureAfterAllAttempts'
  <2>1. /\ Active' = Active \cup (m_currentID .. (m_currentID + Len(dests) - 1))
        /\ m_currentID' = m_currentID + Len(dests)
        /\ UNCHANGED <<printed, run>>
    BY <1>2 DEF AddTransmissions, NextID, Active
  <2>2. \A i \in Nat : i >= m_currentID => <<run, i>> \notin DOMAIN printed
    BY <1>0 DEF HandedOut
  <2>3. Len(dests) \in Nat
    OBVIOUS
  <2> QED
    BY <1>0, <2>1, <2>2, <2>3
<1>3. ASSUME NEW i \in ID, OnReturnAck(i)
      PROVE  EveryNumberAccountedFor' /\ FailureAfterAllAttempts'
  <2>1. {i} \cap Active \in SUBSET Active /\ PrintVerdicts({i} \cap Active, "SUCCESS")
    BY <1>3 DEF OnReturnAck
  <2>2. Active' = Active \ ({i} \cap Active) /\ UNCHANGED <<m_currentID, run>>
    BY <1>3 DEF OnReturnAck, Erase, Active
  <2>3. \A k \in DOMAIN printed' :
          \/ k \in DOMAIN printed /\ printed'[k] = printed[k]
          \/ printed'[k].verdict = "SUCCESS"
    BY <2>1, PrintedLines
  <2> QED
    BY <1>a, <2>1, <2>2, <2>3
<1>4. CASE Iterate
  <2>1. PICK erased \in SUBSET Active : Pass(erased)
    BY <1>4 DEF Iterate
  <2>2. Active' = Active \ erased /\ UNCHANGED <<m_currentID, run>>
    BY <2>1 DEF Pass, Active
  <2>3. \A i \in erased : m_transmissions[i].num_transmits = Repeat[m_transmissions[i].var]
    <3>1. \A i \in erased : /\ m_transmissions[i] \in Transmission
                            /\ m_transmissions[i].num_transmits
                                 <= Repeat[m_transmissions[i].var]
                            /\ m_transmissions[i].num_transmits
                                 >= Repeat[m_transmissions[i].var]
      BY <2>1 DEF Pass, GivesUp, TypeOK
    <3> QED
      BY <3>1 DEF Transmission
  <2>4. FailureAfterAllAttempts'
    <3>1. \A k \in DOMAIN printed' :
            \/ k \in DOMAIN printed /\ printed'[k] = printed[k]
            \/ /\ k[2] \in erased
               /\ printed'[k].var = m_transmissions[k[2]].var
               /\ printed'[k].num_transmits = m_transmissions[k[2]].num_transmits
      BY <2>1, PrintedLines DEF Pass
    <3> QED
      BY <2>3, <3>1
  <2> QED
    BY <1>a, <2>1, <2>2, <2>4 DEF Pass
<1>5. ASSUME NEW i \in ID, DelayPasses(i)
      PROVE  EveryNumberAccountedFor' /\ FailureAfterAllAttempts'
  BY <1>5 DEF DelayPasses, Active
<1>6. CASE Restart
  BY <1>6 DEF Restart
<1>7. ASSUME NEW m \in transmits, OnTransmit(m)
      PROVE  EveryNumberAccountedFor' /\ FailureAfterAllAttempts'
  BY <1>7 DEF OnTransmit, shoreVars, Active
<1>8. ASSUME NEW m \in transmits, Garble(m)
      PROVE  EveryNumberAccountedFor' /\ FailureAfterAllAttempts'
  BY <1>8 DEF Garble, shoreVars, Active
<1>9. CASE UNCHANGED vars
  BY <1>9 DEF vars, Active
<1>10. /\ \A dest \in Dest : <<dest>> \in Seq(Dest)
       /\ m_vehicles \in Seq(Dest)
  BY DEF TypeOK
<1> QED
  BY <1>1, <1>2, <1>3, <1>4, <1>5, <1>6, <1>7, <1>8, <1>9, <1>10 DEF Next, Post, Broadcast

LEMMA InvariantInductive ==
  /\ Init => IInv
  /\ IInv /\ [Next]_vars => IInv'
<1>1. Init => IInv
  <2> SUFFICES ASSUME Init PROVE IInv
    OBVIOUS
  <2>1. TypeOK
    BY TypeInductive
  <2>2. DOMAIN printed = {}
    BY DEF Init
  <2>3. NumbersHandedOut /\ AcksTrue /\ SuccessSound /\ FailureAfterAllAttempts
    BY <2>2 DEF Init, NumbersHandedOut, AcksTrue, SuccessSound, FailureAfterAllAttempts
  <2>4. EveryNumberAccountedFor
    BY DEF Init, EveryNumberAccountedFor
  <2> QED
    BY <2>1, <2>3, <2>4 DEF IInv
<1>2. IInv /\ [Next]_vars => IInv'
  BY TypeInductive, NumbersInductive, SuccessInductive, AccountInductive DEF IInv
<1> QED
  BY <1>1, <1>2

\* A SUCCESS line always rests on a publication of that number by a vehicle.
THEOREM SuccessIsSound == Spec => []SuccessSound
<1>1. IInv => SuccessSound
  BY DEF IInv
<1> QED
  BY <1>1, InvariantInductive, PTL DEF Spec

\* No number is forgotten while the shoreside runs, and none is both active
\* and resolved.
THEOREM NumbersAccountedFor == Spec => []EveryNumberAccountedFor
<1>1. IInv => EveryNumberAccountedFor
  BY DEF IInv
<1> QED
  BY <1>1, InvariantInductive, PTL DEF Spec

\* FAILURE is never printed before the last attempt has been made.
THEOREM FailureIsExhausted == Spec => []FailureAfterAllAttempts
<1>1. IInv => FailureAfterAllAttempts
  BY DEF IInv
<1> QED
  BY <1>1, InvariantInductive, PTL DEF Spec

\* Whatever the restarts and the stray acks, a printed line is never followed
\* by another one for the same transmission.
THEOREM VerdictsAreFinal == Spec => VerdictIsFinal
<1> DEFINE Kept == \A k \in DOMAIN printed : k \in DOMAIN printed' /\ printed'[k] = printed[k]
<1>1. IInv /\ [Next]_vars => [Kept]_vars
  <2> SUFFICES ASSUME IInv, [Next]_vars PROVE Kept
    OBVIOUS
  <2>1. ASSUME NEW ids \in SUBSET Active, NEW v \in {"SUCCESS", "FAILURE"},
               PrintVerdicts(ids, v)
        PROVE  Kept
    <3>1. \A i \in ids : <<run, i>> \notin DOMAIN printed
      BY DEF IInv, TypeOK, EveryNumberAccountedFor
    <3> QED
      BY <2>1, <3>1 DEF PrintVerdicts
  <2>2. ASSUME NEW i \in ID, OnReturnAck(i) PROVE Kept
    BY <2>1, <2>2, {i} \cap Active \in SUBSET Active DEF OnReturnAck
  <2>3. CASE Iterate
    BY <2>1, <2>3 DEF Iterate, Pass
  <2>4. CASE UNCHANGED printed
    BY <2>4
  <2> QED
    BY <2>2, <2>3, <2>4 DEF Next, OnConnectToServer, Post, Broadcast, AddTransmissions, NextID,
       DelayPasses, Restart, OnTransmit, Garble, vars
<1> QED
  BY <1>1, InvariantInductive, PTL DEF Spec, VerdictIsFinal

\* Printing one verdict for active numbers of the first run adds exactly these
\* numbers to those that have this verdict.
LEMMA VerdictsAdded ==
  ASSUME IInv, run = 0, NEW ids \in SUBSET Active, NEW v \in {"SUCCESS", "FAILURE"},
         PrintVerdicts(ids, v)
  PROVE  \A w \in {"SUCCESS", "FAILURE"} :
           VerdictOf(w)' = IF w = v THEN VerdictOf(w) \cup ids ELSE VerdictOf(w)
<1> SUFFICES ASSUME NEW w \in {"SUCCESS", "FAILURE"}
             PROVE  VerdictOf(w)' = IF w = v THEN VerdictOf(w) \cup ids ELSE VerdictOf(w)
  OBVIOUS
<1>1. TypeOK /\ ids \subseteq ID
  BY Parameters DEF IInv, TypeOK, ID
<1>2. \A i \in ids : <<0, i>> \notin DOMAIN printed
  BY DEF IInv, TypeOK, EveryNumberAccountedFor
<1>3. DOMAIN printed' = DOMAIN printed \cup {<<0, i>> : i \in ids}
  BY <1>1, PrintedLines
<1>4. \A i \in ID : <<0, i>> \in DOMAIN printed' <=> <<0, i>> \in DOMAIN printed \/ i \in ids
  BY <1>3
<1>5. \A i \in ids : printed'[<<0, i>>].verdict = v
  <2> SUFFICES ASSUME NEW i \in ids PROVE printed'[<<0, i>>].verdict = v
    OBVIOUS
  <2>1. <<0, i>> \in DOMAIN printed' /\ <<0, i>> \notin DOMAIN printed
    BY <1>1, <1>2, <1>4
  <2> QED
    BY <1>1, <2>1, PrintedLines
<1>6. \A i \in ID \ ids : <<0, i>> \in DOMAIN printed => printed'[<<0, i>>] = printed[<<0, i>>]
  <2> SUFFICES ASSUME NEW i \in ID \ ids, <<0, i>> \in DOMAIN printed
               PROVE  printed'[<<0, i>>] = printed[<<0, i>>]
    OBVIOUS
  <2>1. <<0, i>> \in DOMAIN printed' /\ <<0, i>>[2] \notin ids
    BY <1>4
  <2> QED
    BY <1>1, <2>1, PrintedLines
<1> QED
  BY <1>1, <1>2, <1>4, <1>5, <1>6 DEF VerdictOf

\* Every step of the first run is a step of AckedDelivery or changes nothing
\* that AckedDelivery sees.
LEMMA StepImplements ==
  ASSUME IInv, run = 0, ~garbled, MaxRestarts = 0, MayGarble = FALSE, [Next]_vars
  PROVE  [Abs!Next]_Abs!vars
<1> USE Parameters DEF Abs!vars, Abs!Next
<1>0. /\ m_currentID \in Nat /\ m_currentID <= MaxID
      /\ \A i \in Active : i \in 0 .. (m_currentID - 1) /\ <<0, i>> \notin DOMAIN printed
  BY DEF IInv, TypeOK, EveryNumberAccountedFor
<1>p. \A i \in Active : i \in Abs!Pending
  BY <1>0 DEF Abs!Pending, VerdictOf
<1>1. CASE UNCHANGED <<m_currentID, published, printed>>
  BY <1>1 DEF VerdictOf
<1>2. ASSUME NEW dests \in Seq(Dest), NEW x \in Var, AddTransmissions(dests, x)
      PROVE  Abs!Next
  <2>1. /\ Len(dests) \in Nat /\ m_currentID' = m_currentID + Len(dests)
        /\ m_currentID' <= MaxID /\ UNCHANGED <<published, printed>>
    BY <1>2 DEF AddTransmissions, NextID
  <2> DEFINE new == m_currentID .. (m_currentID + Len(dests) - 1)
  <2>2. /\ new \in SUBSET (ID \ (0 .. (m_currentID - 1)))
        /\ 0 .. (m_currentID' - 1) = (0 .. (m_currentID - 1)) \cup new
    BY <1>0, <2>1 DEF ID
  <2>3. Abs!Accept
    BY <2>1, <2>2 DEF Abs!Accept, VerdictOf
  <2> QED
    BY <2>3
<1>3. ASSUME NEW i \in ID, OnReturnAck(i) PROVE [Abs!Next]_Abs!vars
  <2>1. /\ i \in acks /\ PrintVerdicts({i} \cap Active, "SUCCESS")
        /\ UNCHANGED <<m_currentID, published>>
    BY <1>3 DEF OnReturnAck
  <2>2. \A w \in {"SUCCESS", "FAILURE"} :
          VerdictOf(w)' = IF w = "SUCCESS" THEN VerdictOf(w) \cup ({i} \cap Active) ELSE VerdictOf(w)
    BY <2>1, VerdictsAdded, {i} \cap Active \in SUBSET Active
  <2>3. CASE i \in Active
    <3>1. <<0, i>> \in published
      BY <2>1 DEF IInv, AcksTrue
    <3>2. Abs!Confirm(i)
      BY <1>p, <2>1, <2>2, <2>3, <3>1 DEF Abs!Confirm
    <3> QED
      BY <3>2
  <2>4. CASE i \notin Active
    BY <2>1, <2>2, <2>4
  <2> QED
    BY <2>3, <2>4
<1>4. CASE Iterate
  <2>1. PICK erased \in SUBSET Active : Pass(erased)
    BY <1>4 DEF Iterate
  <2>2. \A w \in {"SUCCESS", "FAILURE"} :
          VerdictOf(w)' = IF w = "FAILURE" THEN VerdictOf(w) \cup erased ELSE VerdictOf(w)
    BY <2>1, VerdictsAdded DEF Pass
  <2>3. erased \subseteq Abs!Pending
    BY <1>p
  <2>4. erased \in SUBSET ID
    <3>1. \A i \in Active : i \in ID
      BY DEF IInv, TypeOK, ID
    <3> QED
      BY <3>1
  <2>5. Abs!Abandon(erased)
    BY <2>1, <2>2, <2>3 DEF Abs!Abandon, Pass
  <2> QED
    BY <2>4, <2>5
<1>5. ASSUME NEW m \in transmits, OnTransmit(m) PROVE Abs!Next
  <2>1. m.parses /\ m.run = 0 /\ m.id \in 0 .. (m_currentID - 1) /\ m.id \in ID
    BY DEF IInv, AcksTrue, NumbersHandedOut, HandedOut, TypeOK, Message, Run, ID
  <2>2. published' = published \cup {<<0, m.id>>} /\ UNCHANGED <<m_currentID, printed>>
    BY <1>5, <2>1 DEF OnTransmit, shoreVars
  <2>3. {i \in ID : <<0, i>> \in published'} = {i \in ID : <<0, i>> \in published} \cup {m.id}
    BY <2>1, <2>2
  <2>4. Abs!Arrive
    BY <2>1, <2>2, <2>3 DEF Abs!Arrive, VerdictOf
  <2> QED
    BY <2>4
<1>6. /\ \A dest \in Dest : <<dest>> \in Seq(Dest)
      /\ m_vehicles \in Seq(Dest)
  BY DEF IInv, TypeOK
<1>7. ~Restart /\ \A m \in transmits : ~Garble(m)
  BY DEF Restart, Garble
<1>8. CASE OnConnectToServer
  BY <1>1, <1>8 DEF OnConnectToServer
<1>9. ASSUME NEW i \in ID, DelayPasses(i) PROVE UNCHANGED <<m_currentID, published, printed>>
  BY <1>9 DEF DelayPasses
<1>10. CASE UNCHANGED vars
  BY <1>1, <1>10 DEF vars
<1> QED
  BY <1>1, <1>2, <1>3, <1>4, <1>5, <1>6, <1>7, <1>8, <1>9, <1>10 DEF Next, Post, Broadcast

\* While the shoreside is not restarted and messages parse, the bridge
\* implements AckedDelivery: a confirmed request has arrived, and none is
\* resolved twice, for any number of vehicles, variables and attempts and
\* whatever the network loses, delays, repeats or reorders.
THEOREM ImplementsSafely ==
  ASSUME MaxRestarts = 0, MayGarble = FALSE
  PROVE  Spec => Abs!SafeSpec
<1> DEFINE Calm == run = 0 /\ ~garbled
<1>1. Init => Abs!Init
  <2> SUFFICES ASSUME Init PROVE Abs!Init
    OBVIOUS
  <2>1. m_currentID = 0 /\ published = {} /\ DOMAIN printed = {}
    BY DEF Init
  <2> QED
    BY <2>1 DEF Abs!Init, VerdictOf
<1>2. Init => Calm
  BY DEF Init
<1>3. IInv /\ Calm /\ [Next]_vars => Calm'
  <2> SUFFICES ASSUME Calm, [Next]_vars PROVE Calm'
    OBVIOUS
  <2>1. ~Restart /\ \A m \in transmits : ~Garble(m)
    BY DEF Restart, Garble
  <2>2. ASSUME UNCHANGED <<run, garbled>> PROVE Calm'
    BY <2>2
  <2> QED
    BY <2>1, <2>2 DEF Next, vars, shoreVars, OnConnectToServer, Post, Broadcast,
       AddTransmissions, OnReturnAck, Iterate, Pass, DelayPasses, OnTransmit
<1>4. IInv /\ Calm /\ [Next]_vars => [Abs!Next]_Abs!vars
  BY StepImplements
<1> QED
  BY <1>1, <1>2, <1>3, <1>4, InvariantInductive, PTL DEF Spec, Abs!SafeSpec
=============================================================================
