------------------------- MODULE AcommsNetworkProofs -------------------------
(***************************************************************************)
(* For any number of vehicles, any mail, any times of flight and any       *)
(* number of transmissions: the queues of the simulated modems keep their  *)
(* order, the state keeps its type, no vehicle receives a transmission     *)
(* twice and none is lost on its way but by an overlap.                    *)
(***************************************************************************)
EXTENDS AcommsNetwork, AcommsDriverProofs, SequenceTheorems

(* The order of the queues *)

IsSequence(q) == q \in Seq({q[i] : i \in DOMAIN q})

ModemOK(sim) == IsSequence(sim.queue) /\ InOrder(sim)

\* The inductive invariant: the queues are sequences in order.
QInv == sims = [v \in Vehicle |-> sims[v]] /\ \A v \in Vehicle : ModemOK(sims[v])

-----------------------------------------------------------------------------
\* The elements of a sequence are all it has to be a sequence of.
LEMMA OfItsElements == ASSUME NEW S, NEW q \in Seq(S) PROVE IsSequence(q)
  <1>1. Len(q) \in Nat /\ DOMAIN q = 1 .. Len(q) /\ q \in [1 .. Len(q) -> S]
    BY LenProperties
  <1>2. q \in [1 .. Len(q) -> {q[i] : i \in DOMAIN q}]
    BY <1>1
  <1> QED
    BY <1>1, <1>2, SeqDef DEF IsSequence

\* A new modem, and one whose queue was cleared, is in order.
LEMMA IdleOK == ModemOK(Idle)
  <1>1. IsSequence(Idle.queue)
    BY OfItsElements, <<>> \in Seq({}) DEF Idle
  <1>2. InOrder(Idle)
    BY DEF InOrder, Idle
  <1> QED
    BY <1>1, <1>2 DEF ModemOK

\* Three events that lead from READY to READY may be queued on a READY modem.
LEMMA ExtendedOK ==
  ASSUME NEW sim, ModemOK(sim), sim.state = "READY",
         NEW x, NEW y, NEW z,
         Follows(x.new_state, "READY"), Follows(y.new_state, x.new_state),
         Follows(z.new_state, y.new_state), z.new_state = "READY"
  PROVE  ModemOK([state |-> sim.state, queue |-> sim.queue \o <<x, y, z>>])
  <1> DEFINE q == sim.queue
             S == {q[i] : i \in DOMAIN q} \cup {x, y, z}
             r == q \o <<x, y, z>>
             n == Len(q)
  <1>1. q \in Seq(S) /\ <<x, y, z>> \in Seq(S)
    <2>1. q \in Seq({q[i] : i \in DOMAIN q})
      BY DEF ModemOK, IsSequence
    <2>2. {q[i] : i \in DOMAIN q} \subseteq S
      OBVIOUS
    <2> HIDE DEF S
    <2>3. q \in Seq(S)
      BY <2>1, <2>2
    <2>4. x \in S /\ y \in S /\ z \in S
      BY DEF S
    <2> QED
      BY <2>3, <2>4
  <1> HIDE DEF S
  <1>2. n \in Nat /\ r \in Seq(S) /\ Len(r) = n + 3
    BY <1>1
  <1>3. \A i \in 1 .. n : r[i] = q[i]
    BY <1>1
  <1>4. r[n + 1] = x /\ r[n + 2] = y /\ r[n + 3] = z
    BY <1>1
  <1>5. InOrder(sim)
    BY DEF ModemOK
  <1>6. IsSequence(r)
    BY <1>2, OfItsElements
  <1> HIDE DEF r
  <1>7. r # <<>>
    BY <1>2
  <1>8. Follows(r[1].new_state, sim.state)
    <2>1. CASE n = 0
      BY <2>1, <1>4
    <2>2. CASE n # 0
      <3>1. q # <<>> /\ r[1] = q[1]
        BY <2>2, <1>2, <1>3
      <3> QED
        BY <3>1, <1>5 DEF InOrder
    <2> QED
      BY <2>1, <2>2
  <1>9. \A i \in 1 .. (n + 2) : Follows(r[i + 1].new_state, r[i].new_state)
    <2> SUFFICES ASSUME NEW i \in 1 .. (n + 2)
                 PROVE  Follows(r[i + 1].new_state, r[i].new_state)
      OBVIOUS
    <2>1. CASE i \in 1 .. (n - 1)
      <3>1. r[i] = q[i] /\ r[i + 1] = q[i + 1]
        BY <2>1, <1>2, <1>3
      <3> QED
        BY <3>1, <2>1, <1>5 DEF InOrder
    <2>2. CASE i = n
      <3>1. q # <<>> /\ r[i] = q[n] /\ r[i + 1] = x
        BY <2>2, <1>2, <1>3, <1>4
      <3>2. q[n].new_state = "READY"
        BY <3>1, <1>5 DEF InOrder
      <3> QED
        BY <3>1, <3>2
    <2>3. CASE i = n + 1
      BY <2>3, <1>2, <1>4
    <2>4. CASE i = n + 2
      BY <2>4, <1>2, <1>4
    <2> QED
      BY <2>1, <2>2, <2>3, <2>4, <1>2
  <1>10. InOrder([state |-> sim.state, queue |-> r])
    BY <1>2, <1>4, <1>7, <1>8, <1>9 DEF InOrder
  <1> QED
    BY <1>6, <1>10 DEF ModemOK, r

\* A transmission may be queued on any modem that is READY.
LEMMA TransmissionOK ==
  ASSUME NEW sim, ModemOK(sim), NEW rate
  PROVE  ModemOK(StartTransmission(sim, rate))
  <1>1. CASE sim.state = "READY"
    <2> DEFINE x == At(0, "TRANSMIT_POSTED", "none", 0)
               y == At(PostToTransmitDelay, "TRANSMIT_STARTED", "none", 0)
               z == At(PostToTransmitDelay + TransmitLength(rate), "READY", "TXF", 0)
    <2>1. /\ x.new_state = "TRANSMIT_POSTED"
          /\ y.new_state = "TRANSMIT_STARTED"
          /\ z.new_state = "READY"
      BY DEF At
    <2>2. StartTransmission(sim, rate) = [state |-> sim.state, queue |-> sim.queue \o <<x, y, z>>]
      BY <1>1 DEF StartTransmission
    <2> HIDE DEF x, y, z
    <2>3. /\ Follows(x.new_state, "READY")
          /\ Follows(y.new_state, x.new_state)
          /\ Follows(z.new_state, y.new_state)
      BY <2>1 DEF Follows
    <2> QED
      BY <1>1, <2>1, <2>2, <2>3, ExtendedOK
  <1>2. CASE sim.state # "READY"
    BY <1>2 DEF StartTransmission
  <1> QED
    BY <1>1, <1>2

\* So may a reception.
LEMMA ReceptionOK ==
  ASSUME NEW sim, ModemOK(sim), NEW start, NEW rate, NEW number
  PROVE  ModemOK(StartReception(sim, start, rate, number))
  <1>1. CASE sim.state = "READY"
    <2> DEFINE x == At(start, "RECEIVING_SOUND", "RXP", 0)
               y == At(start + TransmitLength(rate), "RECEIVING_PARSE", "none", 0)
               z == At(start + TransmitLength(rate) + ParseTime, "READY", "DATA", number)
    <2>1. /\ x.new_state = "RECEIVING_SOUND"
          /\ y.new_state = "RECEIVING_PARSE"
          /\ z.new_state = "READY"
      BY DEF At
    <2>2. StartReception(sim, start, rate, number)
            = [state |-> sim.state, queue |-> sim.queue \o <<x, y, z>>]
      BY <1>1 DEF StartReception
    <2> HIDE DEF x, y, z
    <2>3. /\ Follows(x.new_state, "READY")
          /\ Follows(y.new_state, x.new_state)
          /\ Follows(z.new_state, y.new_state)
      BY <2>1 DEF Follows
    <2> QED
      BY <1>1, <2>1, <2>2, <2>3, ExtendedOK
  <1>2. CASE sim.state # "READY"
    BY <1>2 DEF StartReception
  <1> QED
    BY <1>1, <1>2

\* Taking the first n events off leaves the modem in the state of the last of them.
LEMMA WorkedOK ==
  ASSUME NEW sim, ModemOK(sim), NEW n \in 1 .. Len(sim.queue)
  PROVE  ModemOK(AfterWork(n, sim))
  <1> DEFINE q == sim.queue
             S == {q[i] : i \in DOMAIN q}
             m == Len(q)
             r == SubSeq(q, n + 1, m)
  <1>1. q \in Seq(S) /\ InOrder(sim)
    BY DEF ModemOK, IsSequence
  <1> HIDE DEF S
  <1>2. m \in Nat /\ n \in 1 .. m
    BY <1>1, LenProperties
  <1>3. /\ r \in Seq(S) /\ Len(r) = m - n
        /\ \A i \in 1 .. (m - n) : r[i] = q[n + i]
    BY <1>1, <1>2
  <1>4. IsSequence(r)
    BY <1>3, OfItsElements
  <1> HIDE DEF r
  <1>5. q # <<>> /\ q[m].new_state = "READY"
    BY <1>1, <1>2 DEF InOrder
  <1>6. \A i \in 1 .. (m - 1) : Follows(q[i + 1].new_state, q[i].new_state)
    BY <1>1 DEF InOrder
  <1> HIDE DEF q, m
  <1> DEFINE new == [state |-> q[n].new_state, queue |-> r]
  <1>7. r = <<>> => q[n].new_state = "READY"
    <2> SUFFICES ASSUME r = <<>> PROVE n = m
      BY <1>5
    <2> QED
      BY <1>2, <1>3
  <1>8. ASSUME r # <<>>
        PROVE  /\ Follows(r[1].new_state, q[n].new_state)
               /\ r[Len(r)].new_state = "READY"
    <2>1. n < m
      <3> SUFFICES ASSUME n = m PROVE FALSE
        BY <1>2
      <3> QED
        BY <1>2, <1>3, <1>8
    <2>2. r[1] = q[n + 1] /\ r[Len(r)] = q[m]
      BY <2>1, <1>2, <1>3
    <2> QED
      BY <2>1, <2>2, <1>2, <1>5, <1>6
  <1>9. \A i \in 1 .. (Len(r) - 1) : Follows(r[i + 1].new_state, r[i].new_state)
    <2> SUFFICES ASSUME NEW i \in 1 .. (m - n - 1)
                 PROVE  Follows(r[i + 1].new_state, r[i].new_state)
      BY <1>3
    <2>1. r[i] = q[n + i] /\ r[i + 1] = q[(n + i) + 1] /\ n + i \in 1 .. (m - 1)
      BY <1>2, <1>3
    <2> QED
      BY <2>1, <1>6
  <1>10. InOrder(new)
    BY <1>7, <1>8, <1>9 DEF InOrder
  <1> QED
    BY <1>4, <1>10 DEF ModemOK, AfterWork, new, r, q, m

\* Time that passes changes no event but its due.
LEMMA CloserOK ==
  ASSUME NEW sim, ModemOK(sim)
  PROVE  ModemOK(Closer(sim))
  <1> DEFINE q == sim.queue
             m == Len(q)
             e(i) == At(IF q[i].due = 0 THEN 0 ELSE q[i].due - 1,
                        q[i].new_state, q[i].to_post.signal, q[i].to_post.of)
             r == [i \in 1 .. m |-> e(i)]
  <1>1. q \in Seq({q[i] : i \in DOMAIN q}) /\ InOrder(sim)
    BY DEF ModemOK, IsSequence
  <1>2. m \in Nat /\ (m = 0 <=> q = <<>>)
    BY <1>1, LenProperties, EmptySeq
  <1> HIDE DEF q, m
  <1>3. r \in Seq({e(i) : i \in 1 .. m}) /\ Len(r) = m
    <2>1. r \in [1 .. m -> {e(i) : i \in 1 .. m}]
      OBVIOUS
    <2> HIDE DEF e
    <2>2. r \in Seq({e(i) : i \in 1 .. m})
      BY <2>1, <1>2, SeqDef
    <2>3. DOMAIN r = 1 .. m
      OBVIOUS
    <2> QED
      BY <2>2, <2>3, <1>2, LenProperties
  <1>4. IsSequence(r)
    BY <1>3, OfItsElements
  <1>5. \A i \in 1 .. m : r[i].new_state = q[i].new_state
    BY DEF At
  <1> HIDE DEF r
  <1> DEFINE new == [state |-> sim.state, queue |-> r]
  <1>6. (r = <<>>) <=> (q = <<>>)
    BY <1>2, <1>3, EmptySeq
  <1>7. InOrder(new)
    <2>1. q = <<>> => sim.state = "READY"
      BY <1>1 DEF InOrder, q
    <2>2. ASSUME q # <<>>
          PROVE  /\ Follows(q[1].new_state, sim.state)
                 /\ q[m].new_state = "READY"
      BY <1>1, <2>2 DEF InOrder, q, m
    <2>3. \A i \in 1 .. (m - 1) : Follows(q[i + 1].new_state, q[i].new_state)
      BY <1>1 DEF InOrder, q, m
    <2>4. ASSUME r # <<>>
          PROVE  /\ Follows(r[1].new_state, sim.state)
                 /\ r[Len(r)].new_state = "READY"
      BY <2>4, <2>2, <1>2, <1>3, <1>5, <1>6
    <2>5. \A i \in 1 .. (Len(r) - 1) : Follows(r[i + 1].new_state, r[i].new_state)
      <3> SUFFICES ASSUME NEW i \in 1 .. (m - 1)
                   PROVE  Follows(r[i + 1].new_state, r[i].new_state)
        BY <1>3
      <3>1. r[i].new_state = q[i].new_state /\ r[i + 1].new_state = q[i + 1].new_state
        BY <1>2, <1>5
      <3> QED
        BY <3>1, <2>3
    <2> QED
      BY <2>1, <2>4, <2>5, <1>6 DEF InOrder
  <1> QED
    BY <1>4, <1>7 DEF ModemOK, Closer, new, r, q, m
-----------------------------------------------------------------------------
LEMMA QInvInitially == Init => QInv
  BY IdleOK DEF Init, QInv

\* What the simulator does with a transmission, to each modem.
LEMMA NewTransmissionOK ==
  ASSUME QInv, NEW t, NEW deaf, HandleNewTransmission(t, deaf)
  PROVE  QInv'
  <1> DEFINE heard(v) == IF v \in Hearers(t, deaf)
                         THEN StartReception(sims[v], Flight[t.from][v], t.rate, t.number)
                         ELSE sims[v]
  <1>1. sims' = [v \in Vehicle |-> IF v = t.from
                                   THEN StartTransmission(Cleared(heard(v)), t.rate)
                                   ELSE heard(v)]
    BY DEF HandleNewTransmission
  <1>2. ASSUME NEW v \in Vehicle PROVE ModemOK(heard(v))
    BY ReceptionOK DEF QInv
  <1> HIDE DEF heard
  <1>3. ASSUME NEW v \in Vehicle PROVE ModemOK(Cleared(heard(v)))
    BY <1>2, IdleOK DEF Cleared, ClearQueue
  <1>4. ASSUME NEW v \in Vehicle PROVE ModemOK(sims'[v])
    BY <1>1, <1>2, <1>3, TransmissionOK
  <1> QED
    BY <1>1, <1>4 DEF QInv

LEMMA QInvInductive == QInv /\ [Next]_vars => QInv'
  <1> SUFFICES ASSUME QInv, [Next]_vars PROVE QInv'
    OBVIOUS
  <1>0. ASSUME UNCHANGED sims PROVE QInv'
    BY <1>0 DEF QInv
  <1>1. ASSUME NEW v \in Vehicle, NEW batch \in Batch, ReadsMail(v, batch) PROVE QInv'
    BY <1>0, <1>1 DEF ReadsMail, simVars
  <1>2. ASSUME NEW v \in Vehicle, OnSimMail(v) PROVE QInv'
    BY <1>0, <1>2 DEF OnSimMail, simVars
  <1>3. ASSUME NEW v \in Vehicle, Iterates(v) PROVE QInv'
    BY <1>0, <1>3 DEF Iterates, simVars
  <1>4. ASSUME NEW v \in Vehicle, HandleReport(v) PROVE QInv'
    BY <1>4, IdleOK DEF HandleReport, QInv
  <1>5. CASE SimReadsMail
    BY <1>0, <1>5, NewTransmissionOK DEF SimReadsMail
  <1>6. ASSUME NEW v \in Vehicle, DoWork(v) PROVE QInv'
    <2>1. PICK n \in 1 .. Len(sims[v].queue) : sims' = [sims EXCEPT ![v] = AfterWork(n, @)]
      BY <1>6 DEF DoWork
    <2>2. ModemOK(AfterWork(n, sims[v]))
      BY WorkedOK DEF QInv
    <2> QED
      BY <2>1, <2>2 DEF QInv
  <1>7. CASE Tick
    BY <1>7, CloserOK DEF Tick, QInv
  <1>8. CASE UNCHANGED vars
    BY <1>0, <1>8 DEF vars, simVars
  <1> QED
    BY <1>1, <1>2, <1>3, <1>4, <1>5, <1>6, <1>7, <1>8 DEF Next

\* However receptions, transmissions, cancellations and the passing of time
\* interleave, every modem that pAcommsSimulator plays goes through its states
\* in their order, and its queue leads it back to READY.
THEOREM QueuesStayInOrder == Spec => []QueuesInOrder
  <1>1. QInv => QueuesInOrder
    BY DEF QInv, ModemOK, QueuesInOrder
  <1> QED
    BY QInvInitially, QInvInductive, <1>1, PTL DEF Spec
-----------------------------------------------------------------------------
(* Types *)

\* Ascends: the numbers, where there are any, ascend along s.
Ascends(s) == \A i, j \in DOMAIN s : i < j /\ s[i] # 0 /\ s[j] # 0 => s[i] < s[j]
Posts(q) == [i \in DOMAIN q |-> q[i].of]
Coming(q) == [i \in DOMAIN q |-> q[i].to_post.of]

SignalPost == Post \ {NoPost}

LEMMA PostNumbers == \A p \in Post : p.of \in Nat /\ (p.signal = "DATA" => p.of \in Number)
  BY NetworkParameters DEF Post, NoPost, Number

\* What doWork sends of the events it takes off the queue.
LEMMA PostedIs ==
  ASSUME NEW sim, sim.queue \in Seq(Event), NEW n \in 1 .. Len(sim.queue)
  PROVE  /\ Posted(n, sim) \in Seq(SignalPost)
         /\ \A i \in 1 .. Len(Posted(n, sim)) :
              \E j \in 1 .. n : Posted(n, sim)[i] = sim.queue[j].to_post
         /\ \A j \in 1 .. n : sim.queue[j].to_post # NoPost =>
              \E i \in 1 .. Len(Posted(n, sim)) : Posted(n, sim)[i] = sim.queue[j].to_post
         /\ Ascends(Coming(sim.queue)) => Ascends(Posts(Posted(n, sim)))
  <1> DEFINE q == sim.queue
             e == SubSeq(q, 1, n)
             IsFold(f) == f = [s \in SUBSET DOMAIN e |->
               IF s = {} THEN <<>> ELSE WithPost(f[s \ {Max(s)}], e[Max(s)])]
             fold == CHOOSE f : IsFold(f)
             S == Seq(SignalPost)
             H == [x \in S |-> [m \in Event |-> WithPost(x, m)]]
             D == [k \in 0 .. n |->
                    {s \in S : /\ \A i \in 1 .. Len(s) : \E j \in 1 .. k : s[i] = q[j].to_post
                               /\ \A j \in 1 .. k : q[j].to_post # NoPost =>
                                    \E i \in 1 .. Len(s) : s[i] = q[j].to_post
                               /\ Ascends(Coming(q)) => Ascends(Posts(s))}]
  <1>1. Len(q) \in Nat /\ n \in Nat /\ n <= Len(q) /\ DOMAIN q = 1 .. Len(q) /\ \A j \in 1 .. n : q[j] \in Event
    OBVIOUS
  <1>2. e \in Seq(Event) /\ Len(e) = n /\ DOMAIN e = 1 .. n /\ \A j \in 1 .. n : e[j] = q[j]
    BY <1>1
  <1>3. \A x \in S, m \in Event : WithPost(x, m) \in S
    <2> SUFFICES ASSUME NEW x \in S, NEW m \in Event PROVE WithPost(x, m) \in S
      OBVIOUS
    <2>1. m.to_post \in Post
      BY DEF Event
    <2>2. m.to_post # NoPost => m.to_post \in SignalPost
      BY <2>1 DEF SignalPost
    <2> QED BY <2>2 DEF WithPost
  <1> HIDE DEF S, e, q
  <1>4. H \in [S -> [Event -> S]] /\ <<>> \in S
    BY <1>3 DEF S
  <1>5. \A s \in SUBSET (1 .. n) : s # {} => e[Max(s)] \in Event
    BY <1>1, <1>2, LastPosition
  <1>6. \E f : IsFold(f)
    <2>2. PICK f : f \in [SUBSET (1 .. n) -> S] /\ Folds(f, n, H, <<>>, e)
      <3> HIDE DEF H
      <3> QED BY <1>2, <1>4, FoldExists
    <2>3. ASSUME NEW s \in SUBSET (1 .. n)
          PROVE  f[s] = IF s = {} THEN <<>> ELSE WithPost(f[s \ {Max(s)}], e[Max(s)])
      <3>1. CASE s = {}
        BY <3>1, <2>2 DEF Folds
      <3>2. CASE s # {}
        <4>1. f[s \ {Max(s)}] \in S /\ e[Max(s)] \in Event
          BY <1>5, <2>2, <3>2
        <4>2. f[s] = H[f[s \ {Max(s)}]][e[Max(s)]]
          <5> HIDE DEF H
          <5> QED BY <2>2, <3>2 DEF Folds
        <4> QED BY <4>1, <4>2, <3>2
      <3> QED BY <3>1, <3>2
    <2>4. f = [s \in SUBSET DOMAIN e |-> f[s]]
      BY <1>2, <2>2
    <2> QED BY <1>2, <2>3, <2>4
  <1>7. IsFold(fold)
    BY <1>6
  <1>8. Posted(n, sim) = fold[1 .. n]
    BY <1>2 DEF Posted, FoldLeft, MapThenFoldSet, e, q
  <1> HIDE DEF fold
  <1>9. fold[{}] \in D[0]
    <2>1. fold[{}] = <<>>
      BY <1>7
    <2>2. Ascends(Posts(<<>>))
      BY DEF Ascends, Posts
    <2> QED BY <2>1, <2>2, <1>4
  <1>10. ASSUME NEW k \in 1 .. n, fold[1 .. (k - 1)] \in D[k - 1] PROVE fold[1 .. k] \in D[k]
    <2> DEFINE x == fold[1 .. (k - 1)]
               p == q[k].to_post
               y == Append(x, p)
    <2>1. fold[1 .. k] = WithPost(x, q[k])
      <3>1. k \in Nat \ {0} /\ 1 .. k \in SUBSET (1 .. n)
        BY <1>1
      <3>2. Max(1 .. k) = k /\ (1 .. k) \ {k} = 1 .. (k - 1) /\ 1 .. k # {}
        BY <3>1, LastOfFirst
      <3> QED BY <3>1, <3>2, <1>2, <1>7
    <2>2. k - 1 \in 0 .. n /\ k \in 0 .. n
      BY <1>1
    <2>3. /\ x \in S /\ \A i \in 1 .. Len(x) : \E j \in 1 .. (k - 1) : x[i] = q[j].to_post
          /\ \A j \in 1 .. (k - 1) : q[j].to_post # NoPost => \E i \in 1 .. Len(x) : x[i] = q[j].to_post
          /\ Ascends(Coming(q)) => Ascends(Posts(x))
      BY <1>10, <2>2
    <2> HIDE DEF x
    <2>4. CASE p = NoPost
      <3>1. fold[1 .. k] = x
        BY <2>1, <2>4 DEF WithPost
      <3>2. \A i \in 1 .. Len(x) : \E j \in 1 .. k : x[i] = q[j].to_post
        BY <2>3
      <3>3. \A j \in 1 .. k : q[j].to_post # NoPost => \E i \in 1 .. Len(x) : x[i] = q[j].to_post
        <4>1. \A j \in 1 .. k : j = k \/ j \in 1 .. (k - 1)
          OBVIOUS
        <4> QED BY <2>3, <2>4, <4>1
      <3> QED BY <3>1, <3>2, <3>3, <2>2, <2>3
    <2>5. CASE p # NoPost
      <3>1. fold[1 .. k] = y
        BY <2>1, <2>5 DEF WithPost
      <3>2. p \in SignalPost
        BY <1>1, <2>5 DEF SignalPost, Event
      <3>3. /\ Len(x) \in Nat /\ DOMAIN x = 1 .. Len(x)
            /\ y \in S /\ Len(y) = Len(x) + 1 /\ DOMAIN y = 1 .. (Len(x) + 1)
            /\ y[Len(x) + 1] = p /\ \A i \in 1 .. Len(x) : y[i] = x[i]
        BY <2>3, <3>2 DEF S
      <3> HIDE DEF y
      <3>4. \A i \in 1 .. Len(y) : \E j \in 1 .. k : y[i] = q[j].to_post
        BY <3>3, <2>3
      <3>5. ASSUME Ascends(Coming(q)) PROVE Ascends(Posts(y))
        <4> SUFFICES ASSUME NEW i \in 1 .. Len(y), NEW j \in 1 .. Len(y), i < j,
                            y[i].of # 0, y[j].of # 0
                     PROVE  y[i].of < y[j].of
          BY <3>3 DEF Ascends, Posts
        <4>1. i \in 1 .. Len(x) /\ y[i] = x[i]
          BY <3>3
        <4>2. CASE j \in 1 .. Len(x)
          BY <4>1, <4>2, <3>3, <3>5, <2>3 DEF Ascends, Posts
        <4>3. CASE j = Len(x) + 1
          <5>1. PICK l \in 1 .. (k - 1) : x[i] = q[l].to_post
            BY <4>1, <2>3
          <5>2. l \in DOMAIN q /\ k \in DOMAIN q /\ l < k
            BY <1>1
          <5> QED BY <4>1, <4>3, <3>3, <3>5, <5>1, <5>2 DEF Ascends, Coming
        <4> QED BY <4>2, <4>3, <3>3
      <3>6. \A j \in 1 .. k : q[j].to_post # NoPost => \E i \in 1 .. Len(y) : y[i] = q[j].to_post
        <4>1. \A j \in 1 .. k : j = k \/ j \in 1 .. (k - 1)
          OBVIOUS
        <4>2. Len(x) + 1 \in 1 .. Len(y) /\ \A i \in 1 .. Len(x) : i \in 1 .. Len(y)
          BY <3>3
        <4> QED BY <2>3, <3>3, <4>1, <4>2
      <3> QED BY <3>1, <3>3, <3>4, <3>5, <3>6, <2>2
    <2> QED BY <2>4, <2>5
  <1>11. fold[1 .. n] \in D[n]
    <2> HIDE DEF D
    <2> QED BY <1>1, <1>9, <1>10, FoldSteps
  <1>12. n \in 0 .. n
    BY <1>1
  <1> QED BY <1>8, <1>11, <1>12 DEF S, q

Modem == [state : SimState, queue : Seq(Event)]
Transmission == [from : Vehicle, rate : Rate, number : Number]

\* The times and the posts of the events that are queued.
LEMMA LengthType == \A rate \in Rate : TransmitLength(rate) \in Nat
  BY SecondType DEF TransmitLength

LEMMA AtType ==
  ASSUME NEW due \in Nat, NEW new_state \in SimState, NEW signal, NEW of,
         [signal |-> signal, of |-> of] \in Post
  PROVE  At(due, new_state, signal, of) \in Event
  BY DEF At, Event

LEMMA PostTypes ==
  /\ [signal |-> "none", of |-> 0] \in Post
  /\ [signal |-> "TXF", of |-> 0] \in Post
  /\ [signal |-> "RXP", of |-> 0] \in Post
  /\ \A n \in Number : [signal |-> "DATA", of |-> n] \in Post
  BY DEF Post, NoPost

\* What is done with a modem leaves it one.
LEMMA TransmissionType ==
  ASSUME NEW sim \in Modem, NEW rate \in Rate
  PROVE  StartTransmission(sim, rate) \in Modem
  <1>1. /\ At(0, "TRANSMIT_POSTED", "none", 0) \in Event
        /\ At(PostToTransmitDelay, "TRANSMIT_STARTED", "none", 0) \in Event
        /\ At(PostToTransmitDelay + TransmitLength(rate), "READY", "TXF", 0) \in Event
    BY LengthType, PostTypes, AtType DEF PostToTransmitDelay, SimState
  <1> QED BY <1>1 DEF StartTransmission, Modem

LEMMA ReceptionType ==
  ASSUME NEW sim \in Modem, NEW start \in Nat, NEW rate \in Rate, NEW n \in Number
  PROVE  StartReception(sim, start, rate, n) \in Modem
  <1>1. /\ start + TransmitLength(rate) \in Nat
        /\ start + TransmitLength(rate) + ParseTime \in Nat
    BY LengthType DEF ParseTime
  <1>2. /\ At(start, "RECEIVING_SOUND", "RXP", 0) \in Event
        /\ At(start + TransmitLength(rate), "RECEIVING_PARSE", "none", 0) \in Event
        /\ At(start + TransmitLength(rate) + ParseTime, "READY", "DATA", n) \in Event
    BY <1>1, PostTypes, AtType DEF SimState
  <1> QED BY <1>2 DEF StartReception, Modem

LEMMA WorkedType ==
  ASSUME NEW sim \in Modem, NEW n \in 1 .. Len(sim.queue)
  PROVE  AfterWork(n, sim) \in Modem
  <1>1. sim.queue \in Seq(Event)
    BY DEF Modem
  <1>2. sim.queue[n] \in Event /\ SubSeq(sim.queue, n + 1, Len(sim.queue)) \in Seq(Event)
    BY <1>1
  <1>3. sim.queue[n].new_state \in SimState
    BY <1>2 DEF Event
  <1> QED BY <1>2, <1>3 DEF AfterWork, Modem

\* The queue's events, a moment later.
LEMMA CloserType ==
  ASSUME NEW sim \in Modem
  PROVE  /\ Closer(sim) \in Modem
         /\ Coming(Closer(sim).queue) = Coming(sim.queue)
  <1> DEFINE q == sim.queue
             r == Closer(sim).queue
  <1>1. q \in Seq(Event) /\ Len(q) \in Nat /\ DOMAIN q = 1 .. Len(q) /\ \A i \in 1 .. Len(q) : q[i] \in Event
    BY DEF Modem
  <1>2. \A i \in 1 .. Len(q) : q[i].due \in Nat /\ q[i].new_state \in SimState /\ q[i].to_post \in Post
    BY <1>1 DEF Event
  <1>3. \A p \in Post : p = [signal |-> p.signal, of |-> p.of]
    BY DEF Post, NoPost
  <1>4. /\ DOMAIN r = 1 .. Len(q)
        /\ \A i \in 1 .. Len(q) : r[i] = At(IF q[i].due = 0 THEN 0 ELSE q[i].due - 1,
                                            q[i].new_state, q[i].to_post.signal, q[i].to_post.of)
        /\ r = [i \in 1 .. Len(q) |-> r[i]]
        /\ Closer(sim).state = sim.state
        /\ Closer(sim) = [state |-> sim.state, queue |-> r]
    BY DEF Closer
  <1> HIDE DEF q, r
  <1>5. ASSUME NEW i \in 1 .. Len(q) PROVE r[i] \in Event /\ r[i].to_post = q[i].to_post
    <2>1. (IF q[i].due = 0 THEN 0 ELSE q[i].due - 1) \in Nat
      BY <1>2
    <2>2. [signal |-> q[i].to_post.signal, of |-> q[i].to_post.of] = q[i].to_post
      BY <1>2, <1>3
    <2> QED BY <1>2, <1>4, <2>1, <2>2 DEF At, Event
  <1>6. r \in Seq(Event)
    <2>1. r \in [1 .. Len(q) -> Event]
      BY <1>4, <1>5
    <2> QED BY <1>1, <2>1, SeqDef
  <1>7. Closer(sim) \in Modem
    BY <1>4, <1>6 DEF Modem
  <1>8. Coming(r) = Coming(q)
    BY <1>1, <1>4, <1>5 DEF Coming
  <1> QED BY <1>7, <1>8 DEF q, r

LEMMA IdleType == Idle \in Modem
  BY DEF Idle, Modem, SimState

\* The type invariant is inductive.
LEMMA TypesInitially == Init => TypeOK
  <1> SUFFICES ASSUME Init PROVE TypeOK
    OBVIOUS
  <1>1. [StartDriver(InitDriver) EXCEPT !.start = StartUp + 1] \in Driver
    <2>1. /\ 0 \in 0 .. (ReceiveTimeout + 1) /\ StartUp + 1 \in 0 .. (StartUp + 1)
          /\ Never \in {Never} \cup 0 .. (StartUp + 1)
      BY SecondType
    <2>2. InitDriver \in Driver
      BY <2>1 DEF InitDriver, Driver, Status, Rate, Standard
    <2>3. Publish(InitDriver, "READY") \in Driver
      BY <2>2, PublishType DEF Status
    <2> QED BY <2>1, <2>3 DEF StartDriver, Driver
  <1>2. Idle \in Modem
    BY IdleType
  <1>3. <<>> \in Seq([from : Vehicle, rate : Rate, number : Number])
        /\ <<>> \in Seq(Post \ {NoPost}) /\ <<>> \in Seq(Vehicle) /\ <<>> \in Seq(Number)
    OBVIOUS
  <1>4. Len(<<>>) <= MaxSent
    BY NetworkParameters
  <1> QED BY <1>1, <1>2, <1>3, <1>4 DEF Init, TypeOK, Modem

\* What the simulator's transmission does to a modem.
LEMMA HeardType ==
  ASSUME TypeOK, NEW t \in Transmission, NEW deaf, NEW v \in Vehicle
  PROVE  (IF v \in Hearers(t, deaf)
          THEN StartReception(sims[v], Flight[t.from][v], t.rate, t.number)
          ELSE sims[v]) \in Modem
  <1>1. sims[v] \in Modem
    BY DEF TypeOK, Modem
  <1>2. t.from \in Vehicle /\ t.rate \in Rate /\ t.number \in Number
    BY DEF Transmission
  <1>3. Flight[t.from][v] \in Nat
    BY <1>2, NetworkParameters
  <1>4. StartReception(sims[v], Flight[t.from][v], t.rate, t.number) \in Modem
    BY <1>1, <1>2, <1>3, ReceptionType
  <1> QED BY <1>1, <1>4

LEMMA TypesInductive == TypeOK /\ [Next]_vars => TypeOK'
  <1> SUFFICES ASSUME TypeOK, [Next]_vars PROVE TypeOK'
    OBVIOUS
  <1> USE DEF TypeOK
  <1>0. Seq([from : Vehicle, rate : Rate, number : Number]) = Seq(Transmission)
    BY DEF Transmission
  <1>1. ASSUME NEW v \in Vehicle, NEW batch \in Batch, ReadsMail(v, batch) PROVE TypeOK'
    <2>1. batch \in Seq(Mail)
      BY NetworkParameters
    <2>2. OnNewMail(drivers[v], batch) \in Driver
      BY <2>1, OnNewMailType
    <2>3. drivers' = [drivers EXCEPT ![v] = OnNewMail(@, batch)]
          /\ UNCHANGED <<raw, reception, simOut, m_vehicles, sims, received>>
      BY <1>1 DEF ReadsMail, simVars
    <2>4. drivers' \in [Vehicle -> Driver] /\ drivers'[v].rate \in Rate
      BY <2>2, <2>3 DEF Driver
    <2>5. CASE Transmits(drivers[v], batch)
      <3>1. /\ Len(sent) < MaxSent
            /\ sent' = Append(sent, v)
            /\ simIn' = Append(simIn, [from |-> v, rate |-> drivers'[v].rate, number |-> Len(sent')])
        BY <1>1, <2>5 DEF ReadsMail
      <3>2. sent' \in Seq(Vehicle) /\ Len(sent') <= MaxSent /\ Len(sent') \in Number
        BY <3>1, NetworkParameters DEF Number
      <3>3. [from |-> v, rate |-> drivers'[v].rate, number |-> Len(sent')] \in Transmission
        BY <2>4, <3>2 DEF Transmission
      <3>4. simIn' \in Seq(Transmission)
        BY <1>0, <3>1, <3>3
      <3> QED BY <1>0, <2>3, <2>4, <3>2, <3>4
    <2>6. CASE ~Transmits(drivers[v], batch)
      <3>1. UNCHANGED <<sent, simIn>>
        BY <1>1, <2>6 DEF ReadsMail
      <3> QED BY <2>3, <2>4, <3>1
    <2> QED BY <2>5, <2>6
  <1>2. ASSUME NEW v \in Vehicle, OnSimMail(v) PROVE TypeOK'
    <2> DEFINE post == Head(simOut[v])
    <2>1. simOut[v] \in Seq(SignalPost) /\ simOut[v] # <<>>
      BY <1>2 DEF OnSimMail, SignalPost
    <2>2. post \in SignalPost /\ Tail(simOut[v]) \in Seq(SignalPost)
      BY <2>1
    <2>3. (post.signal = "DATA" => post.of \in Number)
          /\ (post.signal # "DATA" => post.signal \in {"RXP", "TXF"})
      BY <2>2 DEF SignalPost, Post, NoPost
    <2>4. simOut' \in [Vehicle -> Seq(SignalPost)]
      BY <1>2, <2>2 DEF OnSimMail, SignalPost
    <2>5. CASE post.signal = "DATA"
      BY <1>2, <2>3, <2>4, <2>5 DEF OnSimMail, simVars, SignalPost
    <2>6. CASE post.signal # "DATA"
      BY <1>2, <2>3, <2>4, <2>6 DEF OnSimMail, simVars, SignalPost
    <2> QED BY <2>5, <2>6
  <1>3. ASSUME NEW v \in Vehicle, Iterates(v) PROVE TypeOK'
    <2>1. Signals(v) \in Seq(Signal)
      <3>1. raw[v] # "none" => raw[v] \in Signal
        BY DEF Signal
      <3>2. "DATA" \in Signal
        BY DEF Signal
      <3> HIDE DEF TypeOK
      <3> QED BY <3>1, <3>2 DEF Signals
    <2>2. Iterate(drivers[v], Signals(v)) \in Driver
      BY <2>1, IterateType
    <2>3. received' \in [Vehicle -> Seq(Number)]
      <3>1. reception[v] # 0 => Append(received[v], reception[v]) \in Seq(Number)
        OBVIOUS
      <3> QED BY <3>1, <1>3 DEF Iterates
    <2>4. drivers' \in [Vehicle -> Driver]
      BY <1>3, <2>2 DEF Iterates
    <2> QED BY <1>3, <2>3, <2>4 DEF Iterates, simVars
  <1>4. ASSUME NEW v \in Vehicle, HandleReport(v) PROVE TypeOK'
    BY <1>4, IdleType DEF HandleReport, driverVars, Modem
  <1>5. CASE SimReadsMail
    <2>1. Head(simIn) \in Transmission /\ Tail(simIn) \in Seq(Transmission)
      BY <1>0, <1>5 DEF SimReadsMail
    <2>2. ASSUME NEW deaf, HandleNewTransmission(Head(simIn), deaf)
          PROVE  sims' \in [Vehicle -> Modem]
      <3> DEFINE t == Head(simIn)
                 heard(v) == IF v \in Hearers(t, deaf)
                             THEN StartReception(sims[v], Flight[t.from][v], t.rate, t.number)
                             ELSE sims[v]
      <3>1. sims' = [v \in Vehicle |-> IF v = t.from
                                       THEN StartTransmission(Cleared(heard(v)), t.rate)
                                       ELSE heard(v)]
        BY <2>2 DEF HandleNewTransmission
      <3>2. ASSUME NEW v \in Vehicle PROVE heard(v) \in Modem
        BY <2>1, HeardType
      <3>3. t.rate \in Rate
        BY <2>1 DEF Transmission
      <3> HIDE DEF heard, t
      <3>4. ASSUME NEW v \in Vehicle PROVE Cleared(heard(v)) \in Modem
        BY <3>2, IdleType DEF Cleared, ClearQueue
      <3>5. ASSUME NEW v \in Vehicle PROVE StartTransmission(Cleared(heard(v)), t.rate) \in Modem
        BY <3>3, <3>4, TransmissionType
      <3> QED BY <3>1, <3>2, <3>5
    <2>3. sims' \in [Vehicle -> Modem]
      BY <1>5, <2>2 DEF SimReadsMail, Modem
    <2> QED BY <1>0, <1>5, <2>1, <2>3 DEF SimReadsMail, driverVars, Modem
  <1>6. ASSUME NEW v \in Vehicle, DoWork(v) PROVE TypeOK'
    <2>1. PICK n \in 1 .. Len(sims[v].queue) :
            /\ sims' = [sims EXCEPT ![v] = AfterWork(n, @)]
            /\ simOut' = [simOut EXCEPT ![v] = @ \o Posted(n, sims[v])]
      BY <1>6 DEF DoWork
    <2>2. sims[v] \in Modem /\ sims[v].queue \in Seq(Event)
      BY DEF Modem
    <2>3. AfterWork(n, sims[v]) \in Modem
      BY <2>2, WorkedType
    <2>4. Posted(n, sims[v]) \in Seq(Post \ {NoPost})
      BY <2>2, PostedIs DEF SignalPost
    <2>5. sims' \in [Vehicle -> [state : SimState, queue : Seq(Event)]]
      BY <2>1, <2>3 DEF Modem
    <2>6. simOut[v] \o Posted(n, sims[v]) \in Seq(Post \ {NoPost})
      BY <2>4
    <2>7. simOut' \in [Vehicle -> Seq(Post \ {NoPost})]
      BY <2>1, <2>6
    <2> QED BY <1>6, <2>5, <2>7 DEF DoWork, driverVars
  <1>7. CASE Tick
    <2>1. \A v \in Vehicle : Older(drivers[v]) \in Driver
      BY OlderType
    <2>2. \A v \in Vehicle : Closer(sims[v]) \in Modem
      BY CloserType DEF Modem
    <2> QED BY <1>7, <2>1, <2>2 DEF Tick, Modem
  <1>8. CASE UNCHANGED vars
    BY <1>8 DEF vars, driverVars, simVars
  <1> QED BY <1>1, <1>2, <1>3, <1>4, <1>5, <1>6, <1>7, <1>8 DEF Next

\* Whatever mail the drivers get and whatever the simulator drops, the drivers, the posts
\* between them and the modems' queues keep the types the program gives them.
THEOREM TypeCorrect == Spec => []TypeOK
  BY TypesInitially, TypesInductive, PTL DEF Spec
-----------------------------------------------------------------------------
(* No transmission is received twice *)

\* Precedes: the numbers along s, where there are any, are below those along t.
Precedes(s, t) == \A i \in DOMAIN s, j \in DOMAIN t : s[i] # 0 /\ t[j] # 0 => s[i] < t[j]

Asked(q) == [i \in DOMAIN q |-> q[i].number]

\* Two pieces that ascend, one before the other, ascend together.
LEMMA AscendsJoined ==
  ASSUME NEW m \in Nat, NEW n \in Nat, NEW s, NEW t, NEW u,
         DOMAIN s = 1 .. m, DOMAIN t = 1 .. n, DOMAIN u = 1 .. (m + n),
         \A i \in 1 .. m : u[i] = s[i], \A j \in 1 .. n : u[m + j] = t[j],
         Ascends(s), Ascends(t), Precedes(s, t)
  PROVE  Ascends(u)
  <1> SUFFICES ASSUME NEW i \in 1 .. (m + n), NEW j \in 1 .. (m + n), i < j, u[i] # 0, u[j] # 0
               PROVE  u[i] < u[j]
    BY DEF Ascends
  <1>1. CASE j \in 1 .. m
    BY <1>1 DEF Ascends
  <1>2. CASE i \in 1 .. m /\ j \notin 1 .. m
    <2>1. j - m \in 1 .. n /\ m + (j - m) = j
      BY <1>2
    <2>2. u[j] = t[j - m]
      BY <2>1
    <2> QED BY <1>2, <2>1, <2>2 DEF Precedes
  <1>3. CASE i \notin 1 .. m
    <2>1. i - m \in 1 .. n /\ j - m \in 1 .. n /\ i - m < j - m /\ m + (i - m) = i /\ m + (j - m) = j
      BY <1>3
    <2>2. u[i] = t[i - m] /\ u[j] = t[j - m]
      BY <2>1
    <2> QED BY <2>1, <2>2 DEF Ascends
  <1> QED BY <1>1, <1>2, <1>3

\* A piece of what ascends does.
LEMMA AscendsPart ==
  ASSUME NEW k \in Nat, NEW n \in Nat, NEW s, NEW t, DOMAIN t = 1 .. n,
         \A i \in 1 .. n : k + i \in DOMAIN s /\ t[i] = s[k + i], Ascends(s)
  PROVE  Ascends(t)
  <1> SUFFICES ASSUME NEW i \in 1 .. n, NEW j \in 1 .. n, i < j, t[i] # 0, t[j] # 0
               PROVE  t[i] < t[j]
    BY DEF Ascends
  <1>1. k + i < k + j
    OBVIOUS
  <1> QED BY <1>1 DEF Ascends

\* Among: the numbers along s are among those along t or u.
Among(s, t, u) == \A i \in DOMAIN s : s[i] # 0 =>
  (\E j \in DOMAIN t : s[i] = t[j]) \/ (\E j \in DOMAIN u : s[i] = u[j])

LEMMA AmongItself == \A s : Among(s, s, s)
  BY DEF Among

\* An order is inherited by what is among the ordered.
LEMMA PrecedesFirst ==
  ASSUME NEW s, NEW s1, NEW s2, Among(s, s1, s2), NEW t, Precedes(s1, t), Precedes(s2, t)
  PROVE  Precedes(s, t)
  BY DEF Among, Precedes

LEMMA PrecedesSecond ==
  ASSUME NEW s, NEW t, NEW t1, NEW t2, Among(t, t1, t2), Precedes(s, t1), Precedes(s, t2)
  PROVE  Precedes(s, t)
  BY DEF Among, Precedes

\* The way of the numbers to a vehicle: asked of the simulator, coming in its modem's queue,
\* in the posts to its driver, heard by the driver's mail client, got by Iterate.  They
\* ascend at each place, and those further on are below those behind.
Line(got, heard, posts, coming, asked) ==
  /\ Ascends(got) /\ Ascends(posts) /\ Ascends(coming) /\ Ascends(asked)
  /\ Precedes(got, heard) /\ Precedes(got, posts) /\ Precedes(got, coming) /\ Precedes(got, asked)
  /\ Precedes(heard, posts) /\ Precedes(heard, coming) /\ Precedes(heard, asked)
  /\ Precedes(posts, coming) /\ Precedes(posts, asked)
  /\ Precedes(coming, asked)

\* Each step moves numbers on from one place to the next.
LEMMA GotMore ==
  ASSUME NEW got, NEW heard, NEW posts, NEW coming, NEW asked,
         Line(got, heard, posts, coming, asked),
         NEW more, Ascends(more), Among(more, got, heard)
  PROVE  Line(more, <<0>>, posts, coming, asked)
  <1>1. \A t : Precedes(<<0>>, t) /\ Precedes(t, <<0>>)
    BY DEF Precedes
  <1>2. /\ Precedes(more, posts) /\ Precedes(more, coming) /\ Precedes(more, asked)
    BY PrecedesFirst DEF Line
  <1> QED BY <1>1, <1>2 DEF Line

LEMMA HeardNext ==
  ASSUME NEW got, NEW heard, NEW posts, NEW coming, NEW asked,
         Line(got, heard, posts, coming, asked),
         NEW next, NEW rest, Ascends(rest), Precedes(next, rest),
         Among(next, posts, posts), Among(rest, posts, posts)
  PROVE  Line(got, next, rest, coming, asked)
  <1>1. /\ Precedes(next, coming) /\ Precedes(next, asked)
        /\ Precedes(rest, coming) /\ Precedes(rest, asked)
    BY PrecedesFirst DEF Line
  <1>2. Precedes(got, next) /\ Precedes(got, rest)
    BY PrecedesSecond DEF Line
  <1> QED BY <1>1, <1>2 DEF Line

LEMMA PostsMore ==
  ASSUME NEW got, NEW heard, NEW posts, NEW coming, NEW asked,
         Line(got, heard, posts, coming, asked),
         NEW more, NEW rest, Ascends(more), Ascends(rest), Precedes(more, rest),
         Among(more, posts, coming), Among(rest, coming, coming)
  PROVE  Line(got, heard, more, rest, asked)
  <1>1. Precedes(more, asked) /\ Precedes(rest, asked)
    BY PrecedesFirst DEF Line
  <1>2. /\ Precedes(got, more) /\ Precedes(heard, more)
        /\ Precedes(got, rest) /\ Precedes(heard, rest)
    BY PrecedesSecond DEF Line
  <1> QED BY <1>1, <1>2 DEF Line

LEMMA ComesMore ==
  ASSUME NEW got, NEW heard, NEW posts, NEW coming, NEW asked,
         Line(got, heard, posts, coming, asked),
         NEW more, NEW rest, Ascends(more), Ascends(rest), Precedes(more, rest),
         Among(more, coming, asked), Among(rest, asked, asked)
  PROVE  Line(got, heard, posts, more, rest)
  <1>1. Precedes(got, more) /\ Precedes(heard, more) /\ Precedes(posts, more)
    BY PrecedesSecond DEF Line
  <1>2. Precedes(got, rest) /\ Precedes(heard, rest) /\ Precedes(posts, rest)
    BY PrecedesSecond DEF Line
  <1> QED BY <1>1, <1>2 DEF Line

LEMMA AskedMore ==
  ASSUME NEW got, NEW heard, NEW posts, NEW coming, NEW asked,
         Line(got, heard, posts, coming, asked),
         NEW n, NEW more, Ascends(more), Among(more, asked, <<n>>),
         Precedes(got, <<n>>), Precedes(heard, <<n>>), Precedes(posts, <<n>>), Precedes(coming, <<n>>)
  PROVE  Line(got, heard, posts, coming, more)
  <1>1. Precedes(got, more) /\ Precedes(heard, more) /\ Precedes(posts, more) /\ Precedes(coming, more)
    BY PrecedesSecond DEF Line
  <1> QED BY <1>1 DEF Line

\* The numbers along s are those of transmissions by other vehicles than v.
OfOthers(s, v, by) == \A i \in DOMAIN s : s[i] # 0 => s[i] \in 1 .. Len(by) /\ by[s[i]] # v

OnTheWay(v) ==
  /\ Line(received[v], <<reception[v]>>, Posts(simOut[v]), Coming(sims[v].queue), Asked(simIn))
  /\ OfOthers(received[v], v, sent)
  /\ OfOthers(<<reception[v]>>, v, sent)
  /\ OfOthers(Posts(simOut[v]), v, sent)
  /\ OfOthers(Coming(sims[v].queue), v, sent)

AskedBySender ==
  \A i \in DOMAIN simIn : simIn[i].number <= Len(sent) /\ simIn[i].from = sent[simIn[i].number]

\* The inductive invariant.
Once == TypeOK /\ AskedBySender /\ \A v \in Vehicle : OnTheWay(v)

LEMMA OthersAmong ==
  ASSUME NEW s, NEW t, NEW u, Among(s, t, u), NEW v, NEW by, OfOthers(t, v, by), OfOthers(u, v, by)
  PROVE  OfOthers(s, v, by)
  BY DEF Among, OfOthers

LEMMA OthersStay ==
  ASSUME NEW by \in Seq(Vehicle), NEW w \in Vehicle, NEW s, NEW v, OfOthers(s, v, by)
  PROVE  OfOthers(s, v, Append(by, w))
  <1>1. Len(Append(by, w)) = Len(by) + 1 /\ \A n \in 1 .. Len(by) : Append(by, w)[n] = by[n]
    OBVIOUS
  <1>2. Len(by) \in Nat
    OBVIOUS
  <1> QED BY <1>1, <1>2 DEF OfOthers

\* What is on its way was sent, and comes before what is sent next.
LEMMA BeforeTheNext ==
  ASSUME NEW by \in Seq(Vehicle), NEW s, NEW v, OfOthers(s, v, by)
  PROVE  Precedes(s, <<Len(by) + 1>>)
  <1>1. Len(by) \in Nat
    OBVIOUS
  <1> QED BY <1>1 DEF OfOthers, Precedes

LEMMA EmptyAscends ==
  ASSUME NEW s, DOMAIN s = {}
  PROVE  Ascends(s) /\ (\A t : Precedes(s, t) /\ Precedes(t, s)) /\ (\A t, u : Among(s, t, u))
  BY DEF Ascends, Precedes, Among

\* Of the three events that are queued together the last one has the number.
LEMMA QueuedNumbers ==
  ASSUME NEW q \in Seq(Event), NEW x, NEW y, NEW z, x.to_post.of = 0, y.to_post.of = 0,
         Ascends(Coming(q)), Precedes(Coming(q), <<z.to_post.of>>)
  PROVE  LET c == Coming(q \o <<x, y, z>>) IN
           Ascends(c) /\ Among(c, Coming(q), <<z.to_post.of>>)
  <1> DEFINE n == z.to_post.of
             r == q \o <<x, y, z>>
             t == <<0, 0, n>>
  <1>1. q \in Seq(Event \cup {x, y, z})
    OBVIOUS
  <1>2. /\ Len(q) \in Nat /\ DOMAIN q = 1 .. Len(q) /\ DOMAIN r = 1 .. (Len(q) + 3)
        /\ \A i \in 1 .. Len(q) : r[i] = q[i]
        /\ r[Len(q) + 1] = x /\ r[Len(q) + 2] = y /\ r[Len(q) + 3] = z
    BY <1>1
  <1> HIDE DEF r
  <1>3. /\ DOMAIN t = 1 .. 3 /\ t[1] = 0 /\ t[2] = 0 /\ t[3] = n
    OBVIOUS
  <1> HIDE DEF t
  <1>4. /\ DOMAIN Coming(r) = 1 .. (Len(q) + 3) /\ DOMAIN Coming(q) = 1 .. Len(q)
        /\ \A i \in 1 .. Len(q) : Coming(r)[i] = Coming(q)[i]
        /\ \A j \in 1 .. 3 : Coming(r)[Len(q) + j] = t[j]
    BY <1>2, <1>3 DEF Coming
  <1>5. Ascends(t) /\ Precedes(Coming(q), t)
    BY <1>3 DEF Ascends, Precedes
  <1>6. Ascends(Coming(r))
    BY <1>2, <1>3, <1>4, <1>5, 3 \in Nat, AscendsJoined
  <1>7. ASSUME NEW i \in 1 .. (Len(q) + 3), Coming(r)[i] # 0
        PROVE  (\E j \in 1 .. Len(q) : Coming(r)[i] = Coming(q)[j]) \/ Coming(r)[i] = n
    <2>1. CASE i \in 1 .. Len(q)
      BY <2>1, <1>4
    <2>2. CASE i \in {Len(q) + 1, Len(q) + 2, Len(q) + 3}
      BY <2>2, <1>3, <1>4, <1>7
    <2> QED BY <2>1, <2>2, <1>2
  <1>8. Among(Coming(r), Coming(q), <<n>>)
    <2>1. 1 \in DOMAIN <<n>> /\ <<n>>[1] = n
      OBVIOUS
    <2> HIDE DEF n
    <2> QED BY <2>1, <1>4, <1>7 DEF Among
  <1> QED BY <1>6, <1>8 DEF r

LEMMA ReceptionNumbers ==
  ASSUME NEW sim \in Modem, NEW start, NEW rate, NEW n, Ascends(Coming(sim.queue)),
         Precedes(Coming(sim.queue), <<n>>)
  PROVE  LET c == Coming(StartReception(sim, start, rate, n).queue) IN
           Ascends(c) /\ Among(c, Coming(sim.queue), <<n>>)
  <1>1. CASE sim.state # "READY"
    BY <1>1 DEF StartReception, Among
  <1>2. CASE sim.state = "READY"
    <2> DEFINE x == At(start, "RECEIVING_SOUND", "RXP", 0)
               y == At(start + TransmitLength(rate), "RECEIVING_PARSE", "none", 0)
               z == At(start + TransmitLength(rate) + ParseTime, "READY", "DATA", n)
    <2>1. x.to_post.of = 0 /\ y.to_post.of = 0 /\ z.to_post.of = n
      BY DEF At
    <2>2. StartReception(sim, start, rate, n).queue = sim.queue \o <<x, y, z>>
      BY <1>2 DEF StartReception
    <2>3. sim.queue \in Seq(Event)
      BY DEF Modem
    <2> HIDE DEF x, y, z
    <2> QED BY <2>1, <2>2, <2>3, QueuedNumbers
  <1> QED BY <1>1, <1>2

LEMMA TransmissionNumbers ==
  ASSUME NEW sim \in Modem, NEW rate, Ascends(Coming(sim.queue))
  PROVE  LET c == Coming(StartTransmission(sim, rate).queue) IN
           Ascends(c) /\ Among(c, Coming(sim.queue), Coming(sim.queue))
  <1>1. CASE sim.state # "READY"
    BY <1>1 DEF StartTransmission, Among
  <1>2. CASE sim.state = "READY"
    <2> DEFINE x == At(0, "TRANSMIT_POSTED", "none", 0)
               y == At(PostToTransmitDelay, "TRANSMIT_STARTED", "none", 0)
               z == At(PostToTransmitDelay + TransmitLength(rate), "READY", "TXF", 0)
               c == Coming(sim.queue \o <<x, y, z>>)
    <2>1. x.to_post.of = 0 /\ y.to_post.of = 0 /\ z.to_post.of = 0
      BY DEF At
    <2>2. StartTransmission(sim, rate).queue = sim.queue \o <<x, y, z>>
      BY <1>2 DEF StartTransmission
    <2>3. sim.queue \in Seq(Event) /\ Precedes(Coming(sim.queue), <<0>>)
      BY DEF Modem, Precedes
    <2> HIDE DEF x, y, z
    <2>4. Ascends(c) /\ Among(c, Coming(sim.queue), <<0>>)
      BY <2>1, <2>3, QueuedNumbers
    <2>5. Among(c, Coming(sim.queue), Coming(sim.queue))
      <3> HIDE DEF c
      <3> QED BY <2>4 DEF Among
    <2> QED BY <2>2, <2>4, <2>5
  <1> QED BY <1>1, <1>2

\* Cleared drops what is coming, or nothing.
LEMMA ClearedNumbers ==
  ASSUME NEW sim \in Modem, Ascends(Coming(sim.queue))
  PROVE  LET c == Coming(Cleared(sim).queue) IN
           Ascends(c) /\ Among(c, Coming(sim.queue), Coming(sim.queue))
  <1>1. DOMAIN Coming(Idle.queue) = {}
    BY DEF Idle, Coming
  <1>2. Ascends(Coming(Idle.queue)) /\ Among(Coming(Idle.queue), Coming(sim.queue), Coming(sim.queue))
    BY <1>1, EmptyAscends
  <1> QED BY <1>2, AmongItself DEF Cleared, ClearQueue

LEMMA OnceInitially == Init => Once
  <1> SUFFICES ASSUME Init PROVE Once
    OBVIOUS
  <1>1. TypeOK
    BY TypesInitially
  <1>2. AskedBySender
    BY DEF Init, AskedBySender
  <1>3. ASSUME NEW v \in Vehicle PROVE OnTheWay(v)
    <2>1. /\ DOMAIN received[v] = {} /\ DOMAIN Posts(simOut[v]) = {}
          /\ DOMAIN Coming(sims[v].queue) = {} /\ DOMAIN Asked(simIn) = {}
      BY DEF Init, Posts, Coming, Asked, Idle
    <2>2. <<reception[v]>>[1] = 0 /\ DOMAIN <<reception[v]>> = {1}
      BY DEF Init
    <2>3. Line(received[v], <<reception[v]>>, Posts(simOut[v]), Coming(sims[v].queue), Asked(simIn))
      BY <2>1, <2>2 DEF Line, Ascends, Precedes
    <2> QED BY <2>1, <2>2, <2>3 DEF OnTheWay, OfOthers
  <1> QED BY <1>1, <1>2, <1>3 DEF Once

\* A driver that transmits asks with a number above all that are on their way.
LEMMA OnceReadsMail ==
  ASSUME Once, TypeOK', NEW v \in Vehicle, NEW batch \in Batch, ReadsMail(v, batch)
  PROVE  Once'
  <1>1. UNCHANGED <<reception, received, simOut, sims>>
    BY DEF ReadsMail, simVars
  <1>2. CASE ~Transmits(drivers[v], batch)
    <2>1. UNCHANGED <<sent, simIn>>
      BY <1>2 DEF ReadsMail
    <2> QED BY <1>1, <2>1 DEF Once, AskedBySender, OnTheWay
  <1>3. CASE Transmits(drivers[v], batch)
    <2> DEFINE n == Len(sent) + 1
               t == [from |-> v, rate |-> drivers'[v].rate, number |-> n]
    <2>1. sent \in Seq(Vehicle) /\ Len(sent) \in Nat /\ simIn \in Seq(Transmission)
      BY DEF Once, TypeOK, Transmission
    <2>2. sent' = Append(sent, v) /\ Len(sent') = n
      BY <1>3, <2>1 DEF ReadsMail
    <2>3. /\ \A k \in 1 .. Len(sent) : sent'[k] = sent[k]
          /\ sent'[n] = v
      BY <2>1, <2>2
    <2>4. simIn' = Append(simIn, t)
      BY <1>3, <2>2 DEF ReadsMail
    <2> HIDE DEF t
    <2>5. /\ Len(simIn) \in Nat /\ DOMAIN simIn = 1 .. Len(simIn)
          /\ DOMAIN simIn' = 1 .. (Len(simIn) + 1)
          /\ \A i \in 1 .. Len(simIn) : simIn'[i] = simIn[i] /\ simIn[i] \in Transmission
          /\ simIn'[Len(simIn) + 1] = t
      <3>1. simIn \in Seq(Transmission \cup {t})
        BY <2>1
      <3> QED BY <2>1, <2>4, <3>1
    <2>6. \A i \in 1 .. Len(simIn) : simIn[i].number \in Nat \ {0} /\ simIn[i].number <= Len(sent)
                                     /\ simIn[i].from = sent[simIn[i].number]
      BY <2>5, NetworkParameters DEF Once, AskedBySender, Transmission, Number
    <2>7. t.number = n /\ t.from = v
      BY DEF t
    <2>8. AskedBySender'
      BY <2>1, <2>2, <2>3, <2>5, <2>6, <2>7 DEF AskedBySender
    <2> HIDE DEF n
    <2>9. /\ DOMAIN Asked(simIn) = 1 .. Len(simIn) /\ DOMAIN Asked(simIn') = 1 .. (Len(simIn) + 1)
          /\ \A i \in 1 .. Len(simIn) : Asked(simIn')[i] = Asked(simIn)[i]
          /\ Asked(simIn')[Len(simIn) + 1] = n
      BY <2>5, <2>7 DEF Asked
    <2>10. DOMAIN <<n>> = 1 .. 1 /\ <<n>>[1] = n /\ 1 \in 1 .. 1
      OBVIOUS
    <2>11. Precedes(Asked(simIn), <<n>>) /\ Ascends(<<n>>)
      BY <2>1, <2>6, <2>9, <2>10 DEF n, Asked, Precedes, Ascends
    <2>12. Among(Asked(simIn'), Asked(simIn), <<n>>)
      BY <2>5, <2>9, <2>10 DEF Among
    <2>13. ASSUME NEW w \in Vehicle PROVE OnTheWay(w)'
      <3>1. OnTheWay(w)
        BY DEF Once
      <3>2. Ascends(Asked(simIn))
        BY <3>1 DEF OnTheWay, Line
      <3>3. Ascends(Asked(simIn'))
        <4>1. \A j \in 1 .. 1 : Asked(simIn')[Len(simIn) + j] = <<n>>[j]
          BY <2>9, <2>10
        <4> QED BY <2>5, <2>9, <2>10, <2>11, <3>2, <4>1, 1 \in Nat, AscendsJoined
      <3>4. /\ Precedes(received[w], <<n>>) /\ Precedes(<<reception[w]>>, <<n>>)
            /\ Precedes(Posts(simOut[w]), <<n>>) /\ Precedes(Coming(sims[w].queue), <<n>>)
        BY <2>1, <3>1, BeforeTheNext DEF OnTheWay, n
      <3>5. Line(received[w], <<reception[w]>>, Posts(simOut[w]), Coming(sims[w].queue), Asked(simIn'))
        BY <2>12, <3>1, <3>3, <3>4, AskedMore DEF OnTheWay
      <3>6. /\ OfOthers(received[w], w, sent') /\ OfOthers(<<reception[w]>>, w, sent')
            /\ OfOthers(Posts(simOut[w]), w, sent') /\ OfOthers(Coming(sims[w].queue), w, sent')
        BY <2>1, <2>2, <3>1, OthersStay DEF OnTheWay
      <3> QED BY <1>1, <3>5, <3>6 DEF OnTheWay
    <2> QED BY <2>8, <2>13 DEF Once
  <1> QED BY <1>2, <1>3

\* The post that comes first is heard, or drops what was.
LEMMA OnceOnSimMail ==
  ASSUME Once, TypeOK', NEW v \in Vehicle, OnSimMail(v)
  PROVE  Once'
  <1>1. UNCHANGED <<received, sims, simIn, sent>>
    BY DEF OnSimMail, simVars
  <1>2. AskedBySender'
    BY <1>1 DEF Once, AskedBySender
  <1>3. ASSUME NEW w \in Vehicle, w # v PROVE OnTheWay(w)'
    <2>1. reception'[w] = reception[w] /\ simOut'[w] = simOut[w]
      BY <1>3 DEF OnSimMail, Once, TypeOK
    <2> QED BY <1>1, <2>1 DEF Once, OnTheWay
  <1>4. OnTheWay(v)'
    <2> DEFINE q == simOut[v]
               post == Head(q)
    <2>1. q \in Seq(SignalPost) /\ q # <<>> /\ simOut'[v] = Tail(q)
      BY DEF OnSimMail, Once, TypeOK, SignalPost
    <2>2. OnTheWay(v)
      BY DEF Once
    <2>3. /\ reception'[v] = IF post.signal = "DATA" THEN post.of ELSE reception[v]
      BY DEF OnSimMail, Once, TypeOK
    <2>4. post.signal # "DATA" => post.of = 0
      <3>1. post \in Post
        BY <2>1 DEF SignalPost
      <3> QED BY <3>1 DEF Post, NoPost
    <2> HIDE DEF q
    <2>5. /\ Len(q) \in Nat \ {0} /\ DOMAIN q = 1 .. Len(q) /\ DOMAIN Tail(q) = 1 .. (Len(q) - 1)
          /\ \A i \in 1 .. (Len(q) - 1) : Tail(q)[i] = q[1 + i]
          /\ post = q[1]
      BY <2>1
    <2> HIDE DEF post
    <2>6. /\ DOMAIN Posts(q) = 1 .. Len(q) /\ DOMAIN Posts(Tail(q)) = 1 .. (Len(q) - 1)
          /\ \A i \in 1 .. (Len(q) - 1) : Posts(Tail(q))[i] = Posts(q)[1 + i]
          /\ post.of = Posts(q)[1]
          /\ \A i \in 1 .. (Len(q) - 1) : 1 + i \in 1 .. Len(q)
      BY <2>5 DEF Posts
    <2>7. Ascends(Posts(q))
      BY <2>2 DEF OnTheWay, Line, q
    <2>8. Ascends(Posts(Tail(q)))
      <3>1. 1 \in Nat /\ Len(q) - 1 \in Nat
        BY <2>5
      <3> QED BY <2>6, <2>7, <3>1, AscendsPart
    <2>9. Among(Posts(Tail(q)), Posts(q), Posts(q))
      BY <2>6 DEF Among
    <2>10. CASE post.signal = "DATA"
      <3> DEFINE next == <<post.of>>
      <3>1. DOMAIN next = {1} /\ next[1] = post.of /\ 1 \in 1 .. Len(q)
        BY <2>5
      <3> HIDE DEF next
      <3>2. Precedes(next, Posts(Tail(q)))
        <4>1. \A i \in 1 .. (Len(q) - 1) : 1 < 1 + i
          OBVIOUS
        <4> QED BY <2>6, <2>7, <3>1, <4>1 DEF Ascends, Precedes
      <3>3. Among(next, Posts(q), Posts(q))
        BY <2>6, <3>1 DEF Among
      <3>4. Line(received[v], next, Posts(Tail(q)), Coming(sims[v].queue), Asked(simIn))
        BY <2>2, <2>8, <2>9, <3>2, <3>3, HeardNext DEF OnTheWay, q
      <3>5. OfOthers(next, v, sent) /\ OfOthers(Posts(Tail(q)), v, sent)
        BY <2>2, <2>9, <3>3, OthersAmong DEF OnTheWay, q
      <3> QED BY <1>1, <2>1, <2>2, <2>3, <2>10, <3>4, <3>5 DEF OnTheWay, next
    <2>11. CASE post.signal # "DATA"
      <3>1. Line(received[v], <<reception[v]>>, Posts(Tail(q)), Coming(sims[v].queue), Asked(simIn))
        <4> DEFINE heard == <<reception[v]>>
        <4>1. Line(received[v], heard, Posts(q), Coming(sims[v].queue), Asked(simIn))
          BY <2>2 DEF OnTheWay, q
        <4> HIDE DEF heard
        <4>2. /\ Precedes(received[v], Posts(Tail(q))) /\ Precedes(heard, Posts(Tail(q)))
              /\ Precedes(Posts(Tail(q)), Coming(sims[v].queue))
              /\ Precedes(Posts(Tail(q)), Asked(simIn))
          BY <2>9, <4>1, PrecedesFirst, PrecedesSecond DEF Line
        <4>3. Line(received[v], heard, Posts(Tail(q)), Coming(sims[v].queue), Asked(simIn))
          BY <2>8, <4>1, <4>2 DEF Line
        <4> QED BY <4>3 DEF heard
      <3>2. OfOthers(Posts(Tail(q)), v, sent)
        BY <2>2, <2>9, OthersAmong DEF OnTheWay, q
      <3> QED BY <1>1, <2>1, <2>2, <2>3, <2>11, <3>1, <3>2 DEF OnTheWay
    <2> QED BY <2>10, <2>11
  <1> QED BY <1>2, <1>3, <1>4 DEF Once

\* What was heard comes after all that was got.
LEMMA OnceIterates ==
  ASSUME Once, TypeOK', NEW v \in Vehicle, Iterates(v)
  PROVE  Once'
  <1>1. UNCHANGED <<simOut, sims, simIn, sent>>
    BY DEF Iterates, simVars
  <1>2. AskedBySender'
    BY <1>1 DEF Once, AskedBySender
  <1>3. ASSUME NEW w \in Vehicle, w # v PROVE OnTheWay(w)'
    <2>1. reception'[w] = reception[w] /\ received'[w] = received[w]
      BY <1>3 DEF Iterates, Once, TypeOK
    <2> QED BY <1>1, <2>1 DEF Once, OnTheWay
  <1>4. OnTheWay(v)'
    <2> DEFINE got == received[v]
               heard == <<reception[v]>>
               more == received'[v]
    <2>1. /\ got \in Seq(Number) /\ reception[v] \in {0} \cup Number /\ reception'[v] = 0
          /\ more = IF reception[v] = 0 THEN got ELSE Append(got, reception[v])
      BY DEF Iterates, Once, TypeOK
    <2>2. OnTheWay(v)
      BY DEF Once
    <2>3. Line(got, heard, Posts(simOut[v]), Coming(sims[v].queue), Asked(simIn))
      BY <2>2 DEF OnTheWay
    <2>4. DOMAIN heard = 1 .. 1 /\ heard[1] = reception[v]
      OBVIOUS
    <2>5. Ascends(more) /\ Among(more, got, heard)
      <3>1. CASE reception[v] = 0
        BY <3>1, <2>1, <2>3 DEF Line, Among
      <3>2. CASE reception[v] # 0
        <4>1. /\ Len(got) \in Nat /\ DOMAIN got = 1 .. Len(got)
              /\ DOMAIN more = 1 .. (Len(got) + 1)
              /\ \A i \in 1 .. Len(got) : more[i] = got[i]
              /\ more[Len(got) + 1] = reception[v]
          BY <2>1, <3>2
        <4> HIDE DEF got, heard, more
        <4>2. \A j \in 1 .. 1 : more[Len(got) + j] = heard[j]
          BY <2>4, <4>1
        <4>3. Ascends(heard)
          BY <2>4 DEF Ascends
        <4>4. Ascends(more)
          BY <2>3, <2>4, <4>1, <4>2, <4>3, 1 \in Nat, AscendsJoined DEF Line
        <4>5. Among(more, got, heard)
          BY <2>4, <4>1 DEF Among
        <4> QED BY <4>4, <4>5
      <3> QED BY <3>1, <3>2
    <2> HIDE DEF got, heard, more
    <2>6. Line(more, <<0>>, Posts(simOut[v]), Coming(sims[v].queue), Asked(simIn))
      BY <2>3, <2>5, GotMore
    <2>7. OfOthers(more, v, sent)
      BY <2>2, <2>5, OthersAmong DEF OnTheWay, got, heard
    <2>8. OfOthers(<<0>>, v, sent)
      BY DEF OfOthers
    <2> QED BY <1>1, <2>1, <2>2, <2>6, <2>7, <2>8 DEF OnTheWay, more
  <1> QED BY <1>2, <1>3, <1>4 DEF Once

\* What changes in the modems alone.
LEMMA OnceComing ==
  ASSUME Once, TypeOK', AskedBySender', UNCHANGED <<received, reception, simOut, sent>>,
         \A v \in Vehicle :
           LET more == Coming(sims'[v].queue)
               rest == Asked(simIn')
           IN  /\ Ascends(more) /\ Ascends(rest) /\ Precedes(more, rest)
               /\ Among(more, Coming(sims[v].queue), Asked(simIn))
               /\ Among(rest, Asked(simIn), Asked(simIn))
               /\ OfOthers(more, v, sent)
  PROVE  Once'
  <1>1. ASSUME NEW v \in Vehicle PROVE OnTheWay(v)'
    <2>1. OnTheWay(v)
      BY DEF Once
    <2>2. Line(received[v], <<reception[v]>>, Posts(simOut[v]), Coming(sims'[v].queue), Asked(simIn'))
      BY <2>1, ComesMore DEF OnTheWay
    <2> QED BY <2>1, <2>2 DEF OnTheWay
  <1> QED BY <1>1 DEF Once

\* A modem that was cleared, or only a moment older.
LEMMA OnceSameOrIdle ==
  ASSUME Once, TypeOK', UNCHANGED <<received, reception, simOut, sent, simIn>>,
         \A v \in Vehicle : Coming(sims'[v].queue) = Coming(sims[v].queue) \/ sims'[v] = Idle
  PROVE  Once'
  <1>1. AskedBySender'
    BY DEF Once, AskedBySender
  <1>2. ASSUME NEW v \in Vehicle
        PROVE  LET more == Coming(sims'[v].queue) IN
                 /\ Ascends(more) /\ Ascends(Asked(simIn')) /\ Precedes(more, Asked(simIn'))
                 /\ Among(more, Coming(sims[v].queue), Asked(simIn))
                 /\ Among(Asked(simIn'), Asked(simIn), Asked(simIn))
                 /\ OfOthers(more, v, sent)
    <2>1. OnTheWay(v)
      BY DEF Once
    <2>2. /\ Ascends(Coming(sims[v].queue)) /\ Ascends(Asked(simIn))
          /\ Precedes(Coming(sims[v].queue), Asked(simIn)) /\ OfOthers(Coming(sims[v].queue), v, sent)
      BY <2>1 DEF OnTheWay, Line
    <2>3. Among(Asked(simIn'), Asked(simIn), Asked(simIn))
      BY AmongItself
    <2>4. CASE Coming(sims'[v].queue) = Coming(sims[v].queue)
      <3>1. Among(Coming(sims[v].queue), Coming(sims[v].queue), Asked(simIn))
        BY DEF Among
      <3> QED BY <2>2, <2>3, <2>4, <3>1
    <2>5. CASE sims'[v] = Idle
      <3>1. DOMAIN Coming(sims'[v].queue) = {}
        BY <2>5 DEF Idle, Coming
      <3>2. OfOthers(Coming(sims'[v].queue), v, sent)
        BY <3>1 DEF OfOthers
      <3> QED BY <2>2, <2>3, <3>1, <3>2, EmptyAscends
    <2> QED BY <2>4, <2>5
  <1> QED BY <1>1, <1>2, OnceComing

\* The first that was asked comes to others than the vehicle that asked.
LEMMA OnceSimReadsMail ==
  ASSUME Once, TypeOK', SimReadsMail
  PROVE  Once'
  <1> DEFINE t == Head(simIn)
             n == t.number
             rest == Asked(simIn')
  <1>1. simIn \in Seq(Transmission) /\ simIn # <<>> /\ simIn' = Tail(simIn)
    BY DEF SimReadsMail, Once, TypeOK, Transmission
  <1>2. UNCHANGED <<received, reception, simOut, sent>>
    BY DEF SimReadsMail, driverVars
  <1>3. /\ Len(simIn) \in Nat \ {0} /\ DOMAIN simIn = 1 .. Len(simIn)
        /\ DOMAIN simIn' = 1 .. (Len(simIn) - 1)
        /\ \A i \in 1 .. (Len(simIn) - 1) : simIn'[i] = simIn[1 + i] /\ 1 + i \in 1 .. Len(simIn)
        /\ t = simIn[1] /\ t \in Transmission /\ 1 \in 1 .. Len(simIn)
    BY <1>1
  <1> HIDE DEF t
  <1>4. AskedBySender'
    BY <1>2, <1>3 DEF Once, AskedBySender
  <1>5. /\ DOMAIN Asked(simIn) = 1 .. Len(simIn) /\ DOMAIN rest = 1 .. (Len(simIn) - 1)
        /\ \A i \in 1 .. (Len(simIn) - 1) : rest[i] = Asked(simIn)[1 + i]
        /\ n = Asked(simIn)[1]
    BY <1>3 DEF Asked
  <1>6. n \in 1 .. Len(sent) /\ sent[n] = t.from /\ t.from \in Vehicle
    <2>1. n \in Nat \ {0} /\ t.from \in Vehicle
      BY <1>3, NetworkParameters DEF Transmission, Number
    <2>2. n <= Len(sent) /\ sent[n] = t.from
      BY <1>3 DEF Once, AskedBySender
    <2>3. Len(sent) \in Nat
      BY DEF Once, TypeOK
    <2> QED BY <2>1, <2>2, <2>3
  <1> HIDE DEF n, rest
  <1>7. Among(rest, Asked(simIn), Asked(simIn))
    BY <1>3, <1>5 DEF Among
  <1>8. DOMAIN <<n>> = {1} /\ <<n>>[1] = n
    OBVIOUS
  \* What may come of t, for each modem.
  <1>9. ASSUME NEW v \in Vehicle, NEW more, Ascends(more),
               \/ Among(more, Coming(sims[v].queue), Coming(sims[v].queue))
               \/ v # t.from /\ Among(more, Coming(sims[v].queue), <<n>>)
        PROVE  /\ Ascends(more) /\ Ascends(rest) /\ Precedes(more, rest)
               /\ Among(more, Coming(sims[v].queue), Asked(simIn))
               /\ Among(rest, Asked(simIn), Asked(simIn))
               /\ OfOthers(more, v, sent)
    <2> DEFINE c == Coming(sims[v].queue)
               a == Asked(simIn)
    <2>1. /\ Ascends(c) /\ Ascends(a) /\ Precedes(c, a) /\ OfOthers(c, v, sent)
      BY DEF Once, OnTheWay, Line
    <2> HIDE DEF c, a
    <2>2. Ascends(rest)
      <3>1. 1 \in Nat /\ Len(simIn) - 1 \in Nat
        BY <1>3
      <3> QED BY <1>3, <1>5, <2>1, <3>1, AscendsPart DEF a
    <2>3. Precedes(<<n>>, rest)
      <3>1. \A i \in 1 .. (Len(simIn) - 1) : 1 < 1 + i
        OBVIOUS
      <3> QED BY <1>3, <1>5, <1>8, <2>1, <3>1 DEF Ascends, Precedes, a
    <2>4. Precedes(c, rest)
      BY <1>7, <2>1, PrecedesSecond DEF a
    <2>5. CASE Among(more, c, c)
      <3>1. Among(more, c, a)
        BY <2>5 DEF Among
      <3>2. Precedes(more, rest) /\ OfOthers(more, v, sent)
        BY <2>1, <2>4, <2>5, PrecedesFirst, OthersAmong
      <3> QED BY <1>7, <1>9, <2>2, <3>1, <3>2 DEF c, a
    <2>6. CASE v # t.from /\ Among(more, c, <<n>>)
      <3>1. Among(more, c, a)
        BY <1>3, <1>5, <1>8, <2>6 DEF Among, a
      <3>2. OfOthers(<<n>>, v, sent)
        BY <1>6, <1>8, <2>6 DEF OfOthers
      <3>3. Precedes(more, rest) /\ OfOthers(more, v, sent)
        BY <2>1, <2>3, <2>4, <2>6, <3>2, PrecedesFirst, OthersAmong
      <3> QED BY <1>7, <1>9, <2>2, <3>1, <3>3 DEF c, a
    <2> QED BY <1>9, <2>5, <2>6 DEF c
  <1>10. ASSUME NEW v \in Vehicle
         PROVE  LET more == Coming(sims'[v].queue) IN
                  /\ Ascends(more)
                  /\ \/ Among(more, Coming(sims[v].queue), Coming(sims[v].queue))
                     \/ v # t.from /\ Among(more, Coming(sims[v].queue), <<n>>)
    <2> DEFINE c == Coming(sims[v].queue)
    <2>1. Ascends(c) /\ sims[v] \in Modem /\ Precedes(c, <<n>>)
      <3>1. Ascends(c) /\ Precedes(c, Asked(simIn)) /\ sims[v] \in Modem
        BY DEF Once, OnTheWay, Line, TypeOK, Modem
      <3> HIDE DEF c
      <3> QED BY <1>3, <1>5, <1>8, <3>1 DEF Precedes
    <2>2. CASE UNCHANGED sims
      BY <2>1, <2>2, AmongItself
    <2>3. ASSUME NEW deaf, HandleNewTransmission(t, deaf)
          PROVE  LET more == Coming(sims'[v].queue) IN
                   Ascends(more) /\ (Among(more, c, c) \/ (v # t.from /\ Among(more, c, <<n>>)))
      <3> DEFINE heard(w) == IF w \in Hearers(t, deaf)
                             THEN StartReception(sims[w], Flight[t.from][w], t.rate, t.number)
                             ELSE sims[w]
      <3>1. sims'[v] = IF v = t.from THEN StartTransmission(Cleared(heard(v)), t.rate) ELSE heard(v)
        BY <2>3 DEF HandleNewTransmission
      <3>2. CASE v = t.from
        <4>1. heard(v) = sims[v]
          BY <3>2 DEF Hearers
        <4>2. sims'[v] = StartTransmission(Cleared(sims[v]), t.rate)
          BY <3>1, <3>2, <4>1
        <4> DEFINE d == Coming(Cleared(sims[v]).queue)
                   more == Coming(sims'[v].queue)
        <4>3. Cleared(sims[v]) \in Modem
          BY <2>1, IdleType DEF Cleared, ClearQueue
        <4>4. Ascends(d) /\ Among(d, c, c)
          BY <2>1, ClearedNumbers
        <4>5. Ascends(more) /\ Among(more, d, d)
          BY <4>2, <4>3, <4>4, TransmissionNumbers
        <4> HIDE DEF c, d, more
        <4>6. Among(more, c, c)
          BY <4>4, <4>5 DEF Among
        <4> QED BY <4>5, <4>6 DEF more
      <3>3. CASE v # t.from /\ v \in Hearers(t, deaf)
        <4>1. sims'[v] = StartReception(sims[v], Flight[t.from][v], t.rate, n)
          BY <3>1, <3>3 DEF n
        <4>2. Ascends(Coming(sims'[v].queue)) /\ Among(Coming(sims'[v].queue), c, <<n>>)
          BY <2>1, <4>1, ReceptionNumbers
        <4> QED BY <3>3, <4>2
      <3>4. CASE v # t.from /\ v \notin Hearers(t, deaf)
        <4>1. sims'[v] = sims[v]
          BY <3>1, <3>4
        <4> QED BY <2>1, <4>1, AmongItself
      <3> QED BY <3>2, <3>3, <3>4
    <2>4. UNCHANGED sims \/ \E deaf : HandleNewTransmission(t, deaf)
      BY DEF SimReadsMail, t
    <2> QED BY <2>2, <2>3, <2>4
  <1>11. ASSUME NEW v \in Vehicle
         PROVE  LET more == Coming(sims'[v].queue) IN
                  /\ Ascends(more) /\ Ascends(rest) /\ Precedes(more, rest)
                  /\ Among(more, Coming(sims[v].queue), Asked(simIn))
                  /\ Among(rest, Asked(simIn), Asked(simIn))
                  /\ OfOthers(more, v, sent)
    BY <1>9, <1>10
  <1> QED BY <1>2, <1>4, <1>11, OnceComing DEF rest

\* What was coming first is posted.
LEMMA OnceDoWork ==
  ASSUME Once, TypeOK', NEW v \in Vehicle, DoWork(v)
  PROVE  Once'
  <1>1. UNCHANGED <<received, reception, simIn, sent>>
    BY DEF DoWork, driverVars
  <1>2. AskedBySender'
    BY <1>1 DEF Once, AskedBySender
  <1>3. ASSUME NEW w \in Vehicle, w # v PROVE OnTheWay(w)'
    <2>1. sims'[w] = sims[w] /\ simOut'[w] = simOut[w]
      BY <1>3 DEF DoWork, Once, TypeOK
    <2> QED BY <1>1, <2>1 DEF Once, OnTheWay
  <1>4. OnTheWay(v)'
    <2> DEFINE q == sims[v].queue
               o == simOut[v]
    <2>1. PICK n \in 1 .. Len(q) :
            /\ sims' = [sims EXCEPT ![v] = AfterWork(n, @)]
            /\ simOut' = [simOut EXCEPT ![v] = @ \o Posted(n, sims[v])]
      BY DEF DoWork
    <2> DEFINE p == Posted(n, sims[v])
               rest == SubSeq(q, n + 1, Len(q))
               more == o \o p
    <2>2. q \in Seq(Event) /\ o \in Seq(SignalPost)
      BY DEF Once, TypeOK, SignalPost
    <2>3. sims'[v].queue = rest /\ simOut'[v] = more
      BY <2>1 DEF AfterWork, Once, TypeOK
    <2>4. OnTheWay(v)
      BY DEF Once
    <2>5. /\ Ascends(Posts(o)) /\ Ascends(Coming(q)) /\ Precedes(Posts(o), Coming(q))
          /\ Line(received[v], <<reception[v]>>, Posts(o), Coming(q), Asked(simIn))
          /\ OfOthers(Posts(o), v, sent) /\ OfOthers(Coming(q), v, sent)
      BY <2>4 DEF OnTheWay, Line
    <2>6. /\ p \in Seq(SignalPost) /\ Ascends(Posts(p))
          /\ \A i \in 1 .. Len(p) : \E j \in 1 .. n : p[i] = q[j].to_post
      BY <2>2, <2>5, PostedIs
    <2> HIDE DEF p, q, o
    <2>7. /\ Len(q) \in Nat /\ n \in 1 .. Len(q) /\ n \in Nat /\ DOMAIN q = 1 .. Len(q)
          /\ DOMAIN rest = 1 .. (Len(q) - n) /\ Len(q) - n \in Nat
          /\ \A i \in 1 .. (Len(q) - n) : rest[i] = q[n + i] /\ n + i \in 1 .. Len(q)
      BY <2>2
    <2>8. /\ Len(o) \in Nat /\ Len(p) \in Nat /\ DOMAIN o = 1 .. Len(o) /\ DOMAIN p = 1 .. Len(p)
          /\ DOMAIN more = 1 .. (Len(o) + Len(p))
          /\ \A i \in 1 .. Len(o) : more[i] = o[i]
          /\ \A i \in 1 .. Len(p) : more[Len(o) + i] = p[i]
      BY <2>2, <2>6
    <2> HIDE DEF rest, more
    <2>9. /\ DOMAIN Coming(q) = 1 .. Len(q) /\ DOMAIN Coming(rest) = 1 .. (Len(q) - n)
          /\ \A i \in 1 .. (Len(q) - n) : n + i \in DOMAIN Coming(q) /\ Coming(rest)[i] = Coming(q)[n + i]
      BY <2>7 DEF Coming
    <2>10. Ascends(Coming(rest)) /\ Among(Coming(rest), Coming(q), Coming(q))
      <3>1. Ascends(Coming(rest))
        BY <2>5, <2>7, <2>9, AscendsPart
      <3> QED BY <2>9, <3>1 DEF Among
    <2>11. /\ DOMAIN Posts(o) = 1 .. Len(o) /\ DOMAIN Posts(p) = 1 .. Len(p)
           /\ DOMAIN Posts(more) = 1 .. (Len(o) + Len(p))
           /\ \A i \in 1 .. Len(o) : Posts(more)[i] = Posts(o)[i]
           /\ \A i \in 1 .. Len(p) : Len(o) + i \in 1 .. (Len(o) + Len(p))
                                     /\ Posts(more)[Len(o) + i] = Posts(p)[i]
      BY <2>8 DEF Posts
    <2>12. \A i \in 1 .. Len(p) : \E j \in 1 .. n : j \in 1 .. Len(q) /\ Posts(p)[i] = Coming(q)[j]
      <3>1. \A j \in 1 .. n : j \in 1 .. Len(q)
        BY <2>7
      <3> QED BY <2>6, <2>7, <2>11, <3>1 DEF Posts, Coming
    <2>13. Precedes(Posts(o), Posts(p))
      BY <2>5, <2>9, <2>11, <2>12 DEF Precedes
    <2>14. Ascends(Posts(more))
      <3>1. \A i \in 1 .. Len(p) : Posts(more)[Len(o) + i] = Posts(p)[i]
        BY <2>11
      <3>2. Ascends(Posts(o)) /\ Ascends(Posts(p))
        BY <2>5, <2>6
      <3>3. Len(o) \in Nat /\ Len(p) \in Nat
        BY <2>8
      <3> HIDE DEF p
      <3> QED BY <2>11, <2>13, <3>1, <3>2, <3>3, AscendsJoined
    <2>15. Among(Posts(more), Posts(o), Posts(p))
      <3> SUFFICES ASSUME NEW i \in 1 .. (Len(o) + Len(p))
                   PROVE  (\E j \in 1 .. Len(o) : Posts(more)[i] = Posts(o)[j])
                          \/ (\E j \in 1 .. Len(p) : Posts(more)[i] = Posts(p)[j])
        BY <2>11 DEF Among
      <3>1. CASE i \in 1 .. Len(o)
        BY <3>1, <2>11
      <3>2. CASE i \notin 1 .. Len(o)
        <4>1. i - Len(o) \in 1 .. Len(p) /\ Len(o) + (i - Len(o)) = i
          BY <3>2, <2>8
        <4> QED BY <4>1, <2>11
      <3> QED BY <3>1, <3>2
    <2>16. Among(Posts(more), Posts(o), Coming(q))
      <3>1. \A i \in DOMAIN Posts(p) : \E j \in DOMAIN Coming(q) : Posts(p)[i] = Coming(q)[j]
        BY <2>9, <2>11, <2>12
      <3> QED BY <2>15, <3>1 DEF Among
    <2>17. Precedes(Posts(more), Coming(rest))
      <3>1. Precedes(Posts(o), Coming(rest))
        BY <2>5, <2>10, PrecedesSecond
      <3>2. Precedes(Posts(p), Coming(rest))
        <4>1. \A j \in 1 .. n, i \in 1 .. (Len(q) - n) : j < n + i
          BY <2>7
        <4> QED BY <2>5, <2>9, <2>11, <2>12, <4>1 DEF Ascends, Precedes
      <3> QED BY <2>15, <3>1, <3>2, PrecedesFirst
    <2>18. Line(received[v], <<reception[v]>>, Posts(more), Coming(rest), Asked(simIn))
      BY <2>5, <2>10, <2>14, <2>16, <2>17, PostsMore
    <2>19. OfOthers(Posts(more), v, sent) /\ OfOthers(Coming(rest), v, sent)
      BY <2>5, <2>10, <2>16, OthersAmong
    <2> QED BY <1>1, <2>3, <2>4, <2>18, <2>19 DEF OnTheWay
  <1> QED BY <1>2, <1>3, <1>4 DEF Once

\* Each step moves numbers on, or drops them.
LEMMA OnceInductive == Once /\ [Next]_vars => Once'
  <1> SUFFICES ASSUME Once, [Next]_vars PROVE Once'
    OBVIOUS
  <1>0. TypeOK /\ TypeOK'
    BY TypesInductive DEF Once
  <1>1. ASSUME NEW v \in Vehicle, NEW batch \in Batch, ReadsMail(v, batch) PROVE Once'
    BY <1>0, <1>1, OnceReadsMail
  <1>2. ASSUME NEW v \in Vehicle, OnSimMail(v) PROVE Once'
    BY <1>0, <1>2, OnceOnSimMail
  <1>3. ASSUME NEW v \in Vehicle, Iterates(v) PROVE Once'
    BY <1>0, <1>3, OnceIterates
  <1>4. ASSUME NEW v \in Vehicle, HandleReport(v) PROVE Once'
    <2>1. UNCHANGED <<received, reception, simOut, sent, simIn>>
      BY <1>4 DEF HandleReport, driverVars
    <2>2. \A w \in Vehicle : sims'[w] = sims[w] \/ sims'[w] = Idle
      BY <1>0, <1>4 DEF HandleReport, TypeOK
    <2> QED BY <1>0, <2>1, <2>2, OnceSameOrIdle
  <1>5. CASE SimReadsMail
    BY <1>0, <1>5, OnceSimReadsMail
  <1>6. ASSUME NEW v \in Vehicle, DoWork(v) PROVE Once'
    BY <1>0, <1>6, OnceDoWork
  <1>7. CASE Tick
    <2>1. UNCHANGED <<received, reception, simOut, sent, simIn>>
      BY <1>7 DEF Tick
    <2>2. \A w \in Vehicle : Coming(sims'[w].queue) = Coming(sims[w].queue)
      BY <1>0, <1>7, CloserType DEF Tick, TypeOK, Modem
    <2> QED BY <1>0, <2>1, <2>2, OnceSameOrIdle
  <1>8. CASE UNCHANGED vars
    BY <1>0, <1>8 DEF vars, driverVars, simVars, Once, AskedBySender, OnTheWay
  <1> QED BY <1>1, <1>2, <1>3, <1>4, <1>5, <1>6, <1>7, <1>8 DEF Next

\* However transmissions overlap, are lost or cancelled, and however late the mail, no
\* vehicle is given a transmission of pAcommsSimulator's twice, or one of its own.
THEOREM NothingReceivedTwice == Spec => []ReceivedOnce
  <1>1. Once => ReceivedOnce
    <2> SUFFICES ASSUME Once, NEW v \in Vehicle, NEW i \in DOMAIN received[v]
                 PROVE  /\ sent[received[v][i]] # v
                        /\ \A j \in DOMAIN received[v] : received[v][i] = received[v][j] => i = j
      BY DEF ReceivedOnce
    <2>1. /\ received[v] \in Seq(Number) /\ Ascends(received[v]) /\ OfOthers(received[v], v, sent)
      BY DEF Once, TypeOK, OnTheWay, Line
    <2>2. \A j \in DOMAIN received[v] : j \in Nat /\ received[v][j] \in Nat \ {0}
      BY <2>1, NetworkParameters DEF Number
    <2> QED BY <2>1, <2>2 DEF Ascends, OfOthers
  <1> QED BY OnceInitially, OnceInductive, <1>1, PTL DEF Spec
-----------------------------------------------------------------------------
(* No transmission is lost but by an overlap *)

\* A transmission that is on its way to a driver leaves it only to the driver, or when the
\* vehicle transmitted after it, or when a later one was on its way too: pAcommsSimulator
\* drops a reception only for the vehicle's own transmission, and a driver's
\* m_simReception only for another.
LostOnlyByOverlap ==
  [][\A v \in Vehicle, n \in Number : StillToHear(v, n) /\ ~StillToHear(v, n)' =>
       \/ \E i \in DOMAIN received'[v] : received'[v][i] = n
       \/ \E m \in n + 1 .. Len(sent') : sent'[m] = v \/ StillToHear(v, m)]_vars

\* The simulator plays no modem of a vehicle it does not know.
Strangers == \A v \in Vehicle : v \notin m_vehicles => sims[v] = Idle

LEMMA StrangersInductive == TypeOK /\ Strangers /\ [Next]_vars => Strangers'
  <1> SUFFICES ASSUME TypeOK, Strangers, [Next]_vars PROVE Strangers'
    OBVIOUS
  <1> USE DEF Strangers
  <1>1. ASSUME NEW v \in Vehicle, NEW batch \in Batch, ReadsMail(v, batch) PROVE Strangers'
    BY <1>1 DEF ReadsMail, simVars
  <1>2. ASSUME NEW v \in Vehicle, OnSimMail(v) PROVE Strangers'
    BY <1>2 DEF OnSimMail, simVars
  <1>3. ASSUME NEW v \in Vehicle, Iterates(v) PROVE Strangers'
    BY <1>3 DEF Iterates, simVars
  <1>4. ASSUME NEW v \in Vehicle, HandleReport(v) PROVE Strangers'
    BY <1>4 DEF HandleReport, TypeOK
  <1>5. CASE SimReadsMail
    <2>1. UNCHANGED m_vehicles
      BY <1>5 DEF SimReadsMail
    <2>2. CASE UNCHANGED sims
      BY <2>1, <2>2
    <2>3. ASSUME NEW deaf, HandleNewTransmission(Head(simIn), deaf), Head(simIn).from \in m_vehicles
          PROVE  Strangers'
      <3>1. \A v \in Vehicle : v \notin m_vehicles => v # Head(simIn).from /\ v \notin Hearers(Head(simIn), deaf)
        BY <2>3 DEF Hearers
      <3> QED BY <2>1, <2>3, <3>1 DEF HandleNewTransmission
    <2> QED BY <1>5, <2>2, <2>3 DEF SimReadsMail
  <1>6. ASSUME NEW v \in Vehicle, DoWork(v) PROVE Strangers'
    <2>1. sims[v] # Idle
      BY <1>6 DEF DoWork, HasWork, Idle
    <2> QED BY <1>6, <2>1 DEF DoWork, TypeOK
  <1>7. CASE Tick
    <2>1. Closer(Idle) = Idle
      <3>1. Len(<<>>) = 0 /\ 1 .. 0 = {}
        OBVIOUS
      <3> QED BY <3>1 DEF Closer, Idle
    <2> QED BY <1>7, <2>1 DEF Tick
  <1>8. CASE UNCHANGED vars
    BY <1>8 DEF vars, simVars
  <1> QED BY <1>1, <1>2, <1>3, <1>4, <1>5, <1>6, <1>7, <1>8 DEF Next

\* A transmission that is taken up by a modem takes no other off its queue.
LEMMA ReceptionKeeps ==
  ASSUME NEW sim \in Modem, NEW start, NEW rate, NEW number, NEW n,
         NEW i \in DOMAIN sim.queue, sim.queue[i].to_post.of = n
  PROVE  LET q == StartReception(sim, start, rate, number).queue
         IN  \E j \in DOMAIN q : q[j].to_post.of = n
  <1>1. CASE sim.state # "READY"
    BY <1>1 DEF StartReception
  <1>2. CASE sim.state = "READY"
    <2> DEFINE x == At(start, "RECEIVING_SOUND", "RXP", 0)
               y == At(start + TransmitLength(rate), "RECEIVING_PARSE", "none", 0)
               z == At(start + TransmitLength(rate) + ParseTime, "READY", "DATA", number)
               q == sim.queue
               r == q \o <<x, y, z>>
    <2>1. StartReception(sim, start, rate, number).queue = r
      BY <1>2 DEF StartReception
    <2>2. q \in Seq(Event)
      BY DEF Modem
    <2> HIDE DEF x, y, z, q
    <2>3. q \in Seq(Event \cup {x, y, z})
      BY <2>2
    <2>4. i \in DOMAIN r /\ r[i] = q[i]
      BY <2>3 DEF q
    <2> QED BY <2>1, <2>4 DEF q
  <1> QED BY <1>1, <1>2

\* doWork posts to the driver what it takes off the modem's queue.
LEMMA DoWorkKeeps ==
  ASSUME TypeOK, NEW v \in Vehicle, DoWork(v), NEW n \in Number, StillToHear(v, n)
  PROVE  StillToHear(v, n)'
  <1> DEFINE q == sims[v].queue
             o == simOut[v]
  <1>1. PICK k \in 1 .. Len(q) :
          /\ sims' = [sims EXCEPT ![v] = AfterWork(k, @)]
          /\ simOut' = [simOut EXCEPT ![v] = @ \o Posted(k, sims[v])]
    BY DEF DoWork
  <1> DEFINE p == Posted(k, sims[v])
             rest == SubSeq(q, k + 1, Len(q))
             more == o \o p
  <1>2. q \in Seq(Event) /\ o \in Seq(SignalPost) /\ reception' = reception
    BY DEF TypeOK, SignalPost, DoWork, driverVars
  <1>3. sims'[v].queue = rest /\ simOut'[v] = more
    BY <1>1 DEF AfterWork, TypeOK
  <1>4. /\ p \in Seq(SignalPost)
        /\ \A j \in 1 .. k : q[j].to_post # NoPost => \E i \in 1 .. Len(p) : p[i] = q[j].to_post
    BY <1>2, PostedIs
  <1>5. n # 0
    BY NetworkParameters DEF Number
  <1> HIDE DEF p
  <1>6. /\ Len(o) \in Nat /\ Len(p) \in Nat /\ DOMAIN o = 1 .. Len(o)
        /\ DOMAIN more = 1 .. (Len(o) + Len(p))
        /\ \A i \in 1 .. Len(o) : more[i] = o[i]
        /\ \A i \in 1 .. Len(p) : more[Len(o) + i] = p[i]
    BY <1>2, <1>4
  <1>7. /\ Len(q) \in Nat /\ k \in 1 .. Len(q) /\ DOMAIN q = 1 .. Len(q)
        /\ DOMAIN rest = 1 .. (Len(q) - k)
        /\ \A i \in 1 .. (Len(q) - k) : rest[i] = q[k + i]
    BY <1>2
  <1>8. CASE reception[v] = n
    BY <1>2, <1>8 DEF StillToHear
  <1>9. ASSUME NEW i \in DOMAIN o, o[i].of = n PROVE StillToHear(v, n)'
    <2>1. i \in DOMAIN more /\ more[i] = o[i]
      BY <1>6
    <2> HIDE DEF more
    <2> QED BY <1>3, <1>9, <2>1 DEF StillToHear
  <1>10. ASSUME NEW j \in DOMAIN q, q[j].to_post.of = n PROVE StillToHear(v, n)'
    <2>1. CASE j \in 1 .. k
      <3>1. q[j].to_post # NoPost
        BY <1>5, <1>10 DEF NoPost
      <3>2. PICK i \in 1 .. Len(p) : p[i] = q[j].to_post
        BY <1>4, <2>1, <3>1
      <3>3. Len(o) + i \in DOMAIN more /\ more[Len(o) + i] = q[j].to_post
        BY <1>6, <3>2
      <3> HIDE DEF more, q
      <3> QED BY <1>3, <1>10, <3>3 DEF StillToHear
    <2>2. CASE j \notin 1 .. k
      <3>1. j - k \in 1 .. (Len(q) - k) /\ k + (j - k) = j
        BY <1>7, <2>2
      <3>2. j - k \in DOMAIN rest /\ rest[j - k] = q[j]
        BY <1>7, <3>1
      <3> HIDE DEF rest, q
      <3> QED BY <1>3, <1>10, <3>2 DEF StillToHear, Queued
    <2> QED BY <2>1, <2>2
  <1> QED BY <1>8, <1>9, <1>10 DEF StillToHear, Queued

\* The second mail client drops a transmission only for a later one.
LEMMA OnSimMailDrops ==
  ASSUME Once, NEW v \in Vehicle, OnSimMail(v), NEW n \in Number,
         StillToHear(v, n), ~StillToHear(v, n)'
  PROVE  \E m \in n + 1 .. Len(sent') : StillToHear(v, m)
  <1> DEFINE q == simOut[v]
             post == Head(q)
  <1>1. /\ q \in Seq(SignalPost) /\ q # <<>> /\ simOut'[v] = Tail(q)
        /\ reception'[v] = IF post.signal = "DATA" THEN post.of ELSE reception[v]
        /\ UNCHANGED <<sims, sent>>
    BY DEF OnSimMail, Once, TypeOK, SignalPost, simVars
  <1>2. n \in Nat \ {0} /\ Len(sent) \in Nat
    BY NetworkParameters DEF Number, Once, TypeOK
  <1>3. post.signal # "DATA" => post.of = 0
    <2>1. post \in Post
      BY <1>1 DEF SignalPost
    <2> QED BY <2>1 DEF Post, NoPost
  <1>4. post.signal = "DATA" => post.of \in Number
    <2>1. post \in Post
      BY <1>1 DEF SignalPost
    <2> QED BY <2>1, PostNumbers
  <1>5. /\ Len(q) \in Nat \ {0} /\ DOMAIN q = 1 .. Len(q) /\ DOMAIN Tail(q) = 1 .. (Len(q) - 1)
        /\ \A i \in 1 .. (Len(q) - 1) : Tail(q)[i] = q[1 + i]
        /\ post = q[1] /\ 1 \in 1 .. Len(q)
    BY <1>1
  <1>6. ~Queued(v, n) /\ ~Queued(v, n)'
    BY <1>1 DEF StillToHear, Queued
  <1> HIDE DEF q, post
  <1>7. ASSUME NEW i \in DOMAIN q, q[i].of = n PROVE FALSE
    <2>1. CASE i = 1
      BY <1>1, <1>2, <1>3, <1>5, <1>7, <2>1 DEF StillToHear
    <2>2. CASE i # 1
      <3>1. i - 1 \in 1 .. (Len(q) - 1) /\ 1 + (i - 1) = i
        BY <1>5, <2>2
      <3>2. Tail(q)[i - 1] = q[i] /\ i - 1 \in DOMAIN Tail(q)
        BY <1>5, <3>1
      <3> QED BY <1>1, <1>7, <3>2 DEF StillToHear
    <2> QED BY <2>1, <2>2
  <1>8. reception[v] = n
    BY <1>6, <1>7 DEF StillToHear, q
  <1>9. post.signal = "DATA" /\ post.of # 0
    BY <1>1, <1>2, <1>4, <1>8, NetworkParameters DEF StillToHear, Number
  <1>10. /\ Precedes(<<reception[v]>>, Posts(q))
         /\ OfOthers(Posts(q), v, sent)
    BY DEF Once, OnTheWay, Line, q
  <1>11. 1 \in DOMAIN Posts(q) /\ Posts(q)[1] = post.of
    BY <1>5 DEF Posts
  <1>12. n < post.of
    <2>1. 1 \in DOMAIN <<reception[v]>> /\ <<reception[v]>>[1] = n
      BY <1>8
    <2> QED BY <1>2, <1>9, <1>10, <1>11, <2>1 DEF Precedes
  <1>13. post.of \in 1 .. Len(sent)
    BY <1>9, <1>10, <1>11 DEF OfOthers
  <1>14. post.of \in n + 1 .. Len(sent')
    BY <1>1, <1>2, <1>12, <1>13
  <1>15. StillToHear(v, post.of)
    BY <1>5 DEF StillToHear, q
  <1> QED BY <1>14, <1>15

\* The simulator drops a reception only for the vehicle's own transmission, a later one.
LEMMA SimReadsMailDrops ==
  ASSUME Once, SimReadsMail, NEW v \in Vehicle, NEW n \in Number,
         StillToHear(v, n), ~StillToHear(v, n)'
  PROVE  \E m \in n + 1 .. Len(sent') : sent'[m] = v
  <1> DEFINE t == Head(simIn)
  <1>1. simIn \in Seq(Transmission) /\ simIn # <<>>
    BY DEF SimReadsMail, Once, TypeOK, Transmission
  <1>2. UNCHANGED <<reception, simOut, sent>>
    BY DEF SimReadsMail, driverVars
  <1>3. 1 \in DOMAIN simIn /\ t = simIn[1] /\ t \in Transmission
    BY <1>1
  <1>4. Queued(v, n) /\ ~Queued(v, n)'
    BY <1>2 DEF StillToHear
  <1>5. PICK i \in DOMAIN sims[v].queue : sims[v].queue[i].to_post.of = n
    BY <1>4 DEF Queued
  <1>6. n \in Nat /\ t.number \in Nat /\ n # 0 /\ t.number # 0 /\ Len(sent) \in Nat
    <2>1. t.number \in Number
      BY <1>3 DEF Transmission
    <2>2. sent \in Seq(Vehicle)
      BY DEF Once, TypeOK
    <2> HIDE DEF t
    <2> QED BY <2>1, <2>2, NetworkParameters DEF Number
  <1>7. t.number <= Len(sent) /\ t.from = sent[t.number]
    BY <1>3 DEF Once, AskedBySender
  <1> HIDE DEF t
  <1>8. n < t.number
    <2>1. Precedes(Coming(sims[v].queue), Asked(simIn))
      BY DEF Once, OnTheWay, Line
    <2>2. i \in DOMAIN Coming(sims[v].queue) /\ Coming(sims[v].queue)[i] = n
      BY <1>5 DEF Coming
    <2>3. 1 \in DOMAIN Asked(simIn) /\ Asked(simIn)[1] = t.number
      BY <1>3 DEF Asked
    <2> QED BY <1>6, <2>1, <2>2, <2>3 DEF Precedes
  <1>9. sims[v] \in Modem
    BY DEF Once, TypeOK, Modem
  <1>10. sims'[v] # sims[v]
    BY <1>4 DEF Queued
  <1>11. PICK deaf : HandleNewTransmission(t, deaf)
    BY <1>10 DEF SimReadsMail, t
  <1>12. t.from = v
    <2> SUFFICES ASSUME v # t.from PROVE FALSE
      OBVIOUS
    <2>1. sims'[v] = StartReception(sims[v], Flight[t.from][v], t.rate, t.number)
      BY <1>10, <1>11 DEF HandleNewTransmission
    <2>2. \E j \in DOMAIN sims'[v].queue : sims'[v].queue[j].to_post.of = n
      BY <1>5, <1>9, <2>1, ReceptionKeeps
    <2> QED BY <1>4, <2>2 DEF Queued
  <1>13. t.number \in n + 1 .. Len(sent') /\ sent'[t.number] = v
    <2>1. sent' = sent
      BY <1>2
    <2> QED BY <2>1, <1>6, <1>7, <1>8, <1>12
  <1> QED BY <1>13

\* However receptions, transmissions and mail interleave, at any rate and any distance, a
\* vehicle's driver misses a transmission its modem has begun to receive only when the
\* vehicle transmits after it or another one overlaps it.
THEOREM NothingElseIsLost == Spec => LostOnlyByOverlap
  <1> DEFINE Kept == \A v \in Vehicle, n \in Number : StillToHear(v, n) /\ ~StillToHear(v, n)' =>
                       \/ \E i \in DOMAIN received'[v] : received'[v][i] = n
                       \/ \E m \in n + 1 .. Len(sent') : sent'[m] = v \/ StillToHear(v, m)
  <1>1. Init => Once /\ Strangers
    BY OnceInitially DEF Init, Strangers
  <1>2. Once /\ Strangers /\ [Next]_vars => (Once /\ Strangers)'
    BY OnceInductive, StrangersInductive DEF Once
  <1>3. Once /\ Strangers /\ [Next]_vars => [Kept]_vars
    <2> SUFFICES ASSUME Once, Strangers, Next, NEW v \in Vehicle, NEW n \in Number,
                        StillToHear(v, n), ~StillToHear(v, n)'
                 PROVE  \/ \E i \in DOMAIN received'[v] : received'[v][i] = n
                        \/ \E m \in n + 1 .. Len(sent') : sent'[m] = v \/ StillToHear(v, m)
      OBVIOUS
    <2>0. TypeOK
      BY DEF Once
    <2>1. ASSUME sims'[v] = sims[v], simOut'[v] = simOut[v], reception'[v] = reception[v]
          PROVE  FALSE
      BY <2>1 DEF StillToHear, Queued
    <2>2. ASSUME NEW w \in Vehicle, NEW batch \in Batch, ReadsMail(w, batch) PROVE FALSE
      BY <2>1, <2>2 DEF ReadsMail, simVars
    <2>3. ASSUME NEW w \in Vehicle, OnSimMail(w)
          PROVE  \E m \in n + 1 .. Len(sent') : StillToHear(v, m)
      <3>1. CASE w = v
        BY <2>3, <3>1, OnSimMailDrops
      <3>2. CASE w # v
        BY <2>0, <2>1, <2>3, <3>2 DEF OnSimMail, simVars, TypeOK
      <3> QED BY <3>1, <3>2
    <2>4. ASSUME NEW w \in Vehicle, Iterates(w)
          PROVE  \E i \in DOMAIN received'[v] : received'[v][i] = n
      <3>1. w = v
        BY <2>0, <2>1, <2>4 DEF Iterates, simVars, TypeOK
      <3>2. UNCHANGED <<sims, simOut>>
        BY <2>4 DEF Iterates, simVars
      <3>3. reception[v] = n /\ n # 0
        BY <3>2, NetworkParameters DEF StillToHear, Queued, Number
      <3>4. received'[v] = Append(received[v], n) /\ received[v] \in Seq(Number)
        BY <2>0, <2>4, <3>1, <3>3 DEF Iterates, TypeOK
      <3>5. Len(received[v]) + 1 \in DOMAIN received'[v] /\ received'[v][Len(received[v]) + 1] = n
        BY <3>4
      <3> QED BY <3>5
    <2>5. ASSUME NEW w \in Vehicle, HandleReport(w) PROVE FALSE
      BY <2>0, <2>1, <2>5 DEF HandleReport, driverVars, Strangers, TypeOK
    <2>6. CASE SimReadsMail
      BY <2>6, SimReadsMailDrops
    <2>7. ASSUME NEW w \in Vehicle, DoWork(w) PROVE FALSE
      <3>1. CASE w = v
        BY <2>0, <2>7, <3>1, DoWorkKeeps
      <3>2. CASE w # v
        BY <2>0, <2>1, <2>7, <3>2 DEF DoWork, driverVars, TypeOK
      <3> QED BY <3>1, <3>2
    <2>8. CASE Tick
      <3>1. UNCHANGED <<reception, simOut>> /\ sims'[v] = Closer(sims[v])
        BY <2>8 DEF Tick
      <3>2. Coming(sims'[v].queue) = Coming(sims[v].queue)
        BY <2>0, <3>1, CloserType DEF TypeOK, Modem
      <3>3. \A q : DOMAIN Coming(q) = DOMAIN q /\ \A i \in DOMAIN q : Coming(q)[i] = q[i].to_post.of
        BY DEF Coming
      <3>4. Queued(v, n) <=> \E i \in DOMAIN Coming(sims[v].queue) : Coming(sims[v].queue)[i] = n
        BY <3>3 DEF Queued
      <3>5. Queued(v, n)' <=> \E i \in DOMAIN Coming(sims'[v].queue) : Coming(sims'[v].queue)[i] = n
        BY <3>3 DEF Queued
      <3> QED BY <3>1, <3>2, <3>4, <3>5 DEF StillToHear
    <2> QED BY <2>2, <2>3, <2>4, <2>5, <2>6, <2>7, <2>8 DEF Next
  <1> QED BY <1>1, <1>2, <1>3, PTL DEF Spec, LostOnlyByOverlap
=============================================================================
