----------------------------- MODULE TDMAProofs -----------------------------
(***************************************************************************)
(* Theorems about the two programs that share the water by time slots, for *)
(* all schedules, vehicles and orders that satisfy the named assumptions:  *)
(* a pursuit (no two modems sound at once, what is sent is new, the loops  *)
(* of an engine catch up with the clock, one report of each vehicle in a   *)
(* cycle, acks for the last command) and the TDOA mission (types, no       *)
(* waypoint taken twice, a report for each vehicle's slot).                *)
(***************************************************************************)
EXTENDS Pursuit, Tdoa, FoldProofs, FiniteSetTheorems, SequenceTheorems

(* Modems sound one at a time *)

\* The engine of p has the slot of the clock, or one that is over just now.
OnTime(p) == Shows(engine[p].slot, Sched(p), clock) /\ engine[p].cycle = clock.cycle

JustOver(p) ==
  \/ /\ engine[p].slot + 1 \in Slots(Sched(p))
     /\ clock.pos = StartOf(engine[p].slot + 1, Sched(p))
     /\ engine[p].cycle = clock.cycle
  \/ /\ engine[p].slot + 1 \notin Slots(Sched(p)) \/ engine[p].slot = 0
     /\ clock.pos = 0
     /\ Due(p)

Timely == \A p \in Procs : IsRunning(engine[p]) => OnTime(p) \/ JustOver(p)

\* A sound began at the beginning of a slot of its program, and was the only
\* thing the program did with that slot.
SoundInSlot(sound) ==
  /\ sound.from \in Procs /\ sound.old \in BOOLEAN
  /\ \E t \in Slots(Sched(sound.from)) :
       /\ Transmits(sound.from, t, multicast)
       /\ clock.pos = StartOf(t, Sched(sound.from)) + (IF sound.old THEN 1 ELSE 0)
  /\ ~sound.old /\ IsRunning(engine[sound.from]) => OnTime(sound.from)

OneSound == \A a, b \in air : a = b

Shape ==
  /\ multicast \in BOOLEAN
  /\ clock \in [cycle : 0 .. Cycles - 1, pos : 0 .. Sched(Shore).period - 1]
  /\ engine \in [Procs -> [slot : Int, cycle : Int]]
  /\ \A p \in Procs : engine[p].slot \in {Stopped} \cup Slots(Sched(p))
  /\ "up" \in DOMAIN shore
  /\ ~shore.up => engine[Shore].slot = Stopped
  /\ late \in Nat

Orderly == Timely /\ (\A sound \in air : SoundInSlot(sound)) /\ OneSound

IInv == Shape /\ (late = 0 => Orderly)
-----------------------------------------------------------------------------
LEMMA SchedulesAreSchedules ==
  ASSUME NEW mode \in BOOLEAN, NEW p \in Procs
  PROVE  /\ IsSchedule(ScheduleOf(p, mode))
         /\ ScheduleOf(p, mode).period = ScheduleOf(Shore, mode).period
  BY PursuitParameters

\* What the arithmetic of slots needs to know of a schedule.
LEMMA SlotFacts ==
  ASSUME NEW sched, IsSchedule(sched), NEW s \in Slots(sched)
  PROVE  /\ s \in Nat /\ s # Stopped
         /\ sched.period \in Nat \ {0}
         /\ StartOf(s, sched) \in Nat /\ EndOf(s, sched) \in Nat
         /\ sched.lengths[s + 1] \in Nat \ {0}
         /\ EndOf(s, sched) = StartOf(s, sched) + sched.lengths[s + 1]
         /\ EndOf(s, sched) <= sched.period
         /\ s + 1 \in Slots(sched) => EndOf(s, sched) = StartOf(s + 1, sched)
         /\ s + 1 \notin Slots(sched) => EndOf(s, sched) = sched.period
         /\ 0 \in Slots(sched) /\ StartOf(0, sched) = 0
<1>1. /\ s \in 0 .. Len(sched.lengths) - 1
      /\ sched.lengths \in Seq(Nat \ {0}) /\ sched.times \in Seq(Nat)
      /\ Len(sched.times) = Len(sched.lengths)
  BY DEF IsSchedule, Slots
<1>2. Len(sched.lengths) \in Nat /\ s + 1 \in 1 .. Len(sched.lengths)
  BY <1>1
<1>3. sched.lengths[s + 1] \in Nat \ {0} /\ sched.times[s + 1] \in Nat
  BY <1>1, <1>2
<1>4. s \in Nat /\ s # Stopped
  BY <1>1, <1>2 DEF Stopped
<1>4a. EndOf(s, sched) = StartOf(s, sched) + sched.lengths[s + 1]
  BY DEF StartOf, EndOf
<1>4b. StartOf(s, sched) \in Nat /\ EndOf(s, sched) \in Nat
  BY <1>3, <1>4a DEF StartOf
<1>5. /\ EndOf(s, sched) = IF s + 1 \in Slots(sched) THEN StartOf(s + 1, sched) ELSE sched.period
      /\ EndOf(s, sched) <= sched.period
      /\ sched.period \in Nat
      /\ StartOf(0, sched) = 0
  BY DEF IsSchedule
<1>6. sched.period # 0
  BY <1>3, <1>4a, <1>4b, <1>5
<1>7. 0 \in Slots(sched)
  BY <1>1, <1>2 DEF Slots
<1>8. QED
  BY <1>3, <1>4, <1>4a, <1>4b, <1>5, <1>6, <1>7

\* An engine whose slot the clock shows has nothing to do.
LEMMA OnTimeRests ==
  ASSUME Shape, NEW p \in Procs, IsRunning(engine[p]), OnTime(p)
  PROVE  ~Due(p)
<1> DEFINE s == engine[p].slot
<1>1. IsSchedule(Sched(p)) /\ s \in Slots(Sched(p)) /\ clock.pos \in Nat
  BY SchedulesAreSchedules DEF Shape, Sched, IsRunning
<1>2. QED
  BY <1>1, SlotFacts
     DEF OnTime, Shows, Due, Advances, SlotIsOver, TimeWithinSlot, EndOf

\* One whose slot is just over advances to the slot that begins.
LEMMA JustOverAdvances ==
  ASSUME Shape, NEW p \in Procs, IsRunning(engine[p]), JustOver(p)
  PROVE  LET e == Advanced(engine[p], Sched(p), clock) IN
           /\ Due(p)
           /\ e \in [slot : Int, cycle : Int]
           /\ e.slot \in Slots(Sched(p)) /\ e.cycle = clock.cycle
           /\ Shows(e.slot, Sched(p), clock)
           /\ clock.pos = StartOf(e.slot, Sched(p))
<1> DEFINE s == engine[p].slot
           sched == Sched(p)
<1>1. /\ IsSchedule(sched) /\ s \in Slots(sched)
      /\ clock.pos \in Nat /\ clock.cycle \in Int
      /\ engine[p] \in [slot : Int, cycle : Int]
  BY SchedulesAreSchedules DEF Shape, Sched, IsRunning
<1>2. CASE /\ s + 1 \in Slots(sched) /\ clock.pos = StartOf(s + 1, sched)
           /\ engine[p].cycle = clock.cycle
  <2>1. clock.pos = EndOf(s, sched) /\ s + 1 \in Slots(sched)
    BY <1>1, <1>2, SlotFacts
  <2>2. SlotIsOver(engine[p], sched, clock)
    BY <1>1, <2>1, SlotFacts DEF SlotIsOver, TimeWithinSlot
  <2>3. Advanced(engine[p], sched, clock) = [engine[p] EXCEPT !.slot = @ + 1]
    BY <2>1, <2>2 DEF Advanced
  <2>4. Shows(s + 1, sched, clock) /\ clock.pos = StartOf(s + 1, sched)
    BY <1>1, <1>2, <2>1, SlotFacts DEF Shows
  <2>5. QED
    BY <1>1, <1>2, <2>1, <2>2, <2>3, <2>4 DEF Due, Advances
<1>3. CASE clock.pos = 0 /\ Due(p) /\ (s + 1 \notin Slots(sched) \/ s = 0)
  <2>1. clock.pos = 0 /\ (s + 1 \notin Slots(sched) \/ s = 0)
    BY <1>3
  <2>2. Advanced(engine[p], sched, clock) = [slot |-> 0, cycle |-> clock.cycle]
    <3>1. s = 0 => ~SlotIsOver(engine[p], sched, clock)
      BY <1>1, <2>1, SlotFacts DEF SlotIsOver, TimeWithinSlot
    <3> QED BY <2>1, <3>1 DEF Advanced
  <2>3. Shows(0, sched, clock) /\ StartOf(0, sched) = 0 /\ 0 \in Slots(sched)
    BY <1>1, <2>1, SlotFacts DEF Shows
  <2>4. QED
    BY <1>1, <1>3, <2>1, <2>2, <2>3
<1>4. QED
  BY <1>2, <1>3 DEF JustOver

\* run leads to the slot of the clock.
LEMMA RunIsOnTime ==
  ASSUME Shape, NEW p \in Procs
  PROVE  LET e == Run(Sched(p), clock) IN
           /\ e \in [slot : Int, cycle : Int]
           /\ e.slot \in Slots(Sched(p)) /\ e.cycle = clock.cycle
           /\ Shows(e.slot, Sched(p), clock)
<1> DEFINE sched == Sched(p)
<1>1. IsSchedule(sched) /\ clock.pos \in 0 .. sched.period - 1 /\ clock.cycle \in Int
  BY SchedulesAreSchedules DEF Shape, Sched
<1>2. \E s \in Slots(sched) : Shows(s, sched, clock)
  BY <1>1 DEF IsSchedule, Shows
<1>3. \A s \in Slots(sched) : s \in Int
  BY <1>1, SlotFacts
<1>4. QED
  BY <1>1, <1>2, <1>3 DEF Run

\* When a slot that transmits begins, nothing is on the air.
LEMMA AirIsFree ==
  ASSUME Shape, Timely, \A sound \in air : SoundInSlot(sound),
         NEW p \in Procs, Due(p), NEW t \in Slots(Sched(p)),
         Transmits(p, t, multicast), clock.pos = StartOf(t, Sched(p))
  PROVE  air = {}
<1>1. SUFFICES ASSUME NEW a \in air PROVE FALSE
  OBVIOUS
<1>2. a.from \in Procs /\ a.old \in BOOLEAN
  BY DEF SoundInSlot
<1>3. PICK u \in Slots(Sched(a.from)) :
        /\ Transmits(a.from, u, multicast)
        /\ clock.pos = StartOf(u, Sched(a.from)) + (IF a.old THEN 1 ELSE 0)
  BY DEF SoundInSlot
<1>4. IsSchedule(Sched(p)) /\ IsSchedule(Sched(a.from)) /\ multicast \in BOOLEAN
  BY <1>2, SchedulesAreSchedules DEF Shape, Sched
<1>5. StartOf(t, Sched(p)) \in Nat /\ StartOf(u, Sched(a.from)) \in Nat
  BY <1>3, <1>4, SlotFacts
<1>6. \/ <<p, t>> = <<a.from, u>>
      \/ StartOf(t, Sched(p)) + 2 <= StartOf(u, Sched(a.from))
      \/ StartOf(u, Sched(a.from)) + 2 <= StartOf(t, Sched(p))
  BY <1>2, <1>3, <1>4, SlotsApart DEF Sched
<1>7. p = a.from /\ t = u
  <2> DEFINE x == StartOf(t, Sched(p))
             y == StartOf(u, Sched(a.from))
  <2>1. x = y \/ x = y + 1
    BY <1>2, <1>3, <1>5
  <2>2. ~(x + 2 <= y) /\ ~(y + 2 <= x)
    BY <1>5, <2>1
  <2>3. QED
    BY <1>6, <2>2
<1>8. ~a.old
  <2>1. StartOf(u, Sched(a.from)) = StartOf(t, Sched(p))
    BY <1>7
  <2>2. SUFFICES ASSUME a.old PROVE FALSE
    OBVIOUS
  <2>3. clock.pos = StartOf(u, Sched(a.from)) + 1
    BY <1>3, <2>2
  <2>4. QED
    BY <1>5, <2>1, <2>3
<1>9. IsRunning(engine[p])
  BY DEF Due, Advances
<1>10. OnTime(p)
  BY <1>7, <1>8, <1>9 DEF SoundInSlot
<1>11. QED
  BY <1>9, <1>10, OnTimeRests

\* A program that advances, and transmits only in a slot that is its own.
LEMMA IteratePreserves ==
  ASSUME Shape, Orderly, NEW p \in Procs, Due(p), NEW e,
         e = Advanced(engine[p], Sched(p), clock) \/ e = InitEngine,
         NEW msg, NEW sends \in BOOLEAN,
         sends => e # InitEngine /\ Transmits(p, e.slot, multicast),
         engine' = [engine EXCEPT ![p] = e],
         air' = (IF sends THEN Transmitted(p, msg) ELSE air),
         UNCHANGED <<multicast, clock>>
  PROVE  Orderly'
<1>1. SUFFICES Timely' /\ (\A sound \in air' : SoundInSlot(sound)') /\ OneSound'
  BY DEF Orderly
<1> USE DEF Orderly
<1>2. IsRunning(engine[p]) /\ (OnTime(p) \/ JustOver(p))
  BY <1>1 DEF Due, Advances, Timely
<1>3. JustOver(p)
  BY <1>2, OnTimeRests
<1>4. engine \in [Procs -> [slot : Int, cycle : Int]]
  BY DEF Shape
<1>5. engine'[p] = e /\ \A q \in Procs \ {p} : engine'[q] = engine[q]
  BY <1>4
<1>6. \A q \in Procs : Sched(q)' = Sched(q)
  BY DEF Sched
<1>7. CASE e = InitEngine
  <2>1. ~IsRunning(engine'[p]) /\ ~sends
    BY <1>5, <1>7 DEF InitEngine, IsRunning
  <2>2. Timely'
    BY <1>1, <1>5, <1>6, <2>1 DEF Timely, OnTime, JustOver, Due
  <2>3. \A sound \in air' : SoundInSlot(sound)'
    BY <1>1, <1>5, <1>6, <2>1 DEF SoundInSlot, OnTime
  <2>4. QED
    BY <1>1, <2>1, <2>2, <2>3 DEF OneSound
<1>8. CASE e = Advanced(engine[p], Sched(p), clock) /\ e # InitEngine
  <2>1. /\ e.slot \in Slots(Sched(p)) /\ e.cycle = clock.cycle
        /\ Shows(e.slot, Sched(p), clock)
        /\ clock.pos = StartOf(e.slot, Sched(p))
    BY <1>2, <1>3, <1>8, JustOverAdvances
  <2>2. OnTime(p)'
    BY <1>5, <1>6, <2>1 DEF OnTime, Shows
  <2>3. Timely'
    BY <1>1, <1>5, <1>6, <2>2 DEF Timely, OnTime, JustOver, Due
  <2>4. \A sound \in air : SoundInSlot(sound)'
    BY <1>1, <1>5, <1>6, <2>2 DEF SoundInSlot, OnTime
  <2>5. CASE ~sends
    BY <1>1, <2>3, <2>4, <2>5 DEF OneSound
  <2>6. CASE sends
    <3> DEFINE new == [from |-> p, msg |-> msg, old |-> FALSE]
    <3>1. air = {}
      BY <1>1, <2>1, <2>6, AirIsFree
    <3>2. air' = {new}
      BY <2>6, <3>1 DEF Transmitted
    <3>3. StartOf(e.slot, Sched(p)) + 0 = clock.pos
      BY <2>1 DEF Shape
    <3>4. SoundInSlot(new)'
      BY <1>6, <2>1, <2>2, <2>6, <3>3 DEF SoundInSlot
    <3>5. QED
      BY <2>3, <3>2, <3>4 DEF OneSound
  <2>7. QED
    BY <2>5, <2>6
<1>9. QED
  BY <1>7, <1>8

\* When nobody oversleeps, a unit of time makes a slot be just over at most.
LEMMA TickIsTimely ==
  ASSUME Shape, Shape', Timely, ~Oversleeps, clock' = Later,
         UNCHANGED <<multicast, engine, shore>>
  PROVE  Timely'
<1>1. SUFFICES ASSUME NEW p \in Procs, IsRunning(engine[p])
               PROVE  (OnTime(p) \/ JustOver(p))'
  BY DEF Timely
<1> DEFINE s == engine[p].slot
           sched == Sched(p)
<1>2. ~Due(p)
  BY <1>1 DEF Oversleeps, Running, IsRunning, Shape
<1>3. OnTime(p)
  BY <1>1, <1>2, JustOverAdvances DEF Timely
<1>4. /\ IsSchedule(sched) /\ s \in Slots(sched) /\ sched.period = Sched(Shore).period
      /\ clock \in [cycle : 0 .. Cycles - 1, pos : 0 .. sched.period - 1]
      /\ Cycles \in Nat \ {0, 1}
  BY <1>1, SchedulesAreSchedules, PursuitParameters DEF Shape, Sched, IsRunning
<1>5. Sched(p)' = sched /\ engine'[p] = engine[p]
  BY DEF Sched
<1>6. clock.pos < EndOf(s, sched) /\ StartOf(s, sched) <= clock.pos /\ engine[p].cycle = clock.cycle
  BY <1>3 DEF OnTime, Shows
<1>7. /\ s \in Nat /\ EndOf(s, sched) \in Nat /\ EndOf(s, sched) <= sched.period
      /\ StartOf(s, sched) \in Nat
      /\ s + 1 \in Slots(sched) => EndOf(s, sched) = StartOf(s + 1, sched)
      /\ s + 1 \notin Slots(sched) => EndOf(s, sched) = sched.period
      /\ s + 1 \in Slots(sched) => StartOf(s + 1, sched) < sched.period
  <2>1. s + 1 \in Slots(sched) => StartOf(s + 1, sched) < EndOf(s + 1, sched)
                                  /\ EndOf(s + 1, sched) <= sched.period
                                  /\ EndOf(s + 1, sched) \in Nat
                                  /\ StartOf(s + 1, sched) \in Nat
    BY <1>4, SlotFacts
  <2>2. QED
    BY <1>4, <2>1, SlotFacts
<1>8. CASE clock.pos + 1 = sched.period
  <2>1. clock'.pos = 0 /\ clock'.cycle # clock.cycle
    BY <1>4, <1>8 DEF Later
  <2>2. s + 1 \notin Slots(sched)
    BY <1>4, <1>6, <1>7, <1>8
  <2>3. JustOver(p)'
    BY <1>1, <1>5, <1>6, <2>1, <2>2 DEF JustOver, Due, Advances
  <2>4. QED
    BY <2>3
<1>9. CASE clock.pos + 1 # sched.period
  <2>1. clock'.pos = clock.pos + 1 /\ clock'.cycle = clock.cycle
    BY <1>4, <1>9 DEF Later
  <2>2. CASE clock.pos + 1 < EndOf(s, sched)
    <3>1. Shows(s, sched, clock')
      BY <1>4, <1>6, <1>7, <2>1, <2>2 DEF Shows
    <3>2. QED
      BY <1>5, <1>6, <2>1, <3>1 DEF OnTime
  <2>3. CASE clock.pos + 1 = EndOf(s, sched)
    <3>1. s + 1 \in Slots(sched) /\ clock'.pos = StartOf(s + 1, sched)
      BY <1>7, <1>9, <2>1, <2>3
    <3>2. QED
      BY <1>5, <1>6, <2>1, <3>1 DEF JustOver
  <2>4. QED
    BY <1>4, <1>6, <1>7, <2>2, <2>3
<1>10. QED
  BY <1>8, <1>9
-----------------------------------------------------------------------------
LEMMA InitIInv == Init => IInv
<1> SUFFICES ASSUME Init PROVE IInv
  OBVIOUS
<1>1. Sched(Shore).period \in Nat \ {0}
  <2>1. IsSchedule(Sched(Shore))
    BY SchedulesAreSchedules DEF Init, Sched, Procs
  <2>2. PICK s \in Slots(Sched(Shore)) : TRUE
    BY <2>1 DEF IsSchedule
  <2>3. QED
    BY <2>1, <2>2, SlotFacts
<1>2. Shape
  BY <1>1, PursuitParameters DEF Init, Shape, InitEngine, Stopped
<1>3. QED
  BY <1>2 DEF Init, IInv, Orderly, Timely, IsRunning, InitEngine, OneSound

\* Every step keeps the shape of the state.
\* What is left of the shape when only the program goes on.
LEMMA IterateKeepsShape ==
  ASSUME Shape, NEW p \in Procs, Due(p), NEW e,
         e = Advanced(engine[p], Sched(p), clock) \/ e = InitEngine,
         engine' = [engine EXCEPT ![p] = e], UNCHANGED <<multicast, clock, late>>,
         "up" \in DOMAIN shore', ~shore'.up => engine'[Shore].slot = Stopped
  PROVE  Shape'
<1> USE DEF Shape
<1>1. e \in [slot : Int, cycle : Int] /\ e.slot \in {Stopped} \cup Slots(Sched(p))
  <2>1. CASE e = InitEngine
    BY <2>1 DEF InitEngine, Stopped
  <2>2. CASE e = Advanced(engine[p], Sched(p), clock)
    <3>1. IsSchedule(Sched(p)) /\ engine[p].slot \in Slots(Sched(p))
      BY SchedulesAreSchedules DEF Sched, Due, Advances, IsRunning
    <3>2. 0 \in Slots(Sched(p)) /\ engine[p].slot \in Int /\ clock.cycle \in Int
      BY <3>1, SlotFacts
    <3>3. QED
      BY <2>2, <3>1, <3>2 DEF Advanced
  <2>3. QED
    BY <2>1, <2>2
<1>2. QED
  BY <1>1 DEF Sched

\* Every step keeps the shape of the state.
LEMMA ShapePreserved == Shape /\ [Next]_vars => Shape'
<1> SUFFICES ASSUME Shape, [Next]_vars PROVE Shape'
  OBVIOUS
<1>0. Shore \in Procs
  BY DEF Procs
<1>1. ASSUME UNCHANGED <<multicast, clock, engine, late>>,
             "up" \in DOMAIN shore', shore'.up = shore.up
      PROVE  Shape'
  BY <1>1 DEF Shape, Sched
<1>2. ASSUME NEW v \in Active, NEW codes, OnVehicleCommand(v, codes)
      PROVE  Shape'
  <2>1. "up" \in DOMAIN shore' /\ shore'.up = shore.up
    BY <1>2 DEF OnVehicleCommand, ClearCommands, Shape
  <2>2. QED
    BY <1>1, <1>2, <2>1 DEF OnVehicleCommand
<1>3. CASE ShoreReceives
  <2>1. "up" \in DOMAIN shore' /\ shore'.up = shore.up
    BY <1>3 DEF ShoreReceives, Shape
  <2>2. QED
    BY <1>1, <1>3, <2>1 DEF ShoreReceives
<1>5. CASE ShoreIterates
  <2> DEFINE e == Advanced(engine[Shore], Sched(Shore), clock)
  <2>1. engine' = [engine EXCEPT ![Shore] = e] \/ engine' = [engine EXCEPT ![Shore] = InitEngine]
    BY <1>5 DEF ShoreIterates
  <2>2. "up" \in DOMAIN shore' /\ (~shore'.up => engine' = [engine EXCEPT ![Shore] = InitEngine])
    BY <1>5 DEF ShoreIterates, AfterReceiveSlot, AfterEncoding, ClearCommands, Shape
  <2>3. ~shore'.up => engine'[Shore].slot = Stopped
    BY <1>0, <2>2 DEF Shape, InitEngine
  <2>4. Due(Shore) /\ UNCHANGED <<multicast, clock, late>>
    BY <1>5 DEF ShoreIterates
  <2>5. QED
    BY <1>0, <2>1, <2>2, <2>3, <2>4, IterateKeepsShape
<1>6. ASSUME NEW v \in Active, VehicleReceives(v)
      PROVE  Shape'
  BY <1>1, <1>6 DEF VehicleReceives, Shape
<1>7. ASSUME NEW v \in Active, VehicleIterates(v)
      PROVE  Shape'
  <2>1. v \in Procs /\ v # Shore
    BY PursuitParameters DEF Procs, Vehicles, Shore
  <2>2. /\ Due(v) /\ UNCHANGED <<multicast, clock, late, shore>>
        /\ engine' = [engine EXCEPT ![v] = Advanced(engine[v], Sched(v), clock)]
    BY <1>7 DEF VehicleIterates
  <2>3. engine'[Shore] = engine[Shore]
    BY <1>0, <2>1, <2>2 DEF Shape
  <2>4. "up" \in DOMAIN shore' /\ (~shore'.up => engine'[Shore].slot = Stopped)
    BY <2>2, <2>3 DEF Shape
  <2>5. QED
    BY <2>1, <2>2, <2>4, IterateKeepsShape
<1>8. ASSUME NEW P \in SUBSET Procs, OnRun(P)
      PROVE  Shape'
  <2>1. /\ UNCHANGED <<multicast, clock, late, shore>>
        /\ engine' = [p \in Procs |-> IF p \in P /\ Running(p) THEN Run(Sched(p), clock) ELSE engine[p]]
    BY <1>8 DEF OnRun
  <2>2. \A p \in Procs : /\ engine'[p] \in [slot : Int, cycle : Int]
                         /\ engine'[p].slot \in {Stopped} \cup Slots(Sched(p))
    BY <2>1, RunIsOnTime DEF Shape
  <2>3. ~shore'.up => engine'[Shore].slot = Stopped
    BY <1>0, <2>1 DEF Running, Shape
  <2>4. engine' \in [Procs -> [slot : Int, cycle : Int]]
    BY <2>1, <2>2
  <2>5. QED
    BY <2>1, <2>2, <2>3, <2>4 DEF Shape, Sched
<1>9. ASSUME NEW P \in SUBSET Procs, OnStop(P)
      PROVE  Shape'
  <2>1. /\ UNCHANGED <<multicast, clock, late, shore>>
        /\ engine' = [p \in Procs |-> IF p \in P THEN [engine[p] EXCEPT !.slot = Stopped] ELSE engine[p]]
    BY <1>9 DEF OnStop
  <2>2. \A p \in Procs : /\ engine'[p] \in [slot : Int, cycle : Int]
                         /\ engine'[p].slot = Stopped \/ engine'[p] = engine[p]
    BY <2>1 DEF Stopped, Shape
  <2>3. engine' \in [Procs -> [slot : Int, cycle : Int]]
    BY <2>1, <2>2
  <2>4. QED
    BY <1>0, <2>1, <2>2, <2>3 DEF Shape, Sched
<1>10. CASE Tick
  <2>1. clock' \in [cycle : 0 .. Cycles - 1, pos : 0 .. Sched(Shore).period - 1]
    <3>1. IsSchedule(Sched(Shore))
      BY <1>0, SchedulesAreSchedules DEF Sched, Shape
    <3>2. Sched(Shore).period \in Nat
      BY <3>1 DEF IsSchedule
    <3>3. QED
      BY <1>10, <3>2, PursuitParameters DEF Tick, Later, Shape
  <2>2. QED
    BY <1>10, <2>1 DEF Tick, Sched, Shape
<1>11. CASE UNCHANGED vars
  BY <1>1, <1>11 DEF vars, Shape
<1>12. QED
  BY <1>2, <1>3, <1>5, <1>6, <1>7, <1>8, <1>9, <1>10, <1>11 DEF Next, Targets
-----------------------------------------------------------------------------
\* A step that touches neither the engines nor the air.
LEMMA OthersPreserve ==
  ASSUME Orderly, UNCHANGED <<multicast, clock, engine, air>>
  PROVE  Orderly'
BY DEF Orderly, Timely, OnTime, JustOver, Due, Sched, SoundInSlot, OneSound

\* run and stop leave no engine behind its time.
LEMMA OrdersPreserve ==
  ASSUME Shape, Orderly, NEW P \in SUBSET Procs, OnRun(P) \/ OnStop(P)
  PROVE  Orderly'
<1>1. UNCHANGED <<multicast, clock, air>>
  BY DEF OnRun, OnStop
<1>2. SUFFICES Timely' /\ (\A sound \in air' : SoundInSlot(sound)') /\ OneSound'
  BY <1>1 DEF Orderly
<1>3. \A p \in Procs : Sched(p)' = Sched(p)
  BY <1>1 DEF Sched
<1>4. \A p \in Procs : IsRunning(engine'[p]) => OnTime(p)' \/ engine'[p] = engine[p]
  <2>1. CASE OnRun(P)
    <3>1. \A p \in Procs : engine'[p] = Run(Sched(p), clock) \/ engine'[p] = engine[p]
      BY <2>1 DEF OnRun
    <3>2. QED
      BY <1>1, <1>3, <3>1, RunIsOnTime DEF OnTime, Shows
  <2>2. CASE OnStop(P)
    <3>1. \A p \in Procs : engine'[p].slot = Stopped \/ engine'[p] = engine[p]
      BY <2>2 DEF OnStop, Shape
    <3>2. QED
      BY <3>1 DEF IsRunning
  <2>3. QED
    BY <2>1, <2>2
<1>5. Timely'
  BY <1>1, <1>2, <1>3, <1>4 DEF Timely, OnTime, JustOver, Due, Orderly
<1>6. \A sound \in air' : SoundInSlot(sound)'
  BY <1>1, <1>2, <1>3, <1>4 DEF SoundInSlot, OnTime, Orderly
<1>7. QED
  BY <1>1, <1>2, <1>5, <1>6 DEF OneSound, Orderly

\* A sound lasts no longer than its slot and the next unit of time.
LEMMA TickPreserves ==
  ASSUME Shape, Orderly, Shape', Tick, ~Oversleeps
  PROVE  Orderly'
<1>1. SUFFICES Timely' /\ (\A sound \in air' : SoundInSlot(sound)') /\ OneSound'
  BY DEF Orderly
<1>3. clock' = Later /\ UNCHANGED <<multicast, engine, shore>>
  BY DEF Tick
<1>4. Timely'
  BY <1>3, TickIsTimely DEF Orderly
<1>5. \/ air' = {}
      \/ \E sound \in air : ~sound.old /\ air' = {[from |-> sound.from, msg |-> sound.msg, old |-> TRUE]}
  BY DEF Tick, Propagate
<1>6. ASSUME NEW sound \in air, ~sound.old,
             air' = {[from |-> sound.from, msg |-> sound.msg, old |-> TRUE]}
      PROVE  \A a \in air' : SoundInSlot(a)'
  <2> DEFINE p == sound.from
             a == [from |-> p, msg |-> sound.msg, old |-> TRUE]
  <2>1. PICK t \in Slots(Sched(p)) : Transmits(p, t, multicast) /\ clock.pos = StartOf(t, Sched(p)) + 0
    BY <1>6 DEF Orderly, SoundInSlot
  <2>2. /\ p \in Procs /\ multicast \in BOOLEAN /\ IsSchedule(Sched(p))
        /\ Sched(p).period = Sched(Shore).period
    BY <1>6, SchedulesAreSchedules DEF Orderly, SoundInSlot, Shape, Sched
  <2>3. StartOf(t, Sched(p)) + 2 <= Sched(p).period
    BY <2>1, <2>2, SlotsApart DEF Sched
  <2>4. StartOf(t, Sched(p)) \in Nat /\ Sched(p).period \in Nat
    BY <2>2, SlotFacts
  <2>5. clock'.pos = StartOf(t, Sched(p)) + 1
    BY <1>3, <2>1, <2>2, <2>3, <2>4 DEF Later, Shape
  <2>6. Sched(p)' = Sched(p)
    BY <1>3 DEF Sched
  <2>7. SoundInSlot(a)'
    BY <1>3, <2>1, <2>2, <2>5, <2>6 DEF SoundInSlot
  <2>8. QED
    BY <1>6, <2>7
<1>7. QED
  BY <1>4, <1>5, <1>6 DEF OneSound

\* Order is kept in every step in which nobody oversleeps.
LEMMA NextOrderly ==
  ASSUME Shape, Orderly, [Next]_vars, Tick => ~Oversleeps
  PROVE  Orderly'
<1>0. Shape' /\ Shore \in Procs
  BY ShapePreserved DEF Procs
<1>1. ASSUME NEW v \in Active, NEW codes, OnVehicleCommand(v, codes)
      PROVE  Orderly'
  BY <1>0, <1>1, OthersPreserve DEF OnVehicleCommand
<1>2. CASE ShoreReceives
  BY <1>0, <1>2, OthersPreserve DEF ShoreReceives
<1>3. CASE ShoreIterates
  <2> DEFINE e == Advanced(engine[Shore], Sched(Shore), clock)
             reset == IF e.slot = 0 THEN [shore EXCEPT !.sent_reports = [v \in Vehicles |-> FALSE]]
                      ELSE shore
             begun == IF e.slot \in ClearSlots(multicast) THEN ClearCommands(reset) ELSE reset
             sends == Sends(begun, e.slot)
             fails == sends /\ ~RequiredFieldsSet(Outgoing(begun, e.slot))
             msg == Outgoing(begun, e.slot)
             next == IF fails THEN InitEngine ELSE e
             does == sends /\ ~fails
  <2>1. /\ Due(Shore) /\ UNCHANGED <<multicast, clock>>
        /\ engine' = [engine EXCEPT ![Shore] = next]
        /\ air' = (IF does THEN Transmitted(Shore, msg) ELSE air)
    BY <1>3 DEF ShoreIterates
  <2>3. sends \in BOOLEAN /\ does \in BOOLEAN
    BY DEF Sends
  <2>4. does => Transmits(Shore, e.slot, multicast) /\ next = e
    BY DEF Sends, Transmits
  <2>5. next = Advanced(engine[Shore], Sched(Shore), clock) \/ next = InitEngine
    OBVIOUS
  <2> HIDE DEF e, reset, begun, sends, fails, msg, next, does
  <2>6. does => next # InitEngine /\ Transmits(Shore, next.slot, multicast)
    <3>1. does => e.slot # Stopped
      BY <2>4 DEF Transmits, CommandFor, Stopped
    <3>2. QED
      BY <2>4, <3>1 DEF InitEngine
  <2>7. QED
    BY <1>0, <2>1, <2>3, <2>5, <2>6, IteratePreserves
<1>4. ASSUME NEW v \in Active, VehicleReceives(v)
      PROVE  Orderly'
  BY <1>0, <1>4, OthersPreserve DEF VehicleReceives
<1>5. ASSUME NEW v \in Active, VehicleIterates(v)
      PROVE  Orderly'
  <2> DEFINE e == Advanced(engine[v], Sched(v), clock)
             does == e.slot = ReportSlot(v, multicast)
             msg == [id |-> v, ack |-> vehicle[v].ack, nr |-> vehicle[v].nr]
  <2>1. v \in Procs /\ v \in Vehicles /\ v # Shore
    BY PursuitParameters DEF Procs, Vehicles, Shore
  <2>2. /\ Due(v) /\ UNCHANGED <<multicast, clock>>
        /\ engine' = [engine EXCEPT ![v] = e]
        /\ air' = (IF does THEN Transmitted(v, msg) ELSE air)
    BY <1>5 DEF VehicleIterates
  <2>3. does => e # InitEngine /\ Transmits(v, e.slot, multicast)
    BY <2>1 DEF Transmits, ReportSlot, InitEngine, Stopped, Vehicles
  <2>5. e = Advanced(engine[v], Sched(v), clock) /\ does \in BOOLEAN
    OBVIOUS
  <2> HIDE DEF e, does, msg
  <2>6. QED
    BY <1>0, <2>1, <2>2, <2>3, <2>5, IteratePreserves
<1>6. ASSUME NEW P \in Targets, OnRun(P) \/ OnStop(P)
      PROVE  Orderly'
  BY <1>0, <1>6, OrdersPreserve DEF Targets
<1>7. CASE Tick
  BY <1>0, <1>7, TickPreserves
<1>8. CASE UNCHANGED vars
  BY <1>0, <1>8, OthersPreserve DEF vars
<1>9. QED
  BY <1>1, <1>2, <1>3, <1>4, <1>5, <1>6, <1>7, <1>8 DEF Next

LEMMA OnlyOversleepingIsLate ==
  ASSUME [Next]_vars
  PROVE  late' = late \/ (Tick /\ late' = late + 1)
<1>1. ASSUME NEW v \in Active, NEW codes, OnVehicleCommand(v, codes) PROVE late' = late
  BY <1>1 DEF OnVehicleCommand
<1>2. ASSUME NEW v \in Active, VehicleReceives(v) \/ VehicleIterates(v) PROVE late' = late
  BY <1>2 DEF VehicleReceives, VehicleIterates
<1>3. ASSUME NEW P \in Targets, OnRun(P) \/ OnStop(P) PROVE late' = late
  BY <1>3 DEF OnRun, OnStop
<1>4. ShoreReceives \/ ShoreIterates => late' = late
  BY DEF ShoreReceives, ShoreIterates
<1>5. Tick => late' = late \/ late' = late + 1
  BY DEF Tick
<1> QED BY <1>1, <1>2, <1>3, <1>4, <1>5 DEF Next, vars

\* The invariant is inductive.
LEMMA NextIInv == IInv /\ [Next]_vars => IInv'
<1> SUFFICES ASSUME IInv, [Next]_vars, late' = 0 PROVE Orderly'
  BY ShapePreserved DEF IInv
<1>1. late = 0 /\ (Tick => ~Oversleeps)
  <2>1. late \in Nat
    BY DEF IInv, Shape
  <2>2. Tick /\ Oversleeps => late' = late + 1
    BY DEF Tick
  <2> QED BY <2>1, <2>2, OnlyOversleepingIsLate
<1> QED BY <1>1, NextOrderly DEF IInv

LEMMA OneSoundIsNoCollision == IInv => NoCollision
<1> SUFFICES ASSUME IInv, late = 0 PROVE Cardinality(air) <= 1
  BY DEF NoCollision
<1>1. CASE air = {}
  BY <1>1, FS_EmptySet
<1>2. CASE air # {}
  <2>1. PICK a \in air : TRUE
    BY <1>2
  <2>2. air = {a}
    BY <2>1 DEF IInv, Orderly, OneSound
  <2>3. QED
    BY <2>2, FS_Singleton
<1>3. QED
  BY <1>1, <1>2

\* As long as nobody is late the modems never sound at once, whenever the
\* operator tells which programs to run and to stop.
THEOREM NoModemsMeet == Spec => []NoCollision
<1>1. Init => IInv
  BY InitIInv
<1>2. IInv /\ [Next]_vars => IInv'
  BY NextIInv
<1>3. IInv => NoCollision
  BY OneSoundIsNoCollision
<1>4. QED
  BY <1>1, <1>2, <1>3, PTL DEF Spec
-----------------------------------------------------------------------------
(* The types *)

LEMMA BoundedSeqs ==
  ASSUME NEW S, NEW n \in Nat
  PROVE  /\ <<>> \in BoundedSeq(S, n)
         /\ \A s \in BoundedSeq(S, n) : s # <<>> => Tail(s) \in BoundedSeq(S, n)
<1>1. \A s : s \in BoundedSeq(S, n) <=> \E m \in 0 .. n : s \in [1 .. m -> S]
  BY DEF BoundedSeq, SeqOf
<1>2. <<>> \in [1 .. 0 -> S]
  OBVIOUS
<1>3. ASSUME NEW m \in 0 .. n, NEW s \in [1 .. m -> S], s # <<>>
      PROVE  \E k \in 0 .. n : Tail(s) \in [1 .. k -> S]
  <2>1. s \in Seq(S) /\ Len(s) = m
    BY <1>3
  <2>2. m # 0
    BY <1>3, <2>1
  <2>3. Tail(s) \in Seq(S) /\ Len(Tail(s)) = m - 1
    BY <2>1, <1>3
  <2>4. Tail(s) \in [1 .. m - 1 -> S]
    BY <2>3, LenProperties
  <2>5. m - 1 \in 0 .. n
    BY <2>2
  <2> QED BY <2>4, <2>5
<1>4. <<>> \in BoundedSeq(S, n)
  <2>1. 0 \in 0 .. n
    OBVIOUS
  <2> QED BY <1>1, <1>2, <2>1
<1>5. ASSUME NEW s \in BoundedSeq(S, n), s # <<>> PROVE Tail(s) \in BoundedSeq(S, n)
  <2>1. PICK m \in 0 .. n : s \in [1 .. m -> S]
    BY <1>1
  <2> QED BY <1>1, <1>3, <1>5, <2>1
<1> QED BY <1>4, <1>5

PostedReport == [good : BOOLEAN, ack : BOOLEAN, nr : 0 .. MaxCommands, last : 0 .. MaxCommands]
History == [posted : 0 .. MaxCommands, sent : [Vehicles -> 0 .. MaxCommands],
            reports : [Vehicles -> Seq(PostedReport)], calm : 0 .. 2]
ShoreMail == [msg : Report, fresh : BOOLEAN]
VehicleMail == [msg : Command, fresh : BOOLEAN]

\* The inductive invariant: with the types of what is not read off the state's shape.
Typed ==
  /\ Shape
  /\ \A p \in Procs : engine[p].cycle \in 0 .. Cycles - 1
  /\ shore \in ShoreState
  /\ vehicle \in [Vehicles -> VehicleState]
  /\ \A s \in air : s.from \in Procs /\ s.msg \in IF s.from = Shore THEN Command ELSE Report
  /\ DOMAIN inbox = Procs
  /\ inbox[Shore] \in Seq(ShoreMail)
  /\ \A v \in Active : inbox[v] \in Seq(VehicleMail)
  /\ history \in History

LEMMA TypedIsTypeOK == Typed => TypeOK
BY DEF Typed, TypeOK, Shape

LEMMA Numbers ==
  /\ MaxCommands \in Nat /\ 0 \in 0 .. MaxCommands /\ MaxLength \in Nat
  /\ Active \subseteq Vehicles /\ Active \subseteq Procs /\ Shore \in Procs /\ Shore \notin Vehicles
BY PursuitParameters DEF Procs, Vehicles, Shore

LEMMA ClearedType == Cleared \in Command /\ [Cleared EXCEPT !.has = [v \in Vehicles |-> "false"]] \in Command
<1>1. Nothing \in Trajectory
  BY Numbers, BoundedSeqs DEF Nothing, Trajectory
<1> QED BY <1>1 DEF Cleared, Command, Field

LEMMA ClearCommandsType == \A s \in ShoreState : ClearCommands(s) \in ShoreState
BY ClearedType DEF ClearCommands, ShoreState

LEMMA TypedInitially == Init => Typed
<1> SUFFICES ASSUME Init PROVE Typed
  OBVIOUS
<1>1. Shape
  BY InitIInv DEF IInv
<1>2. \A p \in Procs : engine[p].cycle \in 0 .. Cycles - 1
  BY PursuitParameters DEF Init, InitEngine
<1>3. shore \in ShoreState
  BY ClearedType DEF Init, ShoreState
<1>4. vehicle \in [Vehicles -> VehicleState]
  BY Numbers, BoundedSeqs DEF Init, VehicleState
<1>5. history \in History
  BY Numbers DEF Init, History
<1>6. DOMAIN inbox = Procs /\ \A p \in Procs : inbox[p] = <<>>
  BY DEF Init
<1> QED BY <1>1, <1>2, <1>3, <1>4, <1>5, <1>6, Numbers DEF Init, Typed

\* The engine of a program that goes on.
LEMMA AdvancedCycle ==
  ASSUME Typed, NEW p \in Procs
  PROVE  Advanced(engine[p], Sched(p), clock).cycle \in 0 .. Cycles - 1
BY DEF Typed, Shape, Advanced

LEMMA ShoreReportType ==
  ASSUME Typed, NEW mail \in ShoreMail
  PROVE  Posted(mail.msg, history.sent[mail.msg.id]) \in PostedReport /\ mail.msg.id \in Vehicles
BY DEF Typed, ShoreMail, Report, History, Posted, PostedReport

\* What the shore makes of itself in a slot.
LEMMA ShoreIteratesType ==
  ASSUME Typed, ShoreIterates
  PROVE  /\ shore' \in ShoreState
         /\ history' \in History
         /\ \A s \in air' : s.from \in Procs /\ s.msg \in IF s.from = Shore THEN Command ELSE Report
<1> DEFINE e == Advanced(engine[Shore], Sched(Shore), clock)
           reset == IF e.slot = 0 THEN [shore EXCEPT !.sent_reports = [v \in Vehicles |-> FALSE]]
                    ELSE shore
           begun == IF e.slot \in ClearSlots(multicast) THEN ClearCommands(reset) ELSE reset
           msg == Outgoing(begun, e.slot)
           sends == Sends(begun, e.slot)
           fails == sends /\ ~RequiredFieldsSet(msg)
           sent == IF sends THEN AfterEncoding(begun) ELSE begun
           ended == AfterReceiveSlot(sent, e.slot)
           reported == {v \in Vehicles : ended.sent_reports[v] /\ ~sent.sent_reports[v]}
<1>1. /\ shore' = IF fails THEN [begun EXCEPT !.up = FALSE] ELSE ended
      /\ air' = IF sends /\ ~fails THEN Transmitted(Shore, msg) ELSE air
      /\ history' = IF fails THEN Disturbed ELSE ShoreHistory(e.slot, begun, reported, sends)
  BY DEF ShoreIterates
<1>2. reset \in ShoreState
  BY DEF Typed, ShoreState
<1>3. begun \in ShoreState
  <2> HIDE DEF reset
  <2> QED BY <1>2, ClearCommandsType
<1> HIDE DEF begun
<1>4. msg \in Command
  <2>1. begun.dccl_command \in Command
    BY <1>3 DEF ShoreState
  <2>2. [begun.dccl_command EXCEPT !.has =
          [v \in Vehicles |-> IF v \in CommandFor(e.slot, multicast) THEN "true" ELSE @[v]]] \in Command
    BY <2>1 DEF Command, Field
  <2> QED BY <2>1, <2>2 DEF Outgoing
<1>5. sent \in ShoreState
  BY <1>3, ClearedType DEF AfterEncoding, ShoreState
<1> HIDE DEF sent
<1>6. ended \in ShoreState
  <2>1. [v \in Vehicles |-> sent.sent_reports[v] \/ v \in Overdue(e.slot)] \in [Vehicles -> BOOLEAN]
    BY <1>5 DEF ShoreState
  <2>2. [sent EXCEPT !.sent_reports = [v \in Vehicles |-> @[v] \/ v \in Overdue(e.slot)]] \in ShoreState
    BY <1>5, <2>1 DEF ShoreState
  <2>3. [sent EXCEPT !.got_receive = FALSE] \in ShoreState
    BY <1>5 DEF ShoreState
  <2> QED BY <2>2, <2>3 DEF AfterReceiveSlot
<1> HIDE DEF ended
<1>7. shore' \in ShoreState
  <2>1. [begun EXCEPT !.up = FALSE] \in ShoreState
    BY <1>3 DEF ShoreState
  <2> QED BY <1>1, <1>6, <2>1
<1>8. Disturbed \in History
  BY DEF Typed, History, Disturbed
<1>9. ASSUME NEW set, NEW encoded PROVE ShoreHistory(e.slot, begun, set, encoded) \in History
  <2>1. Failed \in PostedReport /\ <<>> \in Seq(PostedReport)
    BY Numbers DEF Failed, PostedReport
  <2>2. /\ history.posted \in 0 .. MaxCommands /\ history.sent \in [Vehicles -> 0 .. MaxCommands]
        /\ history.reports \in [Vehicles -> Seq(PostedReport)] /\ history.calm \in 0 .. 2
        /\ history = [posted |-> history.posted, sent |-> history.sent,
                      reports |-> history.reports, calm |-> history.calm]
    BY DEF Typed, History
  <2> DEFINE reports == [v \in Vehicles |->
        IF v \in set THEN Append(IF e.slot = 0 THEN <<>> ELSE history.reports[v], Failed)
        ELSE IF e.slot = 0 THEN <<>> ELSE history.reports[v]]
             numbers == [v \in Vehicles |->
        IF encoded /\ msg.has[v] = "true" THEN msg.cmd[v].nr ELSE history.sent[v]]
             calm == IF e.slot # 0 THEN history.calm
                     ELSE IF history.calm = 0 THEN IF Settled THEN 1 ELSE 0 ELSE 2
  <2>3. reports \in [Vehicles -> Seq(PostedReport)]
    <3>1. \A v \in Vehicles : (IF e.slot = 0 THEN <<>> ELSE history.reports[v]) \in Seq(PostedReport)
      BY <2>1, <2>2
    <3>2. \A v \in Vehicles : Append(IF e.slot = 0 THEN <<>> ELSE history.reports[v], Failed) \in Seq(PostedReport)
      BY <2>1, <3>1
    <3> QED BY <3>1, <3>2
  <2>4. numbers \in [Vehicles -> 0 .. MaxCommands]
    <3>1. \A v \in Vehicles : msg.cmd[v].nr \in 0 .. MaxCommands
      BY <1>4 DEF Command, Trajectory
    <3> QED BY <2>2, <3>1
  <2>5. calm \in 0 .. 2
    BY <2>2
  <2>6. ShoreHistory(e.slot, begun, set, encoded)
          = [posted |-> history.posted, sent |-> numbers, reports |-> reports, calm |-> calm]
    <3>1. ShoreHistory(e.slot, begun, set, encoded)
            = [history EXCEPT !.reports = reports, !.sent = numbers, !.calm = calm]
      BY Zenon DEF ShoreHistory
    <3> HIDE DEF reports, numbers, calm
    <3> QED BY <2>2, <3>1
  <2> HIDE DEF reports, numbers, calm
  <2> QED BY <2>2, <2>3, <2>4, <2>5, <2>6 DEF History
<1>10. history' \in History
  <2> HIDE DEF reported, sends, fails
  <2> QED BY <1>1, <1>8, <1>9
<1>11. \A s \in air' : s.from \in Procs /\ s.msg \in IF s.from = Shore THEN Command ELSE Report
  <2> HIDE DEF msg, sends, fails
  <2> QED BY <1>1, <1>4, Numbers DEF Transmitted, Typed
<1> QED BY <1>7, <1>10, <1>11

\* What a program has not read stays what it was, if only its age changes.
LEMMA HearType ==
  ASSUME Typed, NEW sound, NEW listeners,
         listeners = {} \/ /\ sound.from \in Procs
                           /\ sound.msg \in IF sound.from = Shore THEN Command ELSE Report
                           /\ listeners \subseteq Listeners(sound)
  PROVE  LET h == Hear(sound, listeners) IN
           /\ DOMAIN h = Procs
           /\ h[Shore] \in Seq(ShoreMail)
           /\ \A v \in Active : h[v] \in Seq(VehicleMail)
<1> DEFINE older(p) == [i \in DOMAIN inbox[p] |-> [inbox[p][i] EXCEPT !.fresh = FALSE]]
           mail == [msg |-> sound.msg, fresh |-> TRUE]
           more(p) == IF p \in listeners /\ Running(p) THEN <<mail>> ELSE <<>>
           h == Hear(sound, listeners)
<1>1. h = [p \in Procs |-> older(p) \o more(p)]
  BY DEF Hear
<1>2. ASSUME NEW M, NEW p \in Procs, inbox[p] \in Seq([msg : M, fresh : BOOLEAN]),
             p \in listeners => sound.msg \in M
      PROVE  older(p) \o more(p) \in Seq([msg : M, fresh : BOOLEAN])
  <2> DEFINE S == [msg : M, fresh : BOOLEAN]
  <2>1. Len(inbox[p]) \in Nat /\ inbox[p] \in [1 .. Len(inbox[p]) -> S]
        /\ DOMAIN inbox[p] = 1 .. Len(inbox[p])
    BY <1>2, LenProperties
  <2>2. \A i \in DOMAIN inbox[p] : [inbox[p][i] EXCEPT !.fresh = FALSE] \in S
    BY <2>1
  <2>3. older(p) \in [1 .. Len(inbox[p]) -> S]
    <3> HIDE DEF S
    <3> QED BY <2>1, <2>2
  <2>4. older(p) \in Seq(S)
    BY <2>1, <2>3, SeqDef
  <2>5. p \in listeners => mail \in S
    BY <1>2
  <2>6. more(p) \in Seq(S)
    <3> HIDE DEF S, mail
    <3> QED BY <2>5
  <2> HIDE DEF older, more, S
  <2>7. older(p) \o more(p) \in Seq(S)
    BY <2>4, <2>6
  <2> QED BY <2>7 DEF S
<1>3. Shore \in listeners => sound.msg \in Report
  BY Numbers DEF Listeners, Procs
<1>4. \A v \in Active : v \in listeners => sound.msg \in Command
  BY Numbers DEF Listeners
<1>5. older(Shore) \o more(Shore) \in Seq(ShoreMail)
  <2>1. inbox[Shore] \in Seq([msg : Report, fresh : BOOLEAN])
    BY DEF Typed, ShoreMail
  <2> HIDE DEF older, more
  <2> QED BY <1>2, <1>3, <2>1, Numbers DEF ShoreMail
<1>6. ASSUME NEW v \in Active PROVE older(v) \o more(v) \in Seq(VehicleMail)
  <2>1. inbox[v] \in Seq([msg : Command, fresh : BOOLEAN]) /\ v \in Procs
    BY Numbers DEF Typed, VehicleMail
  <2> HIDE DEF older, more
  <2> QED BY <1>2, <1>4, <2>1 DEF VehicleMail
<1> HIDE DEF older, more
<1> QED BY <1>1, <1>5, <1>6, Numbers

LEMMA DisturbedType == Typed => Disturbed \in History
BY DEF Typed, History, Disturbed

LEMMA TypedInductive == Typed /\ [Next]_vars => Typed'
<1> SUFFICES ASSUME Typed, [Next]_vars PROVE Typed'
  OBVIOUS
<1> USE DEF Typed
<1>0. Shape' /\ Shape
  BY ShapePreserved
<1>1. ASSUME NEW v \in Active, NEW codes \in BoundedSeq(Codes, MaxLength), OnVehicleCommand(v, codes)
      PROVE  Typed'
  <2> DEFINE trajectory == [nr |-> history.posted + 1, codes |-> codes]
             before == IF multicast THEN shore ELSE ClearCommands(shore)
  <2>1. /\ history.posted < MaxCommands
        /\ shore' = [before EXCEPT !.dccl_command.cmd[v] = trajectory,
                                   !.dccl_command.has[v] = "true", !.got_commands[v] = TRUE]
        /\ history' = [history EXCEPT !.posted = @ + 1]
        /\ UNCHANGED <<multicast, clock, engine, vehicle, air, inbox>>
    BY <1>1 DEF OnVehicleCommand
  <2>2. before \in ShoreState
    BY ClearCommandsType
  <2>3. history.posted + 1 \in 0 .. MaxCommands
    BY <2>1, Numbers DEF History
  <2>4. trajectory \in Trajectory /\ v \in Vehicles
    BY <1>1, <2>3, Numbers DEF Trajectory
  <2> HIDE DEF before, trajectory
  <2>5. shore' \in ShoreState
    BY <2>1, <2>2, <2>4 DEF ShoreState, Command, Field
  <2>6. history' \in History
    BY <2>1, <2>3 DEF History
  <2> QED BY <1>0, <2>1, <2>5, <2>6
<1>2. CASE ShoreReceives
  <2> DEFINE mail == Head(inbox[Shore])
  <2>1. mail \in ShoreMail /\ Tail(inbox[Shore]) \in Seq(ShoreMail)
    BY <1>2 DEF ShoreReceives
  <2>2. Posted(mail.msg, history.sent[mail.msg.id]) \in PostedReport /\ mail.msg.id \in Vehicles
    BY <2>1, ShoreReportType
  <2>3. inbox' = [inbox EXCEPT ![Shore] = Tail(@)] /\ UNCHANGED <<engine, clock, vehicle, air>>
    BY <1>2 DEF ShoreReceives
  <2>4. DOMAIN inbox' = Procs /\ inbox'[Shore] \in Seq(ShoreMail)
        /\ \A v \in Active : inbox'[v] \in Seq(VehicleMail)
    BY <2>1, <2>3, Numbers
  <2>5. shore' \in ShoreState /\ history' \in History
    <3>1. CASE UNCHANGED <<shore, history>>
      BY <3>1
    <3>2. CASE ~UNCHANGED <<shore, history>>
      <4>1. /\ shore' = [shore EXCEPT !.got_receive = TRUE, !.sent_reports[mail.msg.id] = TRUE]
            /\ history' = [history EXCEPT !.reports[mail.msg.id] =
                             Append(@, Posted(mail.msg, history.sent[mail.msg.id]))]
        BY <1>2, <3>2 DEF ShoreReceives
      <4>2. shore' \in ShoreState
        BY <2>2, <4>1 DEF ShoreState
      <4>3. Append(history.reports[mail.msg.id], Posted(mail.msg, history.sent[mail.msg.id]))
              \in Seq(PostedReport)
        BY <2>2 DEF History
      <4>4. history' \in History
        BY <2>2, <4>1, <4>3 DEF History
      <4> QED BY <4>2, <4>4
    <3> QED BY <3>1, <3>2
  <2> QED BY <1>0, <2>3, <2>4, <2>5
<1>3. CASE ShoreIterates
  <2>1. shore' \in ShoreState /\ history' \in History
        /\ \A s \in air' : s.from \in Procs /\ s.msg \in IF s.from = Shore THEN Command ELSE Report
    BY <1>3, ShoreIteratesType
  <2>2. \A p \in Procs : engine'[p].cycle \in 0 .. Cycles - 1
    <3>1. \/ engine' = [engine EXCEPT ![Shore] = Advanced(engine[Shore], Sched(Shore), clock)]
          \/ engine' = [engine EXCEPT ![Shore] = InitEngine]
      BY <1>3 DEF ShoreIterates
    <3>2. InitEngine.cycle \in 0 .. Cycles - 1
      BY PursuitParameters DEF InitEngine
    <3>3. engine \in [Procs -> [slot : Int, cycle : Int]]
      BY DEF Shape
    <3> QED BY <3>1, <3>2, <3>3, AdvancedCycle, Numbers
  <2> QED BY <1>0, <1>3, <2>1, <2>2 DEF ShoreIterates
<1>4. ASSUME NEW v \in Active, VehicleReceives(v) PROVE Typed'
  <2> DEFINE command == Head(inbox[v]).msg
  <2>1. Head(inbox[v]) \in VehicleMail /\ Tail(inbox[v]) \in Seq(VehicleMail)
    BY <1>4 DEF VehicleReceives
  <2>2. command \in Command /\ v \in Vehicles /\ v \in Procs /\ v # Shore
    BY <2>1, Numbers DEF VehicleMail
  <2>3. [trajectory |-> command.cmd[v].codes, ack |-> TRUE, nr |-> command.cmd[v].nr] \in VehicleState
    BY <2>2 DEF VehicleState, Command, Trajectory
  <2>4. vehicle' \in [Vehicles -> VehicleState]
    BY <1>4, <2>3 DEF VehicleReceives
  <2>5. DOMAIN inbox' = Procs /\ inbox'[Shore] \in Seq(ShoreMail)
        /\ \A w \in Active : inbox'[w] \in Seq(VehicleMail)
    BY <1>4, <2>1, <2>2, Numbers DEF VehicleReceives
  <2> QED BY <1>0, <1>4, <2>4, <2>5 DEF VehicleReceives
<1>5. ASSUME NEW v \in Active, VehicleIterates(v) PROVE Typed'
  <2> DEFINE e == Advanced(engine[v], Sched(v), clock)
             reports == e.slot = ReportSlot(v, multicast)
             report == [id |-> v, ack |-> vehicle[v].ack, nr |-> vehicle[v].nr]
             w == IF reports THEN AfterReport(vehicle[v]) ELSE vehicle[v]
  <2>1. v \in Vehicles /\ v \in Procs /\ v # Shore
    BY Numbers
  <2>2. \A p \in Procs : engine'[p].cycle \in 0 .. Cycles - 1
    BY <1>5, <2>1, AdvancedCycle DEF VehicleIterates, Shape
  <2>3. report \in Report
    BY <2>1 DEF Report, VehicleState
  <2>4. w \in VehicleState
    BY <2>1, Numbers DEF AfterReport, VehicleState
  <2> HIDE DEF w
  <2>5. CarryOut(w.trajectory) \in BoundedSeq(Codes, MaxLength)
    BY <2>4, Numbers, BoundedSeqs DEF CarryOut, VehicleState
  <2>6. [w EXCEPT !.trajectory = CarryOut(@)] \in VehicleState
    BY <2>4, <2>5 DEF VehicleState
  <2>7. vehicle' \in [Vehicles -> VehicleState]
    BY <1>5, <2>6 DEF VehicleIterates, w
  <2>8. \A s \in air' : s.from \in Procs /\ s.msg \in IF s.from = Shore THEN Command ELSE Report
    BY <1>5, <2>1, <2>3 DEF VehicleIterates, Transmitted
  <2> QED BY <1>0, <1>5, <2>2, <2>7, <2>8 DEF VehicleIterates
<1>6. ASSUME NEW P \in SUBSET Procs, OnRun(P) PROVE Typed'
  <2>1. \A p \in Procs : engine'[p].cycle \in 0 .. Cycles - 1
    BY <1>0, <1>6 DEF OnRun, Run, Shape
  <2>2. vehicle' \in [Vehicles -> VehicleState]
    BY <1>6, Numbers, BoundedSeqs DEF OnRun, VehicleState
  <2>3. history' \in History
    BY <1>6, DisturbedType DEF OnRun
  <2> QED BY <1>0, <1>6, <2>1, <2>2, <2>3 DEF OnRun
<1>7. ASSUME NEW P \in SUBSET Procs, OnStop(P) PROVE Typed'
  <2>1. \A p \in Procs : engine'[p].cycle \in 0 .. Cycles - 1
    BY <1>0, <1>7 DEF OnStop, Shape
  <2>2. history' \in History
    BY <1>7, DisturbedType DEF OnStop
  <2> QED BY <1>0, <1>7, <2>1, <2>2 DEF OnStop
<1>8. CASE Tick
  <2>1. UNCHANGED <<multicast, engine, shore, vehicle>> /\ history' \in History /\ Propagate
    BY <1>8, DisturbedType DEF Tick
  <2>2. CASE air' = {} /\ inbox' = Hear({}, {})
    BY <1>0, <2>1, <2>2, HearType
  <2>3. ASSUME NEW sound \in air, air' = {[from |-> sound.from, msg |-> sound.msg, old |-> TRUE]},
               inbox' = Hear(sound, {})
        PROVE  Typed'
    BY <1>0, <2>1, <2>3, HearType
  <2>4. ASSUME NEW sound \in air, air' = {}, NEW listeners \in SUBSET Listeners(sound),
               inbox' = Hear(sound, listeners)
        PROVE  Typed'
    BY <1>0, <2>1, <2>4, HearType
  <2> QED BY <2>1, <2>2, <2>3, <2>4 DEF Propagate
<1>9. CASE UNCHANGED vars
  BY <1>0, <1>9 DEF vars
<1> QED BY <1>1, <1>2, <1>3, <1>4, <1>5, <1>6, <1>7, <1>8, <1>9 DEF Next, Targets

\* The programs of the pursuit keep the shape of their state, whatever is posted, lost,
\* missed or late.
THEOREM PursuitTypeCorrect == Spec => []TypeOK
BY TypedInitially, TypedInductive, TypedIsTypeOK, PTL DEF Spec
-----------------------------------------------------------------------------
(* What the shore sends *)

\* What is in the shore's buffer is new, and complete if it is sent to one vehicle.
NewInBuffer ==
  LET command == shore.dccl_command IN
    /\ \A v \in Vehicles :
         /\ history.sent[v] <= history.posted
         /\ command.has[v] = "true" => /\ command.cmd[v].nr > history.sent[v]
                                       /\ command.cmd[v].nr <= history.posted
         /\ command.has[v] = "false" => ~shore.got_commands[v]
    /\ ~multicast /\ (\E v \in Vehicles : command.has[v] = "unset") =>
         \A v \in Vehicles : command.has[v] = "unset"

Fresh == Typed /\ NewInBuffer

LEMMA FreshInitially == Init => Fresh
<1> SUFFICES ASSUME Init PROVE NewInBuffer
  BY TypedInitially DEF Fresh
<1> QED BY DEF Init, NewInBuffer, Cleared

\* What a slot of the shore does to the buffer, and what it sends.
LEMMA FreshIterates ==
  ASSUME Fresh, Typed', ShoreIterates
  PROVE  /\ NewInBuffer'
         /\ \A s \in air' \ air : s.from = Shore /\ ~s.old =>
              LET new == {v \in Vehicles : s.msg.has[v] = "true"} IN
                new # {} /\ \A v \in new : s.msg.cmd[v].nr > history.sent[v]
<1> DEFINE e == Advanced(engine[Shore], Sched(Shore), clock)
           reset == IF e.slot = 0 THEN [shore EXCEPT !.sent_reports = [v \in Vehicles |-> FALSE]]
                    ELSE shore
           begun == IF e.slot \in ClearSlots(multicast) THEN ClearCommands(reset) ELSE reset
           msg == Outgoing(begun, e.slot)
           sends == Sends(begun, e.slot)
           fails == sends /\ ~RequiredFieldsSet(msg)
           sent == IF sends THEN AfterEncoding(begun) ELSE begun
           ended == AfterReceiveSlot(sent, e.slot)
           reported == {v \in Vehicles : ended.sent_reports[v] /\ ~sent.sent_reports[v]}
           cmd == begun.dccl_command.cmd
           has == begun.dccl_command.has
           got == begun.got_commands
<1>1. /\ shore' = IF fails THEN [begun EXCEPT !.up = FALSE] ELSE ended
      /\ air' = IF sends /\ ~fails THEN Transmitted(Shore, msg) ELSE air
      /\ history' = IF fails THEN Disturbed ELSE ShoreHistory(e.slot, begun, reported, sends)
      /\ UNCHANGED multicast
  BY DEF ShoreIterates
<1>2. reset \in ShoreState /\ reset.dccl_command = shore.dccl_command
      /\ reset.got_commands = shore.got_commands
  BY DEF Fresh, Typed, ShoreState
<1>3. begun \in ShoreState
  <2> HIDE DEF reset
  <2> QED BY <1>2, ClearCommandsType
\* The buffer at the beginning of the slot.
<1>4. /\ \A v \in Vehicles :
           /\ has[v] = "true" => cmd[v].nr > history.sent[v] /\ cmd[v].nr <= history.posted
           /\ has[v] = "false" => ~got[v]
      /\ ~multicast /\ (\E v \in Vehicles : has[v] = "unset") => \A v \in Vehicles : has[v] = "unset"
  <2>1. CASE e.slot \in ClearSlots(multicast)
    <3> HIDE DEF reset
    <3>1. /\ begun = ClearCommands(reset)
          /\ \A v \in Vehicles : has[v] = "false" /\ ~got[v]
      BY <1>2, <2>1 DEF ClearCommands, Cleared, ShoreState
    <3> QED BY <3>1
  <2>2. CASE e.slot \notin ClearSlots(multicast)
    <3> HIDE DEF reset
    <3>1. begun.dccl_command = shore.dccl_command /\ begun.got_commands = shore.got_commands
      BY <1>2, <2>2
    <3> HIDE DEF begun
    <3> QED BY <3>1 DEF Fresh, NewInBuffer
  <2> QED BY <2>1, <2>2
<1>5. /\ has \in [Vehicles -> Field] /\ got \in [Vehicles -> BOOLEAN]
      /\ \A v \in Vehicles : cmd[v].nr \in Nat
      /\ history.posted \in Nat /\ \A v \in Vehicles : history.sent[v] \in Nat
      /\ \A v \in Vehicles : history.sent[v] <= history.posted
  <2>1. begun.dccl_command \in Command /\ got \in [Vehicles -> BOOLEAN]
    BY <1>3 DEF ShoreState
  <2> HIDE DEF begun
  <2> QED BY <2>1, Numbers DEF Command, Trajectory, Fresh, Typed, History, NewInBuffer
<1> HIDE DEF begun, cmd, has, got
\* What is sent to a vehicle was posted for it since the last time.
<1>6. ASSUME sends, ~fails
      PROVE  /\ \A v \in Vehicles : msg.has[v] = "true" =>
                  msg.cmd[v].nr > history.sent[v] /\ msg.cmd[v].nr <= history.posted
             /\ \E v \in Vehicles : msg.has[v] = "true"
  <2>1. PICK u \in CommandFor(e.slot, multicast) : got[u]
    BY <1>6 DEF Sends, got
  <2>2. u \in Vehicles
    BY <2>1 DEF CommandFor, Vehicles
  <2>3. \A v \in Vehicles : msg.has[v] # "unset"
    BY <1>6 DEF RequiredFieldsSet
  <2>4. msg.cmd = cmd
    BY DEF Outgoing, cmd
  <2>5. CASE multicast
    <3>1. msg.has = has
      BY <2>5 DEF Outgoing, has
    <3>2. has[u] = "true"
      BY <1>4, <1>5, <2>1, <2>2, <2>3, <3>1 DEF Field
    <3> HIDE DEF msg
    <3> QED BY <1>4, <2>2, <2>4, <3>1, <3>2
  <2>6. CASE ~multicast
    <3>1. CommandFor(e.slot, multicast) = {u}
      BY <2>1, <2>6 DEF CommandFor
    <3>2. \A v \in Vehicles : msg.has[v] = IF v = u THEN "true" ELSE has[v]
      <4>1. begun.dccl_command \in Command
        BY <1>3 DEF ShoreState
      <4> QED BY <2>6, <3>1, <4>1 DEF Outgoing, Command, has
    <3>3. \E v \in Vehicles : v # u
      BY DEF Vehicles
    <3>4. \A v \in Vehicles : has[v] # "unset"
      BY <1>4, <2>3, <2>6, <3>2, <3>3
    <3>5. has[u] = "true"
      BY <1>4, <1>5, <2>1, <2>2, <3>4 DEF Field
    <3> HIDE DEF msg
    <3> QED BY <1>4, <2>2, <2>4, <3>2, <3>5
  <2> QED BY <2>5, <2>6
\* Encoding clears the buffer.
<1>7. sends => \A v \in Vehicles : sent.dccl_command.has[v] = "unset"
  BY <1>3 DEF AfterEncoding, Cleared, ShoreState
<1>8. ended.dccl_command = sent.dccl_command /\ ended.got_commands = sent.got_commands
  <2>1. sent \in ShoreState
    BY <1>3, ClearedType DEF AfterEncoding, ShoreState
  <2> HIDE DEF sent
  <2> QED BY <2>1 DEF AfterReceiveSlot, ShoreState
<1>9. /\ ShoreHistory(e.slot, begun, reported, sends).posted = history.posted
      /\ \A v \in Vehicles : ShoreHistory(e.slot, begun, reported, sends).sent[v] =
           IF sends /\ msg.has[v] = "true" THEN msg.cmd[v].nr ELSE history.sent[v]
  <2>1. history \in History
    BY DEF Fresh, Typed
  <2> HIDE DEF e, reported, sends
  <2> QED BY <2>1 DEF ShoreHistory, History
<1> HIDE DEF ended, sent, msg, reported
<1>10. NewInBuffer'
  <2>1. CASE fails
    <3>1. shore'.dccl_command = begun.dccl_command /\ shore'.got_commands = begun.got_commands
      BY <1>1, <1>3, <2>1 DEF ShoreState
    <3>2. history'.posted = history.posted /\ history'.sent = history.sent
      BY <1>1, <2>1 DEF Disturbed, Fresh, Typed, History
    <3> HIDE DEF fails, sends
    <3> QED BY <1>1, <1>4, <1>5, <3>1, <3>2 DEF NewInBuffer, has, cmd, got
  <2>2. CASE ~fails /\ sends
    <3>1. \A v \in Vehicles : shore'.dccl_command.has[v] = "unset"
      BY <1>1, <1>7, <1>8, <2>2
    <3>2. history'.posted = history.posted
          /\ \A v \in Vehicles : history'.sent[v] = IF msg.has[v] = "true" THEN msg.cmd[v].nr ELSE history.sent[v]
      BY <1>1, <1>9, <2>2
    <3> HIDE DEF fails, sends
    <3> QED BY <1>5, <1>6, <2>2, <3>1, <3>2 DEF NewInBuffer
  <2>3. CASE ~fails /\ ~sends
    <3>1. shore'.dccl_command = begun.dccl_command /\ shore'.got_commands = begun.got_commands
      BY <1>1, <1>8, <2>3 DEF sent
    <3>2. history'.posted = history.posted /\ \A v \in Vehicles : history'.sent[v] = history.sent[v]
      BY <1>1, <1>9, <2>3
    <3> HIDE DEF fails, sends
    <3> QED BY <1>1, <1>4, <1>5, <3>1, <3>2 DEF NewInBuffer, has, cmd, got
  <2> QED BY <2>1, <2>2, <2>3
<1>11. ASSUME NEW s \in air' \ air, s.from = Shore, ~s.old
       PROVE  LET new == {v \in Vehicles : s.msg.has[v] = "true"} IN
                new # {} /\ \A v \in new : s.msg.cmd[v].nr > history.sent[v]
  <2> HIDE DEF fails, sends
  <2>1. sends /\ ~fails
    BY <1>1, <1>11
  <2>2. s.msg = msg
    BY <1>1, <1>11, <2>1 DEF Transmitted
  <2> QED BY <1>6, <2>1, <2>2
<1> QED BY <1>10, <1>11

\* Where the buffer and what was posted and sent stay as they are, so does the invariant.
LEMMA BufferStays ==
  NewInBuffer /\ UNCHANGED <<multicast, shore.dccl_command, shore.got_commands,
                             history.posted, history.sent>> => NewInBuffer'
BY DEF NewInBuffer

\* What is sent by others than the shore, and what has been on its way, is not new.
LEMMA OnlyTheShoreSends ==
  ASSUME Typed, [Next]_vars, NEW s \in air' \ air, s.from = Shore, ~s.old
  PROVE  ShoreIterates
<1>1. ASSUME NEW v \in Active, VehicleIterates(v) PROVE FALSE
  BY <1>1, Numbers DEF VehicleIterates, Transmitted
<1>2. CASE Tick
  BY <1>2 DEF Tick, Propagate
<1>3. CASE air' = air
  BY <1>3
<1> QED BY <1>1, <1>2, <1>3
        DEF Next, vars, OnVehicleCommand, ShoreReceives, VehicleReceives, OnRun, OnStop

LEMMA FreshInductive == Fresh /\ [Next]_vars => Fresh'
<1> SUFFICES ASSUME Fresh, [Next]_vars PROVE NewInBuffer'
  BY TypedInductive DEF Fresh
<1>0. Typed /\ Typed' /\ NewInBuffer
  BY TypedInductive DEF Fresh
<1>1. /\ Disturbed.posted = history.posted /\ Disturbed.sent = history.sent
      /\ history \in History /\ shore \in ShoreState
  BY <1>0 DEF Typed, History, Disturbed
<1>2. ASSUME NEW v \in Active, NEW codes \in BoundedSeq(Codes, MaxLength), OnVehicleCommand(v, codes)
      PROVE  NewInBuffer'
  <2> DEFINE trajectory == [nr |-> history.posted + 1, codes |-> codes]
             before == IF multicast THEN shore ELSE ClearCommands(shore)
  <2>1. /\ shore' = [before EXCEPT !.dccl_command.cmd[v] = trajectory,
                                   !.dccl_command.has[v] = "true", !.got_commands[v] = TRUE]
        /\ history' = [history EXCEPT !.posted = @ + 1]
        /\ UNCHANGED multicast /\ v \in Vehicles
    BY <1>2, Numbers DEF OnVehicleCommand
  <2>2. before \in ShoreState /\ before.dccl_command \in Command
        /\ before.got_commands \in [Vehicles -> BOOLEAN]
    <3>1. before \in ShoreState
      BY <1>1, ClearCommandsType
    <3> QED BY <3>1 DEF ShoreState
\* The buffer before the command is put into it.
  <2>3. /\ \A w \in Vehicles :
             /\ before.dccl_command.has[w] = "true" =>
                  /\ before.dccl_command.cmd[w].nr > history.sent[w]
                  /\ before.dccl_command.cmd[w].nr <= history.posted
             /\ before.dccl_command.has[w] = "false" => ~before.got_commands[w]
        /\ ~multicast => \A w \in Vehicles : before.dccl_command.has[w] = "false"
    <3>1. CASE multicast
      BY <1>0, <3>1 DEF NewInBuffer
    <3>2. CASE ~multicast
      BY <1>1, <3>2 DEF ClearCommands, Cleared, ShoreState
    <3> QED BY <3>1, <3>2
  <2> HIDE DEF before
  <2>4. \A w \in Vehicles :
          /\ shore'.dccl_command.has[w] = IF w = v THEN "true" ELSE before.dccl_command.has[w]
          /\ shore'.got_commands[w] = IF w = v THEN TRUE ELSE before.got_commands[w]
          /\ shore'.dccl_command.cmd[w].nr =
               IF w = v THEN history.posted + 1 ELSE before.dccl_command.cmd[w].nr
    BY <2>1, <2>2 DEF ShoreState, Command
  <2>5. history'.posted = history.posted + 1 /\ history'.sent = history.sent
    BY <1>1, <2>1 DEF History
  <2>6. history.posted \in Nat
        /\ \A w \in Vehicles : /\ history.sent[w] \in Nat /\ history.sent[w] <= history.posted
                               /\ before.dccl_command.cmd[w].nr \in Nat
    BY <1>0, <1>1, <2>2, Numbers DEF History, Command, Trajectory, NewInBuffer
  <2>7. multicast' = multicast
    BY <2>1
  <2>8. \A w \in Vehicles :
          /\ history'.sent[w] <= history'.posted
          /\ shore'.dccl_command.has[w] = "true" =>
               /\ shore'.dccl_command.cmd[w].nr > history'.sent[w]
               /\ shore'.dccl_command.cmd[w].nr <= history'.posted
          /\ shore'.dccl_command.has[w] = "false" => ~shore'.got_commands[w]
    <3> SUFFICES ASSUME NEW w \in Vehicles
                 PROVE  /\ history'.sent[w] <= history'.posted
                        /\ shore'.dccl_command.has[w] = "true" =>
                             /\ shore'.dccl_command.cmd[w].nr > history'.sent[w]
                             /\ shore'.dccl_command.cmd[w].nr <= history'.posted
                        /\ shore'.dccl_command.has[w] = "false" => ~shore'.got_commands[w]
      OBVIOUS
    <3> DEFINE sent == history.sent[w]
               posted == history.posted
               nr == before.dccl_command.cmd[w].nr
    <3>1. /\ history'.sent[w] = sent /\ history'.posted = posted + 1
          /\ sent \in Nat /\ posted \in Nat /\ nr \in Nat /\ sent <= posted
      BY <2>5, <2>6
    <3>2. /\ shore'.dccl_command.cmd[w].nr = IF w = v THEN posted + 1 ELSE nr
          /\ shore'.dccl_command.has[w] = IF w = v THEN "true" ELSE before.dccl_command.has[w]
          /\ w # v => shore'.got_commands[w] = before.got_commands[w]
      BY <2>4
    <3>3. /\ before.dccl_command.has[w] = "true" => nr > sent /\ nr <= posted
          /\ before.dccl_command.has[w] = "false" => ~before.got_commands[w]
      BY <2>3
    <3> HIDE DEF sent, posted, nr
    <3> QED BY <3>1, <3>2, <3>3
  <2>9. ~multicast => \A w \in Vehicles : shore'.dccl_command.has[w] # "unset"
    BY <2>3, <2>4
  <2> QED BY <2>7, <2>8, <2>9 DEF NewInBuffer
<1>3. CASE ShoreReceives
  <2> DEFINE mail == Head(inbox[Shore])
  <2>1. \/ UNCHANGED <<shore, history>>
        \/ /\ shore' = [shore EXCEPT !.got_receive = TRUE, !.sent_reports[mail.msg.id] = TRUE]
           /\ history' = [history EXCEPT !.reports[mail.msg.id] =
                            Append(@, Posted(mail.msg, history.sent[mail.msg.id]))]
    BY <1>3 DEF ShoreReceives
  <2>2. UNCHANGED <<shore.dccl_command, shore.got_commands, history.posted, history.sent>>
    BY <1>1, <2>1 DEF ShoreState, History
  <2> QED BY <1>0, <1>3, <2>2, BufferStays DEF ShoreReceives
<1>4. CASE ShoreIterates
  BY <1>0, <1>4, FreshIterates
<1>5. ASSUME UNCHANGED <<multicast, shore>>, history' = history \/ history' = Disturbed
      PROVE  NewInBuffer'
  BY <1>0, <1>1, <1>5, BufferStays
<1>6. ASSUME NEW v \in Active, VehicleReceives(v) \/ VehicleIterates(v) PROVE NewInBuffer'
  BY <1>5, <1>6 DEF VehicleReceives, VehicleIterates
<1>7. ASSUME NEW P \in Targets, OnRun(P) \/ OnStop(P) PROVE NewInBuffer'
  BY <1>5, <1>7 DEF OnRun, OnStop
<1>8. CASE Tick
  BY <1>5, <1>8 DEF Tick
<1>9. CASE UNCHANGED vars
  BY <1>5, <1>9 DEF vars
<1> QED BY <1>2, <1>3, <1>4, <1>6, <1>7, <1>8, <1>9 DEF Next

\* What the shore transmits has a trajectory in it that was posted since the last one went
\* out to the vehicle, and none that went out before, in both modes.
THEOREM WhatIsSentIsNew == Spec => NothingSentTwice
<1> DEFINE Sends1 == \A s \in air' \ air : s.from = Shore /\ ~s.old =>
                      LET new == {v \in Vehicles : s.msg.has[v] = "true"} IN
                        new # {} /\ \A v \in new : s.msg.cmd[v].nr > history.sent[v]
<1>1. Fresh /\ [Next]_vars => Sends1
  <2> SUFFICES ASSUME Fresh, [Next]_vars, NEW s \in air' \ air, s.from = Shore, ~s.old
               PROVE  LET new == {v \in Vehicles : s.msg.has[v] = "true"} IN
                        new # {} /\ \A v \in new : s.msg.cmd[v].nr > history.sent[v]
    OBVIOUS
  <2>1. ShoreIterates /\ Typed'
    BY OnlyTheShoreSends, TypedInductive DEF Fresh
  <2> QED BY <2>1, FreshIterates
<1>2. Spec => []Fresh
  BY FreshInitially, FreshInductive, PTL DEF Spec
<1> QED BY <1>1, <1>2, PTL DEF Spec, NothingSentTwice
-----------------------------------------------------------------------------
(* The loops of an engine catch up with the clock *)

\* A slot is over before a later one begins.
LEMMA SlotsInOrder ==
  ASSUME NEW sched, IsSchedule(sched), NEW s \in Slots(sched), NEW t \in Slots(sched), s < t
  PROVE  EndOf(s, sched) <= StartOf(t, sched)
<1> DEFINE Ends(d) == s + 1 + d \in Slots(sched) => EndOf(s, sched) <= StartOf(s + 1 + d, sched)
<1>1. Len(sched.lengths) \in Nat /\ s \in Nat /\ t \in Nat
  <2>1. Len(sched.lengths) \in Nat
    BY DEF IsSchedule
  <2>2. s \in Nat
    BY SlotFacts
  <2>3. t \in Nat
    BY SlotFacts
  <2> QED BY <2>1, <2>2, <2>3
<1>2. Ends(0)
  <2>1. s + 1 + 0 = s + 1
    BY <1>1
  <2>2. s + 1 \in Slots(sched) => EndOf(s, sched) = StartOf(s + 1, sched) /\ EndOf(s, sched) \in Nat
    BY SlotFacts
  <2> QED BY <2>1, <2>2
<1>3. ASSUME NEW d \in Nat, Ends(d) PROVE Ends(d + 1)
  <2> SUFFICES ASSUME s + 1 + (d + 1) \in Slots(sched) PROVE EndOf(s, sched) <= StartOf(s + 1 + (d + 1), sched)
    OBVIOUS
  <2> DEFINE u == s + 1 + d
  <2>1. u \in Slots(sched) /\ u + 1 = s + 1 + (d + 1) /\ u + 1 \in Slots(sched)
    BY <1>1 DEF Slots
  <2>2. EndOf(u, sched) = StartOf(u + 1, sched)
    <3> HIDE DEF u
    <3> QED BY <2>1, SlotFacts
  <2>3. StartOf(u, sched) \in Nat /\ EndOf(u, sched) \in Nat /\ StartOf(u, sched) <= EndOf(u, sched)
    <3>1. /\ StartOf(u, sched) \in Nat /\ EndOf(u, sched) \in Nat /\ sched.lengths[u + 1] \in Nat
          /\ EndOf(u, sched) = StartOf(u, sched) + sched.lengths[u + 1]
      <4> HIDE DEF u
      <4> QED BY <2>1, SlotFacts
    <3> QED BY <3>1
  <2>4. EndOf(s, sched) \in Nat /\ EndOf(s, sched) <= StartOf(u, sched)
    BY <1>3, <2>1, SlotFacts
  <2> HIDE DEF u
  <2> QED BY <2>1, <2>2, <2>3, <2>4
<1>4. \A d \in Nat : Ends(d)
  <2> HIDE DEF Ends
  <2> DEFINE S == {d \in Nat : Ends(d)}
  <2>1. S \in SUBSET Nat /\ 0 \in S /\ \A d \in S : d + 1 \in S
    BY <1>2, <1>3
  <2>2. S = Nat
    <3> HIDE DEF S
    <3> QED BY <2>1, Induction
  <2> QED BY <2>2
<1>5. t - s - 1 \in Nat /\ s + 1 + (t - s - 1) = t
  BY <1>1
<1> QED BY <1>4, <1>5

\* Only the slot that the clock shows is not over.
LEMMA OverUnlessShown ==
  ASSUME NEW sched, IsSchedule(sched), NEW now \in [cycle : Int, pos : 0 .. sched.period - 1],
         NEW cur \in Slots(sched), Shows(cur, sched, now), NEW e, e.slot \in Slots(sched)
  PROVE  SlotIsOver(e, sched, now) <=> e.slot # cur
<1> DEFINE s == e.slot
           from == StartOf(s, sched)
           to == EndOf(s, sched)
<1>1. /\ from \in Nat /\ to \in Nat /\ sched.lengths[s + 1] \in Nat \ {0}
      /\ to = from + sched.lengths[s + 1] /\ to <= sched.period /\ sched.period \in Nat
      /\ s \in Nat /\ cur \in Nat
  BY SlotFacts
<1>2. now.pos \in Nat /\ now.pos < sched.period
  BY <1>1
<1>3. CASE s = cur
  BY <1>1, <1>2, <1>3 DEF Shows, SlotIsOver, TimeWithinSlot
<1>4. CASE s < cur
  <2>1. to <= StartOf(cur, sched) /\ StartOf(cur, sched) <= now.pos /\ StartOf(cur, sched) \in Nat
    BY <1>4, SlotsInOrder, SlotFacts DEF Shows
  <2> QED BY <1>1, <1>2, <1>4, <2>1 DEF SlotIsOver, TimeWithinSlot
<1>5. CASE cur < s
  <2>1. EndOf(cur, sched) <= from /\ now.pos < EndOf(cur, sched) /\ EndOf(cur, sched) \in Nat
    BY <1>5, SlotsInOrder, SlotFacts DEF Shows
  <2> QED BY <1>1, <1>2, <1>5, <2>1 DEF SlotIsOver, TimeWithinSlot
<1> QED BY <1>1, <1>3, <1>4, <1>5

\* How many times an engine has to advance until it has the slot of the clock.
Behind(e, cur, sched, now) ==
  IF e.slot > cur THEN Len(sched.lengths) - e.slot + cur
  ELSE IF e.cycle = now.cycle THEN cur - e.slot ELSE (cur - e.slot) + 1 + cur

LEMMA Approaches ==
  ASSUME NEW sched, IsSchedule(sched), NEW now \in [cycle : Int, pos : 0 .. sched.period - 1],
         NEW cur \in Slots(sched), Shows(cur, sched, now),
         NEW e \in [slot : Slots(sched), cycle : Int]
  PROVE  LET b == Behind(e, cur, sched, now)
             next == TestAdvance(e, sched, now)
         IN /\ next \in [slot : Slots(sched), cycle : Int]
            /\ b \in 0 .. 2 * Len(sched.lengths)
            /\ Behind(next, cur, sched, now) = IF b = 0 THEN 0 ELSE b - 1
            /\ b = 0 => e = [slot |-> cur, cycle |-> now.cycle]
<1> DEFINE n == Len(sched.lengths)
           next == TestAdvance(e, sched, now)
<1>1. n \in Nat /\ Slots(sched) = 0 .. n - 1 /\ 0 \in Slots(sched)
  <2>1. Slots(sched) = 0 .. n - 1
    BY DEF Slots
  <2>2. n \in Nat
    BY DEF IsSchedule
  <2>3. 0 \in 0 .. n - 1
    BY <2>1, <2>2
  <2> QED BY <2>1, <2>2, <2>3
<1>2. SlotIsOver(e, sched, now) <=> e.slot # cur
  BY OverUnlessShown
<1>3. next = IF e.slot = cur /\ e.cycle = now.cycle THEN e
             ELSE IF e.slot # cur /\ e.slot + 1 \in Slots(sched) THEN [e EXCEPT !.slot = @ + 1]
             ELSE [slot |-> 0, cycle |-> now.cycle]
  BY <1>2 DEF TestAdvance, Advances, Advanced, IsRunning, Stopped, Slots
<1>4. e = [slot |-> e.slot, cycle |-> e.cycle] /\ e.slot \in 0 .. n - 1 /\ e.cycle \in Int
      /\ cur \in 0 .. n - 1 /\ now.cycle \in Int
  BY <1>1
<1> DEFINE s == e.slot
           same == e.cycle = now.cycle
           b == Behind(e, cur, sched, now)
           after == Behind(next, cur, sched, now)
<1>5. b = IF s > cur THEN n - s + cur ELSE IF same THEN cur - s ELSE (cur - s) + 1 + cur
  BY DEF Behind
<1>6. s \in Nat /\ cur \in Nat /\ s <= n - 1 /\ cur <= n - 1 /\ same \in BOOLEAN
  BY <1>1, <1>4
<1>7. b \in 0 .. 2 * n /\ (b = 0 => s = cur /\ same)
  <2> HIDE DEF s, same, n, b
  <2> QED BY <1>1, <1>5, <1>6
<1>8. next \in [slot : Slots(sched), cycle : Int] /\ after = IF b = 0 THEN 0 ELSE b - 1
  <2>1. CASE s = cur /\ same
    <3>1. next = e
      BY <1>3, <2>1
    <3>2. b = 0
      BY <1>5, <1>6, <2>1
    <3> HIDE DEF next, b
    <3> QED BY <3>1, <3>2 DEF b
  <2>2. CASE s # cur /\ s + 1 \in Slots(sched)
    <3>1. next = [slot |-> s + 1, cycle |-> e.cycle]
      BY <1>3, <1>4, <2>2
    <3>2. next.slot = s + 1 /\ next.cycle = e.cycle /\ next \in [slot : Slots(sched), cycle : Int]
      BY <1>4, <2>2, <3>1
    <3>3. after = IF s + 1 > cur THEN n - (s + 1) + cur ELSE IF same THEN cur - (s + 1)
                  ELSE (cur - (s + 1)) + 1 + cur
      <4> HIDE DEF next
      <4> QED BY <3>2 DEF Behind
    <3>4. after = IF b = 0 THEN 0 ELSE b - 1
      <4> HIDE DEF s, same, n, b, after
      <4> QED BY <1>1, <1>5, <1>6, <2>2, <3>3
    <3> QED BY <3>2, <3>4
  <2>3. CASE ~(s = cur /\ same) /\ ~(s # cur /\ s + 1 \in Slots(sched))
    <3>1. next = [slot |-> 0, cycle |-> now.cycle]
      BY <1>3, <2>3
    <3>2. next.slot = 0 /\ next.cycle = now.cycle /\ next \in [slot : Slots(sched), cycle : Int]
      BY <1>1, <1>4, <3>1
    <3>3. after = cur
      <4> HIDE DEF next
      <4> QED BY <1>6, <3>2 DEF Behind
    <3>4. s # cur => s = n - 1
      BY <1>1, <1>4, <2>3
    <3>5. after = IF b = 0 THEN 0 ELSE b - 1
      <4> HIDE DEF s, same, n, b, after
      <4> QED BY <1>1, <1>5, <1>6, <2>3, <3>3, <3>4
    <3> QED BY <3>2, <3>5
  <2> QED BY <2>1, <2>2, <2>3
<1>9. b = 0 => e = [slot |-> cur, cycle |-> now.cycle]
  BY <1>4, <1>7
<1> QED BY <1>7, <1>8, <1>9

\* testAdvance, as often as the engine is behind, or more often.
LEMMA CaughtUp ==
  ASSUME NEW sched, IsSchedule(sched), NEW now \in [cycle : Int, pos : 0 .. sched.period - 1],
         NEW cur \in Slots(sched), Shows(cur, sched, now),
         NEW e \in [slot : Slots(sched), cycle : Int],
         NEW lengths \in Seq(Nat \ {0}), Behind(e, cur, sched, now) <= Len(lengths)
  PROVE  TestAdvances(e, lengths, sched, now) = [slot |-> cur, cycle |-> now.cycle]
<1> DEFINE Engines == [slot : Slots(sched), cycle : Int]
           Next1(x) == TestAdvance(x, sched, now)
           Left(x) == Behind(x, cur, sched, now)
           IsFold(f) == f = [s \in SUBSET DOMAIN lengths |->
             IF s = {} THEN e ELSE Next1(f[s \ {Max(s)}])]
           read == CHOOSE f : IsFold(f)
           len == Len(lengths)
<1>1. len \in Nat /\ DOMAIN lengths = 1 .. len /\ Len(sched.lengths) \in Nat
  BY DEF IsSchedule
<1>2. \A x \in Engines : /\ Next1(x) \in Engines /\ Left(x) \in Nat
                         /\ Left(Next1(x)) = IF Left(x) = 0 THEN 0 ELSE Left(x) - 1
                         /\ Left(x) = 0 => x = [slot |-> cur, cycle |-> now.cycle]
  <2> TAKE x \in Engines
  <2>1. Left(x) \in 0 .. 2 * Len(sched.lengths)
    BY Approaches
  <2>2. Left(x) \in Nat
    <3> HIDE DEF Left
    <3> QED BY <1>1, <2>1
  <2>3. /\ Next1(x) \in Engines
        /\ Left(Next1(x)) = IF Left(x) = 0 THEN 0 ELSE Left(x) - 1
        /\ Left(x) = 0 => x = [slot |-> cur, cycle |-> now.cycle]
    BY Approaches
  <2> QED BY <2>2, <2>3
<1>3. \E f : IsFold(f)
  <2> DEFINE Lengths == Nat \ {0}
             H == [x \in Engines |-> [m \in Lengths |-> Next1(x)]]
  <2>1. H \in [Engines -> [Lengths -> Engines]]
    <3> HIDE DEF Next1, Engines
    <3> QED BY <1>2
  <2>2. PICK f : f \in [SUBSET (1 .. len) -> Engines] /\ Folds(f, len, H, e, lengths)
    <3>1. e \in Engines /\ lengths \in Seq(Lengths)
      OBVIOUS
    <3> HIDE DEF H, Engines, Lengths
    <3> QED BY <2>1, <3>1, FoldExists
  <2>3. ASSUME NEW s \in SUBSET (1 .. len)
        PROVE  f[s] = IF s = {} THEN e ELSE Next1(f[s \ {Max(s)}])
    <3>1. CASE s = {}
      BY <3>1, <2>2 DEF Folds
    <3>2. CASE s # {}
      <4>1. f[s \ {Max(s)}] \in Engines /\ lengths[Max(s)] \in Lengths
        <5>1. Max(s) \in 1 .. len
          BY <1>1, <3>2, LastPosition
        <5>2. lengths[Max(s)] \in Lengths
          BY <1>1, <5>1
        <5>3. s \ {Max(s)} \in SUBSET (1 .. len)
          OBVIOUS
        <5> HIDE DEF Engines, Lengths, len, Next1
        <5> QED BY <2>2, <5>2, <5>3
      <4>2. f[s] = H[f[s \ {Max(s)}]][lengths[Max(s)]]
        <5> HIDE DEF H
        <5> QED BY <2>2, <3>2 DEF Folds
      <4> HIDE DEF Next1, Engines
      <4> QED BY <4>1, <4>2, <3>2
    <3> QED BY <3>1, <3>2
  <2>4. f = [s \in SUBSET DOMAIN lengths |-> f[s]]
    <3> HIDE DEF Engines
    <3> QED BY <1>1, <2>2
  <2>5. IsFold(f)
    <3> HIDE DEF Next1, Engines, len
    <3> QED BY <1>1, <2>3, <2>4
  <2> HIDE DEF IsFold
  <2> QED BY <2>5
<1>4. IsFold(read)
  BY <1>3
<1>5. TestAdvances(e, lengths, sched, now) = read[1 .. len]
  BY <1>1 DEF TestAdvances, FoldLeft, MapThenFoldSet
<1> HIDE DEF read
<1> DEFINE D == [k \in Nat |-> {x \in Engines : Left(x) <= len - k \/ Left(x) = 0}]
<1>6. read[{}] \in D[0]
  <2>1. read[{}] = e
    <3> HIDE DEF Next1
    <3> QED BY <1>4
  <2>2. e \in Engines /\ Left(e) <= len
    OBVIOUS
  <2> HIDE DEF Left, len, Engines
  <2> QED BY <1>1, <2>1, <2>2
<1>7. \A k \in 1 .. len : read[1 .. (k - 1)] \in D[k - 1] => read[1 .. k] \in D[k]
  <2> TAKE k \in 1 .. len
  <2> HAVE read[1 .. (k - 1)] \in D[k - 1]
  <2> DEFINE x == read[1 .. (k - 1)]
  <2>1. k \in Nat \ {0} /\ k - 1 \in Nat /\ 1 .. k \in SUBSET DOMAIN lengths
    BY <1>1
  <2>2. read[1 .. k] = Next1(x)
    <3>1. Max(1 .. k) = k /\ (1 .. k) \ {k} = 1 .. (k - 1) /\ 1 .. k # {}
      BY <2>1, LastOfFirst
    <3> HIDE DEF Next1
    <3> QED BY <1>4, <2>1, <3>1
  <2>3. x \in Engines /\ (Left(x) <= len - (k - 1) \/ Left(x) = 0)
    <3> HIDE DEF Left, Engines, len
    <3> QED BY <2>1
  <2>4. /\ Next1(x) \in Engines /\ Left(x) \in Nat
        /\ Left(Next1(x)) = IF Left(x) = 0 THEN 0 ELSE Left(x) - 1
    <3> HIDE DEF Left, Engines, Next1, x
    <3> QED BY <1>2, <2>3
  <2>5. Left(Next1(x)) <= len - k \/ Left(Next1(x)) = 0
    <3> HIDE DEF Left, Engines, Next1, x, len
    <3> QED BY <1>1, <2>1, <2>3, <2>4
  <2> HIDE DEF Left, Engines, Next1, x, len
  <2> QED BY <2>1, <2>2, <2>4, <2>5
<1>8. read[1 .. len] \in D[len]
  <2> HIDE DEF D, len
  <2> QED BY <1>1, <1>6, <1>7, FoldSteps
<1>9. read[1 .. len] \in Engines /\ (Left(read[1 .. len]) <= len - len \/ Left(read[1 .. len]) = 0)
  <2> HIDE DEF Left, Engines, len
  <2> QED BY <1>1, <1>8
<1>10. Left(read[1 .. len]) = 0
  <2> DEFINE x == read[1 .. len]
  <2>1. Left(x) \in Nat
    <3> HIDE DEF Left, Engines, Next1, x
    <3> QED BY <1>2, <1>9 DEF x
  <2> HIDE DEF Left, len
  <2> QED BY <1>1, <1>9, <2>1
<1>11. read[1 .. len] = [slot |-> cur, cycle |-> now.cycle]
  <2> HIDE DEF Left, Engines, Next1
  <2> QED BY <1>2, <1>9, <1>10
<1> QED BY <1>5, <1>11

LEMMA ShapeCatchesUp ==
  ASSUME Shape, NEW p \in Procs
  PROVE  LET sched == Sched(p)
             right == Run(sched, clock)
         IN /\ RunLoop(sched, clock) = right
            /\ \A e \in [slot : Slots(sched), cycle : 0 .. Cycles - 1] :
                 TestAdvances(e, sched.lengths \o sched.lengths, sched, clock) = right
<1> DEFINE sched == Sched(p)
           n == Len(sched.lengths)
           cur == CHOOSE s \in Slots(sched) : Shows(s, sched, clock)
<1>1. IsSchedule(sched) /\ sched.period = Sched(Shore).period
  BY SchedulesAreSchedules DEF Shape, Sched
<1>2. clock \in [cycle : Int, pos : 0 .. sched.period - 1]
  BY <1>1 DEF Shape
<1>3. cur \in Slots(sched) /\ Shows(cur, sched, clock)
  <2>1. \E s \in Slots(sched) : Shows(s, sched, clock)
    BY <1>1, <1>2 DEF IsSchedule, Shows
  <2> QED BY <2>1
<1>4. /\ n \in Nat /\ sched.lengths \in Seq(Nat \ {0}) /\ 0 \in Slots(sched)
      /\ cur \in Nat /\ cur <= n - 1
  <2>1. sched.lengths \in Seq(Nat \ {0}) /\ n \in Nat /\ Slots(sched) = 0 .. n - 1
    BY <1>1 DEF IsSchedule, Slots
  <2>2. 0 \in Slots(sched)
    BY <1>1, <1>3, SlotFacts
  <2> HIDE DEF cur
  <2> QED BY <1>3, <2>1, <2>2
<1>5. Run(sched, clock) = [slot |-> cur, cycle |-> clock.cycle]
  BY DEF Run
<1> HIDE DEF sched, cur
<1>6. RunLoop(sched, clock) = [slot |-> cur, cycle |-> clock.cycle]
  <2> DEFINE e == [slot |-> 0, cycle |-> clock.cycle]
  <2>1. e \in [slot : Slots(sched), cycle : Int]
    BY <1>2, <1>4
  <2>2. Behind(e, cur, sched, clock) <= n
    BY <1>4 DEF Behind
  <2>3. TestAdvances(e, sched.lengths, sched, clock) = [slot |-> cur, cycle |-> clock.cycle]
    <3> HIDE DEF e
    <3> QED BY <1>1, <1>2, <1>3, <1>4, <2>1, <2>2, CaughtUp
  <2> QED BY <2>3 DEF RunLoop
<1>7. ASSUME NEW e \in [slot : Slots(sched), cycle : 0 .. Cycles - 1]
      PROVE  TestAdvances(e, sched.lengths \o sched.lengths, sched, clock) = [slot |-> cur, cycle |-> clock.cycle]
  <2> DEFINE Q == Nat \ {0}
             twice == sched.lengths \o sched.lengths
  <2>1. e \in [slot : Slots(sched), cycle : Int]
    BY PursuitParameters
  <2>2. twice \in Seq(Q) /\ Len(twice) = 2 * n
    <3>1. sched.lengths \in Seq(Q)
      BY <1>4
    <3> HIDE DEF Q
    <3> QED BY <1>4, <3>1
  <2>3. Behind(e, cur, sched, clock) \in 0 .. 2 * n
    BY <1>1, <1>2, <1>3, <2>1, Approaches
  <2>4. Behind(e, cur, sched, clock) <= Len(twice)
    <3> HIDE DEF twice, n
    <3> QED BY <1>4, <2>2, <2>3
  <2> HIDE DEF twice
  <2>5. TestAdvances(e, twice, sched, clock) = [slot |-> cur, cycle |-> clock.cycle]
    <3>1. twice \in Seq(Nat \ {0})
      BY <2>2
    <3> HIDE DEF n, Q
    <3> QED BY ONLY <1>1, <1>2, <1>3, <2>1, <2>4, <3>1, CaughtUp
  <2> QED BY <2>5 DEF twice
<1> QED BY <1>5, <1>6, <1>7 DEF sched

\* Wherever an engine was when its program fell asleep, two rounds of testAdvance bring it to
\* the slot of the clock, and one is enough for run: the loops of the engine end in the right
\* slot for every schedule whose slots fill its period.
THEOREM LoopsCatchUp == Spec => CatchesUp
<1>1. Init => Shape
  BY InitIInv DEF IInv
<1>2. Shape /\ [Next]_vars => Shape'
  BY ShapePreserved
<1>3. Shape => [clock' # clock /\ orders = 0 /\ history.posted = 0 =>
       \A sched \in {Sched(p) : p \in Procs} :
         LET right == Run(sched, clock) IN
           /\ RunLoop(sched, clock) = right
           /\ \A e \in [slot : Slots(sched), cycle : 0 .. Cycles - 1] :
                TestAdvances(e, sched.lengths \o sched.lengths, sched, clock) = right]_vars
  BY ShapeCatchesUp
<1> QED BY <1>1, <1>2, <1>3, PTL DEF Spec, CatchesUp
-----------------------------------------------------------------------------
(* What the shore posts in a cycle *)

Over(v) == OverdueSlot(v, multicast)
OverAt(v) == StartOf(Over(v), Sched(Shore))
ReportAt(v) == StartOf(ReportSlot(v, multicast), Sched(v))

\* sent_reports tells what has been posted in this cycle.
Counted ==
  \A v \in Vehicles : /\ Len(history.reports[v]) <= 1
                      /\ shore.up => (shore.sent_reports[v] <=> Len(history.reports[v]) = 1)

\* A report is read within two units of its slot.
HeardNow(v) == clock.pos = ReportAt(v) + 1 \/ clock.pos = ReportAt(v) + 2

\* What holds as long as nothing disturbs the cycles.
Undisturbed ==
  /\ shore.up /\ Orderly
  /\ \A s \in air : s.from # Shore => s.msg.id = s.from
  /\ \A i \in DOMAIN inbox[Shore] :
       inbox[Shore][i].msg.id \in Active /\ HeardNow(inbox[Shore][i].msg.id)
  /\ \A v \in Vehicles :
       /\ engine[Shore].slot >= Over(v) => shore.sent_reports[v]
       /\ engine[Shore].slot + 1 = Over(v) /\ shore.got_receive => shore.sent_reports[v]

Calm == Fresh /\ Counted /\ (history.calm > 0 => Undisturbed)

LEMMA StartsInOrder ==
  ASSUME NEW sched, IsSchedule(sched), NEW s \in Slots(sched), NEW t \in Slots(sched), s < t
  PROVE  StartOf(s, sched) < StartOf(t, sched) /\ EndOf(s, sched) <= StartOf(t, sched)
<1>1. EndOf(s, sched) <= StartOf(t, sched)
  BY SlotsInOrder
<1>2. /\ StartOf(s, sched) \in Nat /\ StartOf(t, sched) \in Nat /\ EndOf(s, sched) \in Nat
      /\ sched.lengths[s + 1] \in Nat \ {0} /\ EndOf(s, sched) = StartOf(s, sched) + sched.lengths[s + 1]
  BY SlotFacts
<1> QED BY <1>1, <1>2

\* The times at which a vehicle reports and is waited for.
LEMMA Waits ==
  ASSUME Shape, NEW v \in Active
  PROVE  /\ v \in Vehicles /\ v \in Procs /\ v # Shore
         /\ IsSchedule(Sched(Shore)) /\ IsSchedule(Sched(v))
         /\ Sched(Shore).period \in Nat /\ Sched(v).period = Sched(Shore).period
         /\ Over(v) \in Slots(Sched(Shore)) /\ Over(v) - 1 \in Slots(Sched(Shore))
         /\ ReportSlot(v, multicast) \in Slots(Sched(v))
         /\ ReportAt(v) \in Nat \ {0} /\ OverAt(v) \in Nat /\ StartOf(Over(v) - 1, Sched(Shore)) \in Nat
         /\ StartOf(Over(v) - 1, Sched(Shore)) <= ReportAt(v)
         /\ ReportAt(v) + 2 <= OverAt(v) /\ OverAt(v) < Sched(Shore).period
<1> DEFINE sched == Sched(Shore)
<1>1. v \in Vehicles /\ v \in Procs /\ v # Shore /\ Shore \in Procs /\ multicast \in BOOLEAN
  BY Numbers DEF Shape
<1>2. IsSchedule(sched) /\ IsSchedule(Sched(v)) /\ Sched(v).period = sched.period
  BY <1>1, SchedulesAreSchedules DEF Sched
<1>3. /\ Over(v) \in Slots(sched) /\ ReportSlot(v, multicast) \in Slots(Sched(v))
      /\ StartOf(Over(v) - 1, sched) <= ReportAt(v) /\ ReportAt(v) + 2 <= OverAt(v)
  BY <1>1, ReportsAwaited DEF Sched, Over, OverAt, ReportAt
<1>4. Over(v) \in Nat /\ Over(v) >= 3 /\ ReportSlot(v, multicast) \in Nat /\ ReportSlot(v, multicast) > 0
  BY <1>1 DEF Over, OverdueSlot, ReportSlot, Vehicles
<1>5. Over(v) - 1 \in Slots(sched)
  <2>1. Len(sched.lengths) \in Nat
    BY <1>2 DEF IsSchedule
  <2> QED BY <1>3, <1>4, <2>1 DEF Slots
<1>6. StartOf(Over(v) - 1, sched) \in Nat
  BY <1>2, <1>5, SlotFacts
<1>7. OverAt(v) \in Nat /\ OverAt(v) < sched.period /\ sched.period \in Nat
  <2>1. /\ StartOf(Over(v), sched) \in Nat /\ sched.lengths[Over(v) + 1] \in Nat \ {0}
        /\ EndOf(Over(v), sched) = StartOf(Over(v), sched) + sched.lengths[Over(v) + 1]
        /\ EndOf(Over(v), sched) <= sched.period /\ sched.period \in Nat
    BY <1>2, <1>3, SlotFacts
  <2> QED BY <2>1 DEF OverAt
<1>8. ReportAt(v) \in Nat \ {0}
  <2>1. 0 \in Slots(Sched(v)) /\ StartOf(0, Sched(v)) = 0 /\ ReportAt(v) \in Nat
    BY <1>2, <1>3, SlotFacts DEF ReportAt
  <2>2. 0 < ReportAt(v)
    BY <1>2, <1>3, <1>4, <2>1, StartsInOrder DEF ReportAt
  <2> QED BY <2>1, <2>2
<1> QED BY <1>1, <1>2, <1>3, <1>5, <1>6, <1>7, <1>8

\* When the shore begins its cycle and everybody is in step or about to be.
LEMMA SettledIsOrderly ==
  ASSUME Shape, Settled
  PROVE  Orderly
<1>1. ASSUME NEW p \in Procs, IsRunning(engine[p]) PROVE OnTime(p) \/ JustOver(p)
  <2> DEFINE sched == Sched(p)
             s == engine[p].slot
             e == Advanced(engine[p], sched, clock)
             cur == CHOOSE c \in Slots(sched) : Shows(c, sched, clock)
  <2>1. /\ IsSchedule(sched) /\ sched.period = Sched(Shore).period /\ s \in Slots(sched)
        /\ clock \in [cycle : Int, pos : 0 .. sched.period - 1] /\ clock.pos = 0
        /\ engine[p] \in [slot : Int, cycle : Int]
    BY <1>1, SchedulesAreSchedules DEF Shape, Sched, IsRunning, Settled
  <2>2. cur \in Slots(sched) /\ Shows(cur, sched, clock)
    <3>1. \E c \in Slots(sched) : Shows(c, sched, clock)
      BY <2>1 DEF IsSchedule, Shows
    <3> QED BY <3>1
  <2> HIDE DEF cur
  <2>3. SlotIsOver(engine[p], sched, clock) <=> s # cur
    <3> HIDE DEF sched
    <3> QED BY <2>1, <2>2, OverUnlessShown
  <2>4. CASE InStep(engine[p], sched, clock)
    BY <1>1, <2>2, <2>3, <2>4 DEF InStep, Advances, OnTime
  <2>5. CASE ~InStep(engine[p], sched, clock) /\ InStep(e, sched, clock)
    <3>1. CASE SlotIsOver(engine[p], sched, clock) /\ s + 1 \in Slots(sched)
      <4>1. e = [engine[p] EXCEPT !.slot = s + 1]
        BY <3>1 DEF Advanced
      <4>2. e.slot = s + 1
        BY <2>1, <4>1
      <4>3. ~SlotIsOver(e, sched, clock)
        BY <2>5 DEF InStep, Advances
      <4>4. e.slot = cur
        <5> HIDE DEF sched, e
        <5> QED BY <2>1, <2>2, <3>1, <4>2, <4>3, OverUnlessShown
      <4>5. /\ StartOf(s + 1, sched) = EndOf(s, sched) /\ EndOf(s, sched) = StartOf(s, sched) + sched.lengths[s + 1]
            /\ StartOf(s, sched) \in Nat /\ sched.lengths[s + 1] \in Nat \ {0}
        BY <2>1, <3>1, SlotFacts
      <4>6. StartOf(s + 1, sched) <= 0
        BY <2>1, <2>2, <4>2, <4>4 DEF Shows
      <4> QED BY <4>5, <4>6
    <3>2. CASE ~SlotIsOver(engine[p], sched, clock)
      <4>1. s = cur /\ engine[p].cycle # clock.cycle /\ Due(p)
        BY <1>1, <2>3, <2>5, <3>2 DEF InStep, Advances, Due
      <4>2. s = 0
        <5>1. s \in Nat /\ StartOf(s, sched) <= 0 /\ StartOf(s, sched) \in Nat
              /\ 0 \in Slots(sched) /\ StartOf(0, sched) = 0
          BY <2>1, <2>2, <4>1, SlotFacts DEF Shows
        <5>2. 0 < s => StartOf(0, sched) < StartOf(s, sched)
          BY <2>1, <5>1, StartsInOrder
        <5> QED BY <5>1, <5>2
      <4> QED BY <2>1, <4>1, <4>2 DEF JustOver
    <3>3. CASE SlotIsOver(engine[p], sched, clock) /\ s + 1 \notin Slots(sched)
      BY <1>1, <2>1, <3>3 DEF JustOver, Due, Advances
    <3> QED BY <3>1, <3>2, <3>3
  <2> QED BY <1>1, <2>4, <2>5 DEF Settled
<1>2. air = {}
  BY DEF Settled
<1> QED BY <1>1, <1>2 DEF Orderly, Timely, OneSound

\* What a slot of the shore does to the reports.
LEMMA ShoreTakesSlot ==
  ASSUME Typed, ShoreIterates
  PROVE  LET e == Advanced(engine[Shore], Sched(Shore), clock) IN
    \/ shore'.up = FALSE /\ history' = Disturbed
    \/ /\ shore'.up = TRUE /\ engine' = [engine EXCEPT ![Shore] = e]
       /\ history'.calm = IF e.slot # 0 THEN history.calm
                          ELSE IF history.calm = 0 THEN IF Settled THEN 1 ELSE 0 ELSE 2
       /\ shore'.got_receive = FALSE
       /\ \A v \in Vehicles :
            LET was == e.slot # 0 /\ shore.sent_reports[v]
                had == IF e.slot = 0 THEN <<>> ELSE history.reports[v]
                missed == ~shore.got_receive /\ Over(v) = e.slot
            IN /\ shore'.sent_reports[v] = (was \/ missed)
               /\ history'.reports[v] = IF missed /\ ~was THEN Append(had, Failed) ELSE had
<1> DEFINE e == Advanced(engine[Shore], Sched(Shore), clock)
           reset == IF e.slot = 0 THEN [shore EXCEPT !.sent_reports = [v \in Vehicles |-> FALSE]]
                    ELSE shore
           begun == IF e.slot \in ClearSlots(multicast) THEN ClearCommands(reset) ELSE reset
           msg == Outgoing(begun, e.slot)
           sends == Sends(begun, e.slot)
           fails == sends /\ ~RequiredFieldsSet(msg)
           sent == IF sends THEN AfterEncoding(begun) ELSE begun
           ended == AfterReceiveSlot(sent, e.slot)
           reported == {v \in Vehicles : ended.sent_reports[v] /\ ~sent.sent_reports[v]}
<1>1. /\ shore' = IF fails THEN [begun EXCEPT !.up = FALSE] ELSE ended
      /\ history' = IF fails THEN Disturbed ELSE ShoreHistory(e.slot, begun, reported, sends)
      /\ engine' = [engine EXCEPT ![Shore] = IF fails THEN InitEngine ELSE e]
      /\ shore.up
  BY DEF ShoreIterates
<1>2. shore \in ShoreState /\ history \in History
  BY DEF Typed
<1>3. /\ reset \in ShoreState /\ reset.up = shore.up /\ reset.got_receive = shore.got_receive
      /\ \A v \in Vehicles : reset.sent_reports[v] = (e.slot # 0 /\ shore.sent_reports[v])
  <2> HIDE DEF e
  <2> QED BY <1>2 DEF ShoreState
<1>4. /\ begun \in ShoreState /\ begun.up = shore.up /\ begun.got_receive = shore.got_receive
      /\ begun.sent_reports = reset.sent_reports
  <2> HIDE DEF reset
  <2>1. begun \in ShoreState
    BY <1>3, ClearCommandsType
  <2>2. begun.up = reset.up /\ begun.got_receive = reset.got_receive /\ begun.sent_reports = reset.sent_reports
    BY <1>3 DEF ClearCommands, ShoreState
  <2> QED BY <1>3, <2>1, <2>2
<1> HIDE DEF begun
<1>5. CASE fails
  <2>1. shore'.up = FALSE
    BY <1>1, <1>4, <1>5 DEF ShoreState
  <2> QED BY <1>1, <1>5, <2>1
<1>6. CASE ~fails
  <2>1. /\ sent \in ShoreState /\ sent.up = shore.up /\ sent.got_receive = shore.got_receive
        /\ sent.sent_reports = reset.sent_reports
    <3> HIDE DEF sends, reset
    <3>1. sent \in ShoreState
      BY <1>4, ClearedType DEF AfterEncoding, ShoreState
    <3>2. sent.up = begun.up /\ sent.got_receive = begun.got_receive /\ sent.sent_reports = begun.sent_reports
      BY <1>4 DEF AfterEncoding, ShoreState
    <3> QED BY <1>4, <3>1, <3>2
  <2> HIDE DEF sent, reset, sends, fails
  <2>2. /\ ended.up = sent.up /\ ended.got_receive = FALSE
        /\ \A v \in Vehicles : ended.sent_reports[v] =
             (sent.sent_reports[v] \/ (~sent.got_receive /\ Over(v) = e.slot))
    <3>1. \A v \in Vehicles : v \in Overdue(e.slot) <=> Over(v) = e.slot
      BY DEF Overdue, Over
    <3>2. Overdue(e.slot) = {} => \A v \in Vehicles : Over(v) # e.slot
      BY DEF Overdue, Over
    <3> HIDE DEF e
    <3>3. CASE ~sent.got_receive /\ Overdue(e.slot) # {}
      BY <2>1, <3>1, <3>3 DEF AfterReceiveSlot, ShoreState
    <3>4. CASE ~(~sent.got_receive /\ Overdue(e.slot) # {})
      BY <2>1, <3>2, <3>4 DEF AfterReceiveSlot, ShoreState
    <3> QED BY <3>3, <3>4
  <2> HIDE DEF ended
  <2>3. \A v \in Vehicles : v \in reported <=> ended.sent_reports[v] /\ ~sent.sent_reports[v]
    OBVIOUS
  <2>4. \A v \in Vehicles : sent.sent_reports[v] \in BOOLEAN
    BY <2>1 DEF ShoreState
  <2> HIDE DEF reported
  <2>5. /\ history'.calm = IF e.slot # 0 THEN history.calm
                          ELSE IF history.calm = 0 THEN IF Settled THEN 1 ELSE 0 ELSE 2
        /\ \A v \in Vehicles :
             LET had == IF e.slot = 0 THEN <<>> ELSE history.reports[v] IN
               history'.reports[v] = IF v \in reported THEN Append(had, Failed) ELSE had
    <3> HIDE DEF e
    <3> QED BY <1>1, <1>2, <1>6 DEF ShoreHistory, History
  <2>6. ASSUME NEW v \in Vehicles
        PROVE  LET was == e.slot # 0 /\ shore.sent_reports[v]
                   had == IF e.slot = 0 THEN <<>> ELSE history.reports[v]
                   missed == ~shore.got_receive /\ Over(v) = e.slot
               IN /\ shore'.sent_reports[v] = (was \/ missed)
                  /\ history'.reports[v] = IF missed /\ ~was THEN Append(had, Failed) ELSE had
    <3> DEFINE was == e.slot # 0 /\ shore.sent_reports[v]
               missed == ~shore.got_receive /\ Over(v) = e.slot
    <3>1. sent.sent_reports[v] = was
      BY <1>3, <2>1
    <3>2. ended.sent_reports[v] = (was \/ missed)
      BY <2>1, <2>2, <3>1
    <3>3. v \in reported <=> missed /\ ~was
      BY <2>3, <3>1, <3>2
    <3>4. shore'.sent_reports[v] = (was \/ missed)
      BY <1>1, <1>6, <3>2
    <3> HIDE DEF e, was, missed
    <3> QED BY <2>5, <3>3, <3>4 DEF was, missed
  <2>7. shore'.up = TRUE /\ shore'.got_receive = FALSE /\ engine' = [engine EXCEPT ![Shore] = e]
    BY <1>1, <1>2, <1>6, <2>1, <2>2 DEF ShoreState
  <2> HIDE DEF e
  <2> QED BY <2>5, <2>6, <2>7 DEF e
<1> QED BY <1>5, <1>6

LEMMA CalmInitially == Init => Calm
<1> SUFFICES ASSUME Init PROVE Counted /\ history.calm = 0
  BY FreshInitially DEF Calm
<1> QED BY DEF Init, Counted

LEMMA DisturbedIs ==
  ASSUME Typed, history' = Disturbed
  PROVE  history'.calm = 0 /\ history'.reports = history.reports
BY DEF Typed, History, Disturbed

\* A command changes neither reports nor what has been said of them.
LEMMA CommandsDoNotReport ==
  ASSUME Typed, NEW v \in Active, NEW codes, OnVehicleCommand(v, codes)
  PROVE  /\ shore'.up = shore.up /\ shore'.sent_reports = shore.sent_reports
         /\ shore'.got_receive = shore.got_receive
         /\ history'.reports = history.reports /\ history'.calm = history.calm
         /\ history'.sent = history.sent
<1> DEFINE before == IF multicast THEN shore ELSE ClearCommands(shore)
           trajectory == [nr |-> history.posted + 1, codes |-> codes]
<1>1. /\ shore' = [before EXCEPT !.dccl_command.cmd[v] = trajectory,
                                 !.dccl_command.has[v] = "true", !.got_commands[v] = TRUE]
      /\ history' = [history EXCEPT !.posted = @ + 1]
  BY DEF OnVehicleCommand
<1>2. before.up = shore.up /\ before.sent_reports = shore.sent_reports
      /\ before.got_receive = shore.got_receive /\ before \in ShoreState
  <2>1. before \in ShoreState
    BY ClearCommandsType DEF Typed
  <2> QED BY <2>1 DEF ClearCommands, Typed, ShoreState
<1> HIDE DEF before, trajectory
<1>3. shore'.up = before.up /\ shore'.sent_reports = before.sent_reports /\ shore'.got_receive = before.got_receive
  BY <1>1, <1>2 DEF ShoreState
<1> QED BY <1>1, <1>2, <1>3 DEF Typed, History

LEMMA CountedStays ==
  ASSUME Counted, shore'.up = shore.up, shore'.sent_reports = shore.sent_reports,
         history'.reports = history.reports
  PROVE  Counted'
BY DEF Counted

LEMMA CountedReceives ==
  ASSUME Typed, Counted, ShoreReceives
  PROVE  Counted'
<1> DEFINE mail == Head(inbox[Shore])
           id == mail.msg.id
<1>1. mail \in ShoreMail /\ id \in Vehicles
  BY ShoreReportType DEF ShoreReceives, Typed
<1>2. CASE mail.fresh /\ MayReport(id)
  <2>1. /\ shore' = [shore EXCEPT !.got_receive = TRUE, !.sent_reports[id] = TRUE]
        /\ history' = [history EXCEPT !.reports[id] = Append(@, Posted(mail.msg, history.sent[id]))]
        /\ shore.up /\ ~shore.sent_reports[id]
    BY <1>2 DEF ShoreReceives, MayReport
  <2> HIDE DEF mail, id
  <2>2. /\ shore'.up = shore.up
        /\ \A v \in Vehicles : shore'.sent_reports[v] = IF v = id THEN TRUE ELSE shore.sent_reports[v]
    BY <1>1, <2>1 DEF Typed, ShoreState
  <2> DEFINE new == Posted(mail.msg, history.sent[id])
  <2>3. \A v \in Vehicles : /\ history.reports[v] \in Seq(PostedReport)
                            /\ history'.reports[v] = IF v = id THEN Append(history.reports[v], new)
                                                     ELSE history.reports[v]
    BY <1>1, <2>1 DEF Typed, History
  <2>4. Len(history.reports[id]) <= 1 /\ Len(history.reports[id]) # 1 /\ Len(history.reports[id]) \in Nat
    BY <1>1, <2>1, <2>3 DEF Counted
  <2>5. Len(Append(history.reports[id], new)) = 1
    <3> DEFINE r == history.reports[id]
    <3>1. r \in Seq(PostedReport)
      BY <1>1, <2>3
    <3> DEFINE n == Len(r)
    <3>2. n = 0
      <4>1. n \in Nat /\ n <= 1 /\ n # 1
        BY <2>4
      <4> HIDE DEF n
      <4> QED BY <4>1
    <3> HIDE DEF new, r
    <3>3. Len(Append(r, new)) = n + 1
      BY <3>1
    <3>4. Len(Append(r, new)) = 1
      <4> HIDE DEF n
      <4> QED BY <3>2, <3>3
    <3> QED BY <3>4 DEF r
  <2> DEFINE more == Append(history.reports[id], new)
  <2> HIDE DEF new, more
  <2>6. ASSUME NEW v \in Vehicles
        PROVE  /\ Len(history'.reports[v]) <= 1
               /\ shore'.up => (shore'.sent_reports[v] <=> Len(history'.reports[v]) = 1)
    <3>1. CASE v = id
      <4>1. history'.reports[v] = more /\ shore'.sent_reports[v] = TRUE
        BY <2>2, <2>3, <3>1 DEF more
      <4> QED BY <2>5, <4>1 DEF more
    <3>2. CASE v # id
      <4>1. history'.reports[v] = history.reports[v] /\ shore'.sent_reports[v] = shore.sent_reports[v]
        BY <2>2, <2>3, <3>2
      <4> QED BY <2>2, <4>1 DEF Counted
    <3> QED BY <3>1, <3>2
  <2> QED BY <2>6 DEF Counted
<1>3. CASE ~(mail.fresh /\ MayReport(id))
  <2>1. UNCHANGED <<shore, history>>
    BY <1>3 DEF ShoreReceives
  <2> QED BY <2>1 DEF Counted
<1> QED BY <1>2, <1>3

LEMMA CountedIterates ==
  ASSUME Typed, Counted, ShoreIterates
  PROVE  Counted'
<1>1. shore.up
  BY DEF ShoreIterates
<1>2. CASE shore'.up = FALSE /\ history' = Disturbed
  BY <1>2, DisturbedIs DEF Counted
<1>3. CASE ~(shore'.up = FALSE /\ history' = Disturbed)
  <2> DEFINE e == Advanced(engine[Shore], Sched(Shore), clock)
  <2>1. ASSUME NEW v \in Vehicles
        PROVE  /\ Len(history'.reports[v]) <= 1
               /\ shore'.sent_reports[v] <=> Len(history'.reports[v]) = 1
    <3> DEFINE was == e.slot # 0 /\ shore.sent_reports[v]
               had == IF e.slot = 0 THEN <<>> ELSE history.reports[v]
               missed == ~shore.got_receive /\ Over(v) = e.slot
    <3>1. /\ shore'.sent_reports[v] = (was \/ missed)
          /\ history'.reports[v] = IF missed /\ ~was THEN Append(had, Failed) ELSE had
      BY <1>3, ShoreTakesSlot
    <3>2. Len(had) <= 1 /\ Len(had) \in Nat /\ (was <=> Len(had) = 1) /\ had \in Seq(PostedReport)
      <4>1. history.reports[v] \in Seq(PostedReport) /\ Len(history.reports[v]) \in Nat
        BY DEF Typed, History
      <4>2. Len(history.reports[v]) <= 1 /\ (shore.sent_reports[v] <=> Len(history.reports[v]) = 1)
        BY <1>1 DEF Counted
      <4>3. <<>> \in Seq(PostedReport) /\ Len(<<>>) = 0
        OBVIOUS
      <4> HIDE DEF e
      <4> QED BY <4>1, <4>2, <4>3
    <3>4. was \in BOOLEAN /\ missed \in BOOLEAN
      BY DEF Typed, ShoreState
    <3> HIDE DEF was, had, missed
    <3>3. Len(Append(had, Failed)) = Len(had) + 1
      BY <3>2
    <3>5. CASE missed /\ ~was
      <4> DEFINE n == Len(had)
      <4>1. n = 0
        <5>1. n \in Nat /\ n <= 1 /\ n # 1
          BY <3>2, <3>5
        <5> HIDE DEF n
        <5> QED BY <5>1
      <4>2. history'.reports[v] = Append(had, Failed) /\ shore'.sent_reports[v] = TRUE
        BY <3>1, <3>4, <3>5
      <4>3. Len(Append(had, Failed)) = 1
        BY <3>3, <4>1
      <4> QED BY <4>2, <4>3
    <3>6. CASE ~(missed /\ ~was)
      BY <3>1, <3>2, <3>4, <3>6
    <3> QED BY <3>5, <3>6
  <2> QED BY <2>1 DEF Counted
<1> QED BY <1>2, <1>3

LEMMA CountedPreserved == Typed /\ Counted /\ [Next]_vars => Counted'
<1> SUFFICES ASSUME Typed, Counted, [Next]_vars PROVE Counted'
  OBVIOUS
<1>1. ASSUME NEW v \in Active, NEW codes, OnVehicleCommand(v, codes) PROVE Counted'
  BY <1>1, CommandsDoNotReport, CountedStays
<1>2. ASSUME NEW v \in Active, VehicleReceives(v) \/ VehicleIterates(v) PROVE Counted'
  BY <1>2 DEF VehicleReceives, VehicleIterates, Counted
<1>3. ASSUME NEW P \in Targets, OnRun(P) \/ OnStop(P) PROVE Counted'
  <2>1. shore' = shore /\ history' = Disturbed
    BY <1>3 DEF OnRun, OnStop
  <2> QED BY <2>1, DisturbedIs, CountedStays
<1>4. CASE Tick
  <2>1. shore' = shore /\ (history' = Disturbed \/ history' = history)
    BY <1>4 DEF Tick
  <2> QED BY <2>1, DisturbedIs, CountedStays
<1>5. CASE UNCHANGED vars
  BY <1>5, CountedStays DEF vars
<1> QED BY <1>1, <1>2, <1>3, <1>4, <1>5, CountedReceives, CountedIterates DEF Next

LEMMA QuietStays ==
  ASSUME Undisturbed, Orderly', UNCHANGED <<multicast, clock>>, engine'[Shore] = engine[Shore],
         shore'.up = shore.up, shore'.sent_reports = shore.sent_reports,
         shore'.got_receive = shore.got_receive, inbox'[Shore] = inbox[Shore],
         \A s \in air' : s \in air \/ (s.from # Shore => s.msg.id = s.from)
  PROVE  Undisturbed'
BY DEF Undisturbed, HeardNow, ReportAt, Over, Sched

\* A report that is read before it is overdue comes from the vehicle the shore waits for.
LEMMA ShoreWaitsForOne ==
  ASSUME Shape, Timely, NEW v \in Vehicles, NEW w \in Active, HeardNow(w),
         engine[Shore].slot + 1 = Over(v), engine[Shore].slot < Over(w)
  PROVE  w = v
<1> DEFINE sched == Sched(Shore)
           s == engine[Shore].slot
<1>1. /\ IsSchedule(sched) /\ w \in Vehicles /\ Shore \in Procs
      /\ Over(w) \in Slots(sched) /\ Over(w) - 1 \in Slots(sched)
      /\ ReportAt(w) \in Nat \ {0} /\ StartOf(Over(w) - 1, sched) \in Nat
      /\ StartOf(Over(w) - 1, sched) <= ReportAt(w)
  BY Waits, Numbers
<1>2. Over(v) \in Nat /\ Over(v) >= 3 /\ Over(w) \in Nat /\ (Over(v) = Over(w) => v = w)
  BY <1>1 DEF Over, OverdueSlot, Vehicles
<1>3. s \in Nat /\ s >= 2 /\ s \in Slots(sched) /\ IsRunning(engine[Shore])
  <2>1. s \in {Stopped} \cup Slots(sched) /\ s \in Int
    BY <1>1 DEF Shape
  <2> QED BY <1>2, <2>1 DEF IsRunning, Stopped
<1>4. StartOf(s, sched) \in Nat /\ EndOf(s, sched) \in Nat
  BY <1>1, <1>3, SlotFacts
<1>5. clock.pos \in Nat /\ clock.pos > ReportAt(w)
  BY <1>1 DEF HeardNow
<1>6. clock.pos <= EndOf(s, sched)
  <2>1. CASE OnTime(Shore)
    BY <1>4, <1>5, <2>1 DEF OnTime, Shows
  <2>2. CASE JustOver(Shore)
    <3>1. s + 1 \in Slots(sched) /\ clock.pos = StartOf(s + 1, sched)
      BY <1>1, <1>5, <2>2 DEF JustOver
    <3> QED BY <1>1, <1>3, <1>4, <3>1, SlotFacts
  <2> QED BY <1>1, <1>3, <2>1, <2>2 DEF Timely
<1>7. ASSUME Over(v) < Over(w) PROVE FALSE
  <2>1. s < Over(w) - 1
    BY <1>2, <1>3, <1>7
  <2>2. EndOf(s, sched) <= StartOf(Over(w) - 1, sched)
    BY <1>1, <1>3, <2>1, StartsInOrder
  <2> QED BY <1>1, <1>4, <1>5, <1>6, <2>2
<1> QED BY <1>2, <1>3, <1>7

LEMMA UndisturbedReceives ==
  ASSUME Typed, Undisturbed, Orderly', ShoreReceives
  PROVE  Undisturbed'
<1> DEFINE mail == Head(inbox[Shore])
           w == mail.msg.id
<1>1. /\ inbox[Shore] \in Seq(ShoreMail) /\ inbox[Shore] # <<>> /\ Shore \in DOMAIN inbox
      /\ UNCHANGED <<multicast, clock, engine, air>> /\ inbox' = [inbox EXCEPT ![Shore] = Tail(@)]
  BY Numbers DEF ShoreReceives, Typed
<1>2. w \in Active /\ HeardNow(w) /\ w \in Vehicles
  <2>1. 1 \in DOMAIN inbox[Shore] /\ mail = inbox[Shore][1]
    BY <1>1
  <2> QED BY <2>1, Numbers DEF Undisturbed
<1>3. \A i \in DOMAIN inbox'[Shore] : i + 1 \in DOMAIN inbox[Shore] /\ inbox'[Shore][i] = inbox[Shore][i + 1]
  <2> DEFINE q == inbox[Shore]
             S == ShoreMail
  <2>1. inbox'[Shore] = Tail(q) /\ q \in Seq(S) /\ q # <<>>
    BY <1>1
  <2>2. \A i \in DOMAIN Tail(q) : i + 1 \in DOMAIN q /\ Tail(q)[i] = q[i + 1]
    <3> HIDE DEF q, S
    <3> QED BY <2>1
  <2> QED BY <2>1, <2>2
<1>4. \A i \in DOMAIN inbox'[Shore] :
        inbox'[Shore][i].msg.id \in Active /\ HeardNow(inbox'[Shore][i].msg.id)
  BY <1>3 DEF Undisturbed
<1>5. /\ shore'.up
      /\ \A v \in Vehicles : shore.sent_reports[v] => shore'.sent_reports[v]
      /\ \A v \in Vehicles : engine[Shore].slot + 1 = Over(v) /\ shore'.got_receive => shore'.sent_reports[v]
  <2>1. CASE mail.fresh /\ MayReport(w)
    <3>1. shore' = [shore EXCEPT !.got_receive = TRUE, !.sent_reports[w] = TRUE] /\ ~shore.sent_reports[w]
      BY <2>1 DEF ShoreReceives, MayReport
    <3> HIDE DEF mail, w
    <3>2. /\ shore'.up = shore.up
          /\ \A v \in Vehicles : shore'.sent_reports[v] = IF v = w THEN TRUE ELSE shore.sent_reports[v]
      BY <1>2, <3>1 DEF Typed, ShoreState
    <3>3. ~(engine[Shore].slot >= Over(w))
      BY <1>2, <3>1 DEF Undisturbed
    <3>4. engine[Shore].slot < Over(w)
      <4>1. engine[Shore].slot \in Int
        BY Numbers DEF Typed, Shape
      <4>2. Over(w) \in Int
        BY <1>2 DEF Over, OverdueSlot, Vehicles
      <4> QED BY <3>3, <4>1, <4>2
    <3>5. \A v \in Vehicles : engine[Shore].slot + 1 = Over(v) => w = v
      BY <1>2, <3>4, ShoreWaitsForOne DEF Undisturbed, Orderly, Typed
    <3> QED BY <3>2, <3>5 DEF Undisturbed
  <2>2. CASE ~(mail.fresh /\ MayReport(w))
    <3>1. shore' = shore
      BY <2>2 DEF ShoreReceives
    <3> QED BY <3>1 DEF Undisturbed
  <2> QED BY <2>1, <2>2
<1>6. \A v \in Vehicles : Over(v)' = Over(v)
  BY <1>1 DEF Over
<1>7. (\A i \in DOMAIN inbox[Shore] :
         inbox[Shore][i].msg.id \in Active /\ HeardNow(inbox[Shore][i].msg.id))'
  <2> SUFFICES ASSUME NEW i \in DOMAIN inbox'[Shore]
               PROVE  (inbox[Shore][i].msg.id \in Active /\ HeardNow(inbox[Shore][i].msg.id))'
    OBVIOUS
  <2> DEFINE u == inbox'[Shore][i].msg.id
  <2>1. u \in Active /\ HeardNow(u)
    BY <1>4
  <2>2. clock' = clock /\ \A v \in Active : ReportAt(v)' = ReportAt(v)
    BY <1>1 DEF ReportAt, Sched
  <2> QED BY <2>1, <2>2 DEF HeardNow
<1>8. \A s \in air' : s.from # Shore => s.msg.id = s.from
  BY <1>1 DEF Undisturbed
<1>9. \A v \in Vehicles :
        /\ engine'[Shore].slot >= Over(v)' => shore'.sent_reports[v]
        /\ engine'[Shore].slot + 1 = Over(v)' /\ shore'.got_receive => shore'.sent_reports[v]
  BY <1>1, <1>5, <1>6 DEF Undisturbed
<1> QED BY <1>5, <1>7, <1>8, <1>9 DEF Undisturbed

\* Order holds at the beginning of every cycle that is not disturbed.
LEMMA OrderlyIfCalm ==
  ASSUME Calm, [Next]_vars, history'.calm > 0
  PROVE  /\ Orderly'
         /\ \/ history.calm > 0
            \/ ShoreIterates /\ Settled /\ Advanced(engine[Shore], Sched(Shore), clock).slot = 0
<1> USE DEF Calm, Fresh
<1>0. Typed /\ Shape /\ history.calm \in 0 .. 2
  BY DEF Typed, History
<1>1. Tick => ~Oversleeps
  <2> SUFFICES ASSUME Tick, Oversleeps PROVE FALSE
    OBVIOUS
  <2>1. history' = Disturbed
    BY DEF Tick
  <2> QED BY <1>0, <2>1, DisturbedIs
<1>2. CASE history.calm > 0
  BY <1>0, <1>1, <1>2, NextOrderly DEF Undisturbed
<1>3. CASE ~(history.calm > 0)
  <2>1. history.calm = 0
    BY <1>0, <1>3
  <2>2. ShoreIterates
    <3>1. ASSUME NEW v \in Active, NEW codes, OnVehicleCommand(v, codes) PROVE FALSE
      BY <1>0, <2>1, <3>1, CommandsDoNotReport
    <3>2. ASSUME NEW v \in Active, VehicleReceives(v) \/ VehicleIterates(v) PROVE FALSE
      BY <2>1, <3>2 DEF VehicleReceives, VehicleIterates
    <3>3. ASSUME NEW P \in Targets, OnRun(P) \/ OnStop(P) PROVE FALSE
      <4>1. history' = Disturbed
        BY <3>3 DEF OnRun, OnStop
      <4> QED BY <1>0, <4>1, DisturbedIs
    <3>4. CASE Tick
      <4>1. history' = Disturbed \/ history' = history
        BY <3>4 DEF Tick
      <4> QED BY <1>0, <2>1, <4>1, DisturbedIs
    <3>5. CASE ShoreReceives
      <4>1. history'.calm = history.calm
        BY <1>0, <3>5 DEF ShoreReceives, Typed, History
      <4> QED BY <2>1, <4>1
    <3>6. CASE UNCHANGED vars
      BY <2>1, <3>6 DEF vars
    <3> QED BY <3>1, <3>2, <3>3, <3>4, <3>5, <3>6 DEF Next
  <2>3. Settled /\ Advanced(engine[Shore], Sched(Shore), clock).slot = 0
    <3>1. ~(history' = Disturbed)
      BY <1>0, DisturbedIs
    <3> DEFINE e == Advanced(engine[Shore], Sched(Shore), clock)
    <3> HIDE DEF e
    <3>2. history'.calm = IF e.slot # 0 THEN history.calm
                          ELSE IF history.calm = 0 THEN IF Settled THEN 1 ELSE 0 ELSE 2
      BY <1>0, <2>2, <3>1, ShoreTakesSlot DEF e
    <3> QED BY <2>1, <3>2 DEF e
  <2>4. Orderly
    BY <1>0, <2>3, SettledIsOrderly
  <2> QED BY <1>0, <1>1, <2>2, <2>3, <2>4, NextOrderly
<1> QED BY <1>2, <1>3

LEMMA ShoreSends ==
  ASSUME ShoreIterates
  PROVE  \A a \in air' : a \in air \/ (a.from = Shore /\ ~a.old)
<1> DEFINE e == Advanced(engine[Shore], Sched(Shore), clock)
           reset == IF e.slot = 0 THEN [shore EXCEPT !.sent_reports = [v \in Vehicles |-> FALSE]]
                    ELSE shore
           begun == IF e.slot \in ClearSlots(multicast) THEN ClearCommands(reset) ELSE reset
           msg == Outgoing(begun, e.slot)
           does == Sends(begun, e.slot) /\ ~(Sends(begun, e.slot) /\ ~RequiredFieldsSet(msg))
<1>1. air' = IF does THEN Transmitted(Shore, msg) ELSE air
  BY DEF ShoreIterates
<1> HIDE DEF does, msg
<1> QED BY <1>1 DEF Transmitted

LEMMA UndisturbedIterates ==
  ASSUME Calm, ShoreIterates, Orderly', history'.calm > 0,
         history.calm > 0 \/ (Settled /\ Advanced(engine[Shore], Sched(Shore), clock).slot = 0)
  PROVE  Undisturbed'
<1> USE DEF Calm, Fresh
<1> DEFINE sched == Sched(Shore)
           s == engine[Shore].slot
           e == Advanced(engine[Shore], sched, clock)
<1>0. Typed /\ Shape /\ Shore \in Procs /\ history.calm > 0 => Undisturbed
  BY Numbers DEF Typed
<1>1. /\ shore'.up = TRUE /\ engine' = [engine EXCEPT ![Shore] = e]
      /\ shore'.got_receive = FALSE
      /\ \A v \in Vehicles :
           LET was == e.slot # 0 /\ shore.sent_reports[v]
               missed == ~shore.got_receive /\ Over(v) = e.slot
           IN shore'.sent_reports[v] = (was \/ missed)
  <2>1. ~(history' = Disturbed)
    BY DisturbedIs
  <2> HIDE DEF e
  <2> QED BY <2>1, ShoreTakesSlot DEF e
<1>2. UNCHANGED <<multicast, clock, inbox>>
  BY DEF ShoreIterates
<1>3. /\ \A a \in air' : a.from # Shore => a.msg.id = a.from
      /\ \A i \in DOMAIN inbox[Shore] :
           inbox[Shore][i].msg.id \in Active /\ HeardNow(inbox[Shore][i].msg.id)
  <2>1. /\ \A a \in air : a.from # Shore => a.msg.id = a.from
        /\ \A i \in DOMAIN inbox[Shore] :
             inbox[Shore][i].msg.id \in Active /\ HeardNow(inbox[Shore][i].msg.id)
    <3>1. CASE history.calm > 0
      BY <3>1 DEF Undisturbed
    <3>2. CASE Settled
      BY <3>2, Numbers DEF Settled
    <3> QED BY <3>1, <3>2
  <2>2. \A a \in air' : a \in air \/ a.from = Shore
    BY ShoreSends
  <2> QED BY <2>1, <2>2
<1>4. (\A i \in DOMAIN inbox[Shore] :
         inbox[Shore][i].msg.id \in Active /\ HeardNow(inbox[Shore][i].msg.id))'
  BY <1>2, <1>3 DEF HeardNow, ReportAt, Sched
<1>5. engine'[Shore] = e
  BY <1>1, Numbers DEF Typed, Shape
<1>6. s \in Int /\ (e.slot = 0 \/ e.slot = s + 1)
  BY Numbers DEF Typed, Shape, Advanced
<1> HIDE DEF e, s
<1>7. ASSUME NEW v \in Vehicles
      PROVE  /\ engine'[Shore].slot >= Over(v)' => shore'.sent_reports[v]
             /\ engine'[Shore].slot + 1 = Over(v)' /\ shore'.got_receive => shore'.sent_reports[v]
  <2>1. Over(v)' = Over(v)
    BY <1>2 DEF Over
  <2>2. Over(v) \in Nat /\ Over(v) >= 3
    BY DEF Over, OverdueSlot, Vehicles
  <2>3. ASSUME e.slot >= Over(v) PROVE shore'.sent_reports[v]
    <3>1. e.slot # 0 /\ e.slot = s + 1
      BY <1>6, <2>2, <2>3
    <3>2. /\ s >= Over(v) => shore.sent_reports[v]
          /\ s + 1 = Over(v) /\ shore.got_receive => shore.sent_reports[v]
      BY <3>1 DEF Undisturbed, e, s
    <3>3. s >= Over(v) \/ s + 1 = Over(v)
      BY <1>6, <2>2, <2>3, <3>1
    <3> QED BY <1>1, <3>1, <3>2, <3>3
  <2> QED BY <1>1, <1>5, <2>1, <2>3
<1> QED BY <1>1, <1>3, <1>4, <1>7 DEF Undisturbed

\* A program that had read its mail hears at most one sound.
LEMMA HearsOne ==
  ASSUME NEW p \in Procs, inbox[p] = <<>>, NEW sound, NEW listeners
  PROVE  Hear(sound, listeners)[p] =
           IF p \in listeners /\ Running(p) THEN <<[msg |-> sound.msg, fresh |-> TRUE]>> ELSE <<>>
<1> DEFINE older == [i \in DOMAIN inbox[p] |-> [inbox[p][i] EXCEPT !.fresh = FALSE]]
           more == IF p \in listeners /\ Running(p) THEN <<[msg |-> sound.msg, fresh |-> TRUE]>> ELSE <<>>
           S == [msg : {sound.msg}, fresh : BOOLEAN]
<1>1. older = <<>>
  <2>1. DOMAIN inbox[p] = {}
    OBVIOUS
  <2> QED BY <2>1
<1>2. more \in Seq(S)
  <2> DEFINE mail == [msg |-> sound.msg, fresh |-> TRUE]
  <2>1. mail \in S
    OBVIOUS
  <2> HIDE DEF mail, S
  <2>2. <<mail>> \in Seq(S) /\ <<>> \in Seq(S)
    BY <2>1
  <2> QED BY <2>2 DEF mail
<1>3. Hear(sound, listeners)[p] = older \o more
  BY DEF Hear
<1>4. <<>> \o more = more
  <2> HIDE DEF more, S
  <2> QED BY <1>2, ConcatEmptySeq
<1> QED BY <1>1, <1>3, <1>4

\* The time of a sound, and of what is heard of it.
LEMMA SoundGoesOn ==
  ASSUME Shape, NEW p \in Procs, NEW t \in Slots(Sched(p)), Transmits(p, t, multicast),
         NEW d \in {0, 1}, clock.pos = StartOf(t, Sched(p)) + d, clock' = Later,
         StartOf(t, Sched(p)) + 2 < Sched(Shore).period \/ d = 0
  PROVE  clock'.pos = StartOf(t, Sched(p)) + d + 1 /\ clock'.cycle = clock.cycle
<1>1. /\ IsSchedule(Sched(p)) /\ Sched(p).period = Sched(Shore).period /\ multicast \in BOOLEAN
  BY SchedulesAreSchedules DEF Shape, Sched
<1>2. StartOf(t, Sched(p)) \in Nat /\ Sched(Shore).period \in Nat
  BY <1>1, SlotFacts
<1>3. StartOf(t, Sched(p)) + 2 <= Sched(Shore).period
  BY <1>1, SlotsApart DEF Sched
<1>4. clock.pos + 1 # Sched(Shore).period
  BY <1>2, <1>3
<1>5. clock' = [clock EXCEPT !.pos = @ + 1]
  BY <1>4 DEF Later
<1> QED BY <1>2, <1>5 DEF Shape

LEMMA UndisturbedTick ==
  ASSUME Typed, Undisturbed, Orderly', Tick, ~Oversleeps
  PROVE  Undisturbed'
<1>1. /\ clock' = Later /\ UNCHANGED <<multicast, engine, shore>> /\ Shape /\ Shore \in Procs
      /\ Running(Shore)
  BY Numbers DEF Tick, Typed, Undisturbed, Running
<1>2. inbox[Shore] = <<>>
  BY <1>1 DEF Oversleeps
<1>3. \A s \in air' : s.from # Shore => s.msg.id = s.from
  <2>1. \/ air' = {}
        \/ \E sound \in air : air' = {[from |-> sound.from, msg |-> sound.msg, old |-> TRUE]}
    BY DEF Tick, Propagate
  <2> QED BY <2>1 DEF Undisturbed
<1>4. ASSUME NEW i \in DOMAIN inbox'[Shore]
      PROVE  (inbox[Shore][i].msg.id \in Active /\ HeardNow(inbox[Shore][i].msg.id))'
  <2>1. PICK sound, listeners :
          /\ inbox' = Hear(sound, listeners)
          /\ listeners # {} => sound \in air /\ listeners \subseteq Listeners(sound)
    <3>1. CASE inbox' = Hear({}, {})
      BY <3>1
    <3>2. CASE \E sound \in air : inbox' = Hear(sound, {})
      BY <3>2
    <3>3. CASE \E sound \in air : \E listeners \in SUBSET Listeners(sound) : inbox' = Hear(sound, listeners)
      BY <3>3
    <3> QED BY <3>1, <3>2, <3>3 DEF Tick, Propagate
  <2> DEFINE mail == [msg |-> sound.msg, fresh |-> TRUE]
  <2>2. inbox'[Shore] = IF Shore \in listeners THEN <<mail>> ELSE <<>>
    BY <1>1, <1>2, <2>1, HearsOne
  <2>3. Shore \in listeners
    <3> SUFFICES ASSUME Shore \notin listeners PROVE FALSE
      OBVIOUS
    <3>1. inbox'[Shore] = <<>>
      BY <2>2
    <3> QED BY <1>4, <3>1
  <2>4. inbox'[Shore][i].msg = sound.msg
    <3> HIDE DEF mail
    <3>1. inbox'[Shore] = <<mail>>
      BY <2>2, <2>3
    <3>2. inbox'[Shore][i] = mail
      BY <1>4, <3>1
    <3> QED BY <3>2 DEF mail
  <2> DEFINE w == sound.from
  <2>5. sound \in air /\ w # Shore /\ w \in Active
    <3>1. sound \in air /\ Shore \in Listeners(sound)
      BY <2>1, <2>3
    <3>2. w # Shore
      BY <3>1, Numbers DEF Listeners
    <3> QED BY <3>1, <3>2, Numbers DEF Typed, Procs
  <2>6. sound.msg.id = w
    BY <2>5 DEF Undisturbed
  <2>7. PICK t \in Slots(Sched(w)) : /\ Transmits(w, t, multicast)
                                     /\ clock.pos = StartOf(t, Sched(w)) + (IF sound.old THEN 1 ELSE 0)
    BY <2>5 DEF Undisturbed, Orderly, SoundInSlot
  <2>8. t = ReportSlot(w, multicast)
    BY <2>5, <2>7 DEF Transmits
  <2>9. ReportAt(w) = StartOf(t, Sched(w)) /\ ReportAt(w) \in Nat /\ ReportAt(w) + 2 < Sched(Shore).period
        /\ w \in Procs
    <3>1. /\ ReportAt(w) \in Nat \ {0} /\ OverAt(w) \in Nat /\ Sched(Shore).period \in Nat /\ w \in Procs
          /\ ReportAt(w) + 2 <= OverAt(w) /\ OverAt(w) < Sched(Shore).period
      BY <1>1, <2>5, Waits
    <3> QED BY <2>8, <3>1 DEF ReportAt
  <2>10. \E d \in {0, 1} : clock'.pos = StartOf(t, Sched(w)) + d + 1
    <3> DEFINE d == IF sound.old THEN 1 ELSE 0
    <3>1. d \in {0, 1}
      OBVIOUS
    <3> HIDE DEF d, w
    <3>2. clock.pos = StartOf(t, Sched(w)) + d
      BY <2>7 DEF d
    <3> QED BY <1>1, <2>7, <2>9, <3>1, <3>2, SoundGoesOn
  <2>11. ReportAt(w)' = ReportAt(w)
    BY <1>1 DEF ReportAt, Sched
  <2> HIDE DEF w
  <2>12. HeardNow(w)'
    BY <2>9, <2>10, <2>11 DEF HeardNow
  <2>13. inbox'[Shore][i].msg.id = w
    BY <2>4, <2>6
  <2> QED BY <2>5, <2>12, <2>13 DEF HeardNow, ReportAt
<1>5. (\A i \in DOMAIN inbox[Shore] : inbox[Shore][i].msg.id \in Active /\ HeardNow(inbox[Shore][i].msg.id))'
  BY <1>4
<1>6. \A v \in Vehicles : Over(v)' = Over(v)
  BY <1>1 DEF Over
<1> QED BY <1>1, <1>3, <1>5, <1>6 DEF Undisturbed

LEMMA CalmPreserved == Calm /\ [Next]_vars => Calm'
<1> SUFFICES ASSUME Calm, [Next]_vars PROVE Calm'
  OBVIOUS
<1>1. Fresh' /\ Typed' /\ Typed /\ Counted'
  BY FreshInductive, CountedPreserved DEF Calm, Fresh
<1>2. SUFFICES ASSUME history'.calm > 0 PROVE Undisturbed'
  BY <1>1 DEF Calm
<1>3. Orderly'
  BY <1>2, OrderlyIfCalm
<1>4. CASE ShoreIterates
  <2>1. history.calm > 0 \/ (Settled /\ Advanced(engine[Shore], Sched(Shore), clock).slot = 0)
    BY <1>2, OrderlyIfCalm
  <2> QED BY <1>2, <1>3, <1>4, <2>1, UndisturbedIterates
<1>5. ASSUME ~ShoreIterates PROVE Undisturbed'
  <2>0. Undisturbed
    BY <1>2, <1>5, OrderlyIfCalm DEF Calm
  <2>1. ASSUME NEW v \in Active, NEW codes, OnVehicleCommand(v, codes) PROVE Undisturbed'
    <3>1. UNCHANGED <<multicast, clock, engine, inbox, air>>
      BY <2>1 DEF OnVehicleCommand
    <3> QED BY <1>1, <1>3, <2>0, <2>1, <3>1, CommandsDoNotReport, QuietStays
  <2>2. ASSUME NEW v \in Active, VehicleReceives(v) PROVE Undisturbed'
    <3>1. UNCHANGED <<multicast, clock, engine, air, shore>> /\ inbox'[Shore] = inbox[Shore]
      BY <1>1, <2>2, Numbers DEF VehicleReceives, Typed
    <3> QED BY <1>3, <2>0, <3>1, QuietStays
  <2>3. ASSUME NEW v \in Active, VehicleIterates(v) PROVE Undisturbed'
    <3> DEFINE e == Advanced(engine[v], Sched(v), clock)
               report == [id |-> v, ack |-> vehicle[v].ack, nr |-> vehicle[v].nr]
    <3>1. /\ UNCHANGED <<multicast, clock, shore, inbox>> /\ engine' = [engine EXCEPT ![v] = e]
          /\ air' = air \/ air' = Transmitted(v, report)
      BY <2>3 DEF VehicleIterates
    <3>2. engine'[Shore] = engine[Shore]
      <4> HIDE DEF e
      <4> QED BY <1>1, <3>1, Numbers DEF Typed, Shape
    <3>3. \A s \in air' : s \in air \/ (s.from # Shore => s.msg.id = s.from)
      BY <3>1 DEF Transmitted
    <3> QED BY <1>3, <2>0, <3>1, <3>2, <3>3, QuietStays
  <2>4. ASSUME NEW P \in Targets, OnRun(P) \/ OnStop(P) PROVE FALSE
    <3>1. history' = Disturbed
      BY <2>4 DEF OnRun, OnStop
    <3> QED BY <1>1, <1>2, <3>1, DisturbedIs
  <2>5. CASE Tick
    <3>1. ~Oversleeps
      <4> SUFFICES ASSUME Oversleeps PROVE FALSE
        OBVIOUS
      <4>1. history' = Disturbed
        BY <2>5 DEF Tick
      <4> QED BY <1>1, <1>2, <4>1, DisturbedIs
    <3> QED BY <1>1, <1>3, <2>0, <2>5, <3>1, UndisturbedTick
  <2>6. CASE ShoreReceives
    BY <1>1, <1>3, <2>0, <2>6, UndisturbedReceives
  <2>7. CASE UNCHANGED vars
    BY <1>3, <2>0, <2>7, QuietStays DEF vars
  <2> QED BY <1>5, <2>1, <2>2, <2>3, <2>4, <2>5, <2>6, <2>7 DEF Next
<1> QED BY <1>4, <1>5

\* For each vehicle the shore posts one report in a cycle, good or failed, and never two,
\* however its slots and the mail come together: in a cycle that nothing disturbed it is there
\* by the end of the slot in which the vehicle reports.
THEOREM OneReportOfEach == Spec => []OneReportPerCycle
<1>1. Init => Calm
  BY CalmInitially
<1>2. Calm /\ [Next]_vars => Calm'
  BY CalmPreserved
<1>3. Calm => OneReportPerCycle
  BY DEF Calm, Counted, Undisturbed, OneReportPerCycle, Over
<1> QED BY <1>1, <1>2, <1>3, PTL DEF Spec

-----------------------------------------------------------------------------
(* An ack is for the last command *)

\* The slot of the shore in which a vehicle is commanded.
CommandSlot(v) == IF multicast THEN 0 ELSE <<4, 8, 0>>[v]
CommandAt(v) == StartOf(CommandSlot(v), Sched(Shore))

\* In this cycle of the clock the slot has been taken.
Commanded(v) == clock.pos > CommandAt(v) \/ (clock.pos = CommandAt(v) /\ OnTime(Shore))
Reported(v) == clock.pos > ReportAt(v) \/ (clock.pos = ReportAt(v) /\ OnTime(v))

\* The vehicle has been commanded since it reported, or has not reported since it was.
Told(v) ==
  IF CommandAt(v) < ReportAt(v) THEN Commanded(v) /\ ~Reported(v) ELSE Commanded(v) \/ ~Reported(v)

\* The vehicle has reported in a calm cycle: its ack is none from before.
Known(v) == history.calm = 2 \/ Reported(v) \/ (clock.pos = 0 /\ ~OnTime(Shore))

\* A command is read within two units of its slot.
CommandedNow(v) ==
  \/ clock.pos = CommandAt(v) + 1 \/ clock.pos = CommandAt(v) + 2
  \/ clock.pos = 0 /\ CommandAt(v) + 2 = Sched(Shore).period

HoldsAck(v) ==
  IsRunning(engine[v]) /\ Known(v) =>
    IF Told(v) THEN vehicle[v].ack => vehicle[v].nr = history.sent[v] ELSE ~vehicle[v].ack

CommandsUnderWay(v) ==
  /\ \A s \in air : s.from = Shore /\ s.msg.has[v] = "true" =>
       /\ s.msg.cmd[v].nr = history.sent[v]
       /\ clock.pos = CommandAt(v) + (IF s.old THEN 1 ELSE 0)
  /\ \A i \in DOMAIN inbox[v] : inbox[v][i].msg.has[v] = "true" =>
       inbox[v][i].msg.cmd[v].nr = history.sent[v] /\ CommandedNow(v)

AcksUnderWay(v) ==
  history.calm = 2 =>
    /\ \A s \in air : s.from = v /\ s.msg.ack => s.msg.nr = history.sent[v]
    /\ \A i \in DOMAIN inbox[Shore] :
         LET msg == inbox[Shore][i].msg IN msg.id = v /\ msg.ack => msg.nr = history.sent[v]

InterleavedAddressesOne ==
  ~multicast => \A v, w \in Vehicles : shore.dccl_command.has[v] = "true" /\ shore.got_commands[w] => v = w

\* The inductive invariant.
Acknowledging ==
  /\ Calm /\ InterleavedAddressesOne
  /\ AckIsForLastCommand
  /\ history.calm > 0 =>
       /\ IsRunning(engine[Shore])
       /\ \A v \in Active : HoldsAck(v) /\ CommandsUnderWay(v) /\ AcksUnderWay(v)

\* The times at which a vehicle is commanded.
LEMMA Commands ==
  ASSUME Shape, NEW v \in Active
  PROVE  /\ CommandSlot(v) \in Slots(Sched(Shore)) /\ CommandAt(v) \in Nat
         /\ \A s : v \in CommandFor(s, multicast) <=> s = CommandSlot(v)
         /\ Transmits(Shore, CommandSlot(v), multicast)
         /\ CommandAt(v) + 2 < ReportAt(v) \/ ReportAt(v) + 2 < CommandAt(v)
         /\ CommandAt(v) + 2 <= Sched(Shore).period
<1> DEFINE sched == Sched(Shore)
<1>1. v \in Vehicles /\ Shore \in Procs /\ multicast \in BOOLEAN /\ IsSchedule(sched)
  BY Numbers, SchedulesAreSchedules DEF Shape, Sched
<1>2. \A s : v \in CommandFor(s, multicast) <=> s = CommandSlot(v)
  <2>1. CASE multicast
    BY <1>1, <2>1 DEF CommandFor, CommandSlot
  <2>2. CASE ~multicast
    <3>1. v \in {1, 2, 3} /\ CommandSlot(v) = <<4, 8, 0>>[v]
      BY <1>1, <2>2 DEF CommandSlot, Vehicles
    <3>2. \A s : CommandFor(s, multicast) =
                   CASE s = 0 -> {3} [] s = 4 -> {1} [] s = 8 -> {2} [] OTHER -> {}
      BY <2>2 DEF CommandFor
    <3>3. \A s : /\ 1 \in CommandFor(s, multicast) <=> s = 4
                 /\ 2 \in CommandFor(s, multicast) <=> s = 8
                 /\ 3 \in CommandFor(s, multicast) <=> s = 0
      BY <3>2
    <3> QED BY <3>1, <3>3
  <2> QED BY <1>1, <2>1, <2>2
<1>3. PICK s \in Slots(sched) :
        /\ v \in CommandFor(s, multicast)
        /\ StartOf(s, sched) + 2 < ReportAt(v) \/ ReportAt(v) + 2 < StartOf(s, sched)
  BY <1>1, ReportsAwaited DEF ReportAt, Sched
<1>4. s = CommandSlot(v)
  BY <1>2, <1>3
<1>5. Transmits(Shore, s, multicast)
  BY <1>3 DEF Transmits
<1>6. StartOf(s, sched) + 2 <= sched.period
  BY <1>1, <1>3, <1>5, SlotsApart DEF Sched
<1>7. CommandAt(v) \in Nat
  BY <1>1, <1>3, <1>4, SlotFacts DEF CommandAt
<1> QED BY <1>2, <1>3, <1>4, <1>5, <1>6, <1>7 DEF CommandAt

\* A program takes a slot at its beginning.
LEMMA TakesSlotInTime ==
  ASSUME Shape, Timely, NEW p \in Procs, Due(p), UNCHANGED <<multicast, clock>>,
         engine' = [engine EXCEPT ![p] = Advanced(engine[p], Sched(p), clock)]
  PROVE  LET e == Advanced(engine[p], Sched(p), clock) IN
           /\ e.slot \in Slots(Sched(p)) /\ clock.pos = StartOf(e.slot, Sched(p))
           /\ ~OnTime(p) /\ OnTime(p)'
           /\ \A t \in Slots(Sched(p)) : clock.pos = StartOf(t, Sched(p)) => t = e.slot
<1> DEFINE e == Advanced(engine[p], Sched(p), clock)
<1>1. IsRunning(engine[p])
  BY DEF Due, Advances
<1>2. ~OnTime(p) /\ JustOver(p)
  BY <1>1, OnTimeRests DEF Timely
<1>3. /\ e.slot \in Slots(Sched(p)) /\ e.cycle = clock.cycle
      /\ Shows(e.slot, Sched(p), clock) /\ clock.pos = StartOf(e.slot, Sched(p))
  BY <1>1, <1>2, JustOverAdvances
<1>4. OnTime(p)'
  <2> HIDE DEF e
  <2>1. engine'[p] = e /\ Sched(p)' = Sched(p)
    BY DEF Shape, Sched, e
  <2> QED BY <1>3, <2>1 DEF OnTime
<1>5. ASSUME NEW t \in Slots(Sched(p)), clock.pos = StartOf(t, Sched(p)) PROVE t = e.slot
  <2> DEFINE sched == Sched(p)
  <2>1. IsSchedule(sched)
    BY SchedulesAreSchedules DEF Shape, Sched
  <2>2. t \in Nat /\ e.slot \in Nat /\ StartOf(t, sched) \in Nat
    BY <1>3, <2>1, SlotFacts
  <2> HIDE DEF e
  <2>3. ASSUME t < e.slot PROVE FALSE
    <3>1. StartOf(t, sched) < StartOf(e.slot, sched)
      BY <1>3, <2>1, <2>3, StartsInOrder
    <3> QED BY <1>3, <1>5, <2>2, <3>1
  <2>4. ASSUME e.slot < t PROVE FALSE
    <3>1. StartOf(e.slot, sched) < StartOf(t, sched)
      BY <1>3, <2>1, <2>4, StartsInOrder
    <3> QED BY <1>3, <1>5, <2>2, <3>1
  <2> QED BY <2>2, <2>3, <2>4
<1> QED BY <1>2, <1>3, <1>4, <1>5

\* As time goes on, a program that has taken its slot has not taken the next one yet.
LEMMA NextSlotIsNotTaken ==
  ASSUME Shape, Shape', Timely, ~Oversleeps, clock' = Later, UNCHANGED <<multicast, engine, shore>>,
         NEW p \in Procs, IsRunning(engine[p])
  PROVE  /\ OnTime(p)
         /\ clock'.pos = 0 => ~OnTime(p)' /\ \A t \in Slots(Sched(p)) : StartOf(t, Sched(p)) <= clock.pos
         /\ clock'.pos # 0 => clock'.pos = clock.pos + 1
         /\ \A t \in Slots(Sched(p)) : clock'.pos = StartOf(t, Sched(p)) => ~OnTime(p)'
<1> DEFINE s == engine[p].slot
           sched == Sched(p)
<1>1. ~Due(p)
  BY DEF Oversleeps, Running, IsRunning, Shape
<1>2. OnTime(p)
  BY <1>1, JustOverAdvances DEF Timely
<1>3. /\ IsSchedule(sched) /\ s \in Slots(sched) /\ sched.period = Sched(Shore).period
      /\ clock \in [cycle : 0 .. Cycles - 1, pos : 0 .. sched.period - 1]
      /\ Cycles \in Nat \ {0, 1}
  BY SchedulesAreSchedules, PursuitParameters DEF Shape, Sched, IsRunning
<1>4. Sched(p)' = sched /\ engine'[p] = engine[p]
  BY DEF Sched
<1>5. clock.pos < EndOf(s, sched) /\ StartOf(s, sched) <= clock.pos /\ engine[p].cycle = clock.cycle
  BY <1>2 DEF OnTime, Shows
<1>6. \A t \in Slots(sched) : /\ t \in Nat /\ StartOf(t, sched) \in Nat /\ EndOf(t, sched) \in Nat
                              /\ StartOf(t, sched) < EndOf(t, sched) /\ EndOf(t, sched) <= sched.period
                              /\ (t < s => StartOf(t, sched) < StartOf(s, sched))
                              /\ (s < t => EndOf(s, sched) <= StartOf(t, sched))
  <2> TAKE t \in Slots(sched)
  <2>1. t \in Nat /\ StartOf(t, sched) \in Nat /\ EndOf(t, sched) \in Nat /\ EndOf(t, sched) <= sched.period
        /\ EndOf(t, sched) = StartOf(t, sched) + sched.lengths[t + 1] /\ sched.lengths[t + 1] \in Nat \ {0}
    BY <1>3, SlotFacts
  <2>2. t < s => StartOf(t, sched) < StartOf(s, sched)
    BY <1>3, StartsInOrder
  <2>3. s < t => EndOf(s, sched) <= StartOf(t, sched)
    BY <1>3, StartsInOrder
  <2> QED BY <2>1, <2>2, <2>3
<1>7. sched.period \in Nat \ {0} /\ clock.pos \in Nat /\ s \in Nat
  <2>1. sched.period \in Nat \ {0} /\ s \in Nat
    BY <1>3, SlotFacts
  <2> QED BY <1>3, <2>1
<1>8. CASE clock.pos + 1 = sched.period
  <2>1. clock'.pos = 0 /\ clock'.cycle # clock.cycle
    BY <1>3, <1>8 DEF Later
  <2>2. ~OnTime(p)'
    BY <1>4, <1>5, <2>1 DEF OnTime
  <2>3. \A t \in Slots(sched) : StartOf(t, sched) <= clock.pos
    BY <1>6, <1>7, <1>8
  <2> QED BY <1>2, <2>1, <2>2, <2>3
<1>9. CASE clock.pos + 1 # sched.period
  <2>1. clock'.pos = clock.pos + 1
    BY <1>3, <1>9 DEF Later
  <2>2. ASSUME NEW t \in Slots(sched), clock'.pos = StartOf(t, sched) PROVE ~OnTime(p)'
    <3>1. ~(t < s) /\ t # s
      <4>1. /\ StartOf(t, sched) \in Nat /\ StartOf(s, sched) \in Nat
            /\ t < s => StartOf(t, sched) < StartOf(s, sched)
        BY <1>3, <1>6
      <4>2. StartOf(s, sched) < StartOf(t, sched)
        BY <1>5, <1>7, <2>1, <2>2, <4>1
      <4> QED BY <4>1, <4>2
    <3>2. EndOf(s, sched) <= clock'.pos
      BY <1>6, <1>7, <2>2, <3>1
    <3>3. EndOf(s, sched) \in Nat /\ clock'.pos \in Nat
      BY <1>6, <1>7, <1>3, <2>1
    <3> QED BY <1>4, <3>2, <3>3 DEF OnTime, Shows
  <2> QED BY <1>2, <1>7, <2>1, <2>2
<1> QED BY <1>8, <1>9

\* What a slot of the shore sends is for the vehicles of that slot.
LEMMA ShoreSendsToItsSlot ==
  ASSUME Typed, InterleavedAddressesOne, ShoreIterates
  PROVE  LET e == Advanced(engine[Shore], Sched(Shore), clock) IN
    /\ InterleavedAddressesOne'
    /\ \/ history' = Disturbed
       \/ air' = air /\ \A v \in Vehicles : history'.sent[v] = history.sent[v]
       \/ \E msg :
            /\ air' = Transmitted(Shore, msg) /\ Transmits(Shore, e.slot, multicast)
            /\ \A v \in Vehicles :
                 /\ msg.has[v] = "true" => v \in CommandFor(e.slot, multicast)
                 /\ history'.sent[v] = IF msg.has[v] = "true" THEN msg.cmd[v].nr ELSE history.sent[v]
<1> DEFINE e == Advanced(engine[Shore], Sched(Shore), clock)
           reset == IF e.slot = 0 THEN [shore EXCEPT !.sent_reports = [v \in Vehicles |-> FALSE]]
                    ELSE shore
           begun == IF e.slot \in ClearSlots(multicast) THEN ClearCommands(reset) ELSE reset
           msg == Outgoing(begun, e.slot)
           sends == Sends(begun, e.slot)
           fails == sends /\ ~RequiredFieldsSet(msg)
           sent == IF sends THEN AfterEncoding(begun) ELSE begun
           ended == AfterReceiveSlot(sent, e.slot)
           reported == {v \in Vehicles : ended.sent_reports[v] /\ ~sent.sent_reports[v]}
           has == begun.dccl_command.has
           got == begun.got_commands
           One(h, g) == ~multicast => \A v, w \in Vehicles : h[v] = "true" /\ g[w] => v = w
<1>1. /\ shore' = IF fails THEN [begun EXCEPT !.up = FALSE] ELSE ended
      /\ air' = IF sends /\ ~fails THEN Transmitted(Shore, msg) ELSE air
      /\ history' = IF fails THEN Disturbed ELSE ShoreHistory(e.slot, begun, reported, sends)
      /\ UNCHANGED multicast
  BY DEF ShoreIterates
<1>2. reset \in ShoreState /\ reset.dccl_command = shore.dccl_command
      /\ reset.got_commands = shore.got_commands
  BY DEF Typed, ShoreState
<1>3. begun \in ShoreState
  <2> HIDE DEF reset
  <2> QED BY <1>2, ClearCommandsType
<1>4. One(has, got)
  <2>1. CASE e.slot \in ClearSlots(multicast)
    <3> HIDE DEF reset
    <3>1. /\ begun = ClearCommands(reset)
          /\ \A v \in Vehicles : has[v] = "false" /\ ~got[v]
      BY <1>2, <2>1 DEF ClearCommands, Cleared, ShoreState
    <3> QED BY <3>1
  <2>2. CASE e.slot \notin ClearSlots(multicast)
    <3> HIDE DEF reset
    <3>1. begun.dccl_command = shore.dccl_command /\ begun.got_commands = shore.got_commands
      BY <1>2, <2>2
    <3> HIDE DEF begun
    <3> QED BY <3>1 DEF InterleavedAddressesOne
  <2> QED BY <2>1, <2>2
<1>5. begun.dccl_command \in Command /\ has \in [Vehicles -> Field]
  <2>1. begun.dccl_command \in Command
    BY <1>3 DEF ShoreState
  <2> HIDE DEF begun
  <2> QED BY <2>1 DEF Command
<1> HIDE DEF begun
<1>6. sends => \A v \in Vehicles : msg.has[v] = "true" => v \in CommandFor(e.slot, multicast)
  <2> SUFFICES ASSUME sends, NEW v \in Vehicles, msg.has[v] = "true"
               PROVE  v \in CommandFor(e.slot, multicast)
    OBVIOUS
  <2>1. PICK u \in CommandFor(e.slot, multicast) : got[u]
    BY DEF Sends
  <2>2. u \in Vehicles
    BY <2>1 DEF CommandFor, Vehicles
  <2>3. CASE multicast
    BY <2>1, <2>3 DEF CommandFor
  <2>4. CASE ~multicast
    <3>1. msg.has[v] = IF v \in CommandFor(e.slot, multicast) THEN "true" ELSE has[v]
      BY <1>5, <2>4 DEF Outgoing, Command
    <3> HIDE DEF msg, has, got
    <3>2. v \notin CommandFor(e.slot, multicast) => has[v] = "true"
      BY <3>1
    <3> QED BY <1>4, <2>1, <2>2, <2>4, <3>2
  <2> QED BY <2>3, <2>4
<1>7. sends => Transmits(Shore, e.slot, multicast)
  BY DEF Sends, Transmits
<1>8. \A v \in Vehicles : ShoreHistory(e.slot, begun, reported, sends).sent[v] =
        IF sends /\ msg.has[v] = "true" THEN msg.cmd[v].nr ELSE history.sent[v]
  <2>1. history \in History
    BY DEF Typed
  <2> HIDE DEF e, reported, sends
  <2> QED BY <2>1 DEF ShoreHistory, History
<1>9. /\ sends => \A v \in Vehicles : sent.dccl_command.has[v] = "unset"
      /\ sent \in ShoreState
  BY <1>3, ClearedType DEF AfterEncoding, Cleared, ShoreState
<1>10. ended.dccl_command = sent.dccl_command /\ ended.got_commands = sent.got_commands
  <2> HIDE DEF sent
  <2> QED BY <1>9 DEF AfterReceiveSlot, ShoreState
<1> HIDE DEF ended, sent, msg, reported
<1>11. InterleavedAddressesOne'
  <2>1. CASE fails
    <3>1. shore'.dccl_command = begun.dccl_command /\ shore'.got_commands = begun.got_commands
      BY <1>1, <1>3, <2>1 DEF ShoreState
    <3> HIDE DEF fails
    <3> QED BY <1>1, <1>4, <3>1 DEF InterleavedAddressesOne
  <2>2. CASE ~fails /\ sends
    <3>1. shore'.dccl_command = sent.dccl_command
      BY <1>1, <1>10, <2>2
    <3> HIDE DEF fails, sends
    <3> QED BY <1>9, <2>2, <3>1 DEF InterleavedAddressesOne
  <2>3. CASE ~fails /\ ~sends
    <3>1. shore'.dccl_command = begun.dccl_command /\ shore'.got_commands = begun.got_commands
      BY <1>1, <1>10, <2>3 DEF sent
    <3> HIDE DEF fails, sends
    <3> QED BY <1>1, <1>4, <3>1 DEF InterleavedAddressesOne
  <2> QED BY <2>1, <2>2, <2>3
<1>12. CASE fails
  BY <1>1, <1>11, <1>12
<1>13. CASE ~fails /\ sends
  <2>1. air' = Transmitted(Shore, msg)
        /\ \A v \in Vehicles : history'.sent[v] = IF msg.has[v] = "true" THEN msg.cmd[v].nr ELSE history.sent[v]
    BY <1>1, <1>8, <1>13
  <2> HIDE DEF fails, sends, e
  <2> QED BY <1>6, <1>7, <1>11, <1>13, <2>1 DEF e
<1>14. CASE ~fails /\ ~sends
  <2>1. air' = air /\ \A v \in Vehicles : history'.sent[v] = history.sent[v]
    BY <1>1, <1>8, <1>14
  <2> QED BY <1>11, <2>1
<1> QED BY <1>12, <1>13, <1>14

LEMMA AddressesOneInitially == Init => InterleavedAddressesOne
BY DEF Init, InterleavedAddressesOne

LEMMA AddressesOneInductive == Typed /\ InterleavedAddressesOne /\ [Next]_vars => InterleavedAddressesOne'
<1> SUFFICES ASSUME Typed, InterleavedAddressesOne, [Next]_vars PROVE InterleavedAddressesOne'
  OBVIOUS
<1>1. ASSUME NEW v \in Active, NEW codes \in BoundedSeq(Codes, MaxLength), OnVehicleCommand(v, codes)
      PROVE  InterleavedAddressesOne'
  <2> SUFFICES ASSUME ~multicast', NEW u \in Vehicles, NEW w \in Vehicles,
                      shore'.dccl_command.has[u] = "true", shore'.got_commands[w]
               PROVE  u = w
    BY DEF InterleavedAddressesOne
  <2> DEFINE trajectory == [nr |-> history.posted + 1, codes |-> codes]
             before == ClearCommands(shore)
  <2>1. /\ shore' = [before EXCEPT !.dccl_command.cmd[v] = trajectory,
                                   !.dccl_command.has[v] = "true", !.got_commands[v] = TRUE]
        /\ v \in Vehicles
    BY <1>1, Numbers DEF OnVehicleCommand
  <2>2. before \in ShoreState
    BY ClearCommandsType DEF Typed
  <2>3. \A x \in Vehicles : before.dccl_command.has[x] = "false" /\ before.got_commands[x] = FALSE
    BY DEF ClearCommands, Cleared, Typed, ShoreState
  <2>4. before.dccl_command \in Command /\ before.got_commands \in [Vehicles -> BOOLEAN]
    BY <2>2 DEF ShoreState
  <2> HIDE DEF before, trajectory
  <2>5. \A x \in Vehicles : /\ shore'.dccl_command.has[x] = IF x = v THEN "true" ELSE before.dccl_command.has[x]
                            /\ shore'.got_commands[x] = IF x = v THEN TRUE ELSE before.got_commands[x]
    BY <2>1, <2>2, <2>4 DEF ShoreState, Command
  <2>6. u = v
    BY <2>3, <2>5
  <2>7. w = v
    BY <2>3, <2>5
  <2> QED BY <2>6, <2>7
<1>2. CASE ShoreReceives
  <2>1. shore'.dccl_command = shore.dccl_command /\ shore'.got_commands = shore.got_commands
        /\ UNCHANGED multicast
    BY <1>2 DEF ShoreReceives, Typed, ShoreState
  <2> QED BY <2>1 DEF InterleavedAddressesOne
<1>3. CASE ShoreIterates
  BY <1>3, ShoreSendsToItsSlot
<1>4. CASE UNCHANGED <<shore, multicast>>
  BY <1>4 DEF InterleavedAddressesOne
<1> QED BY <1>1, <1>2, <1>3, <1>4
        DEF Next, vars, VehicleReceives, VehicleIterates, OnRun, OnStop, Tick

\* The mail that is left is some of what there was.
NoMoreMail(p) == \A i \in DOMAIN inbox'[p] : \E j \in DOMAIN inbox[p] : inbox'[p][i] = inbox[p][j]

LEMMA ReadsFirst ==
  ASSUME NEW p \in Procs, NEW S, inbox[p] \in Seq(S), inbox[p] # <<>>, DOMAIN inbox = Procs,
         inbox' = [inbox EXCEPT ![p] = Tail(@)]
  PROVE  /\ \A q \in Procs : NoMoreMail(q)
         /\ \E j \in DOMAIN inbox[p] : Head(inbox[p]) = inbox[p][j]
<1> DEFINE q == inbox[p]
<1>1. inbox'[p] = Tail(q) /\ q \in Seq(S) /\ q # <<>> /\ \A r \in Procs \ {p} : inbox'[r] = inbox[r]
  OBVIOUS
<1>2. \A i \in DOMAIN Tail(q) : i + 1 \in DOMAIN q /\ Tail(q)[i] = q[i + 1]
  <2> HIDE DEF q
  <2> QED BY <1>1
<1>3. 1 \in DOMAIN q /\ Head(q) = q[1]
  <2> HIDE DEF q
  <2> QED BY <1>1
<1>4. NoMoreMail(p)
  BY <1>1, <1>2 DEF NoMoreMail
<1>5. \A r \in Procs \ {p} : NoMoreMail(r)
  BY <1>1 DEF NoMoreMail
<1> QED BY <1>3, <1>4, <1>5

LEMMA TimesStay ==
  ASSUME NEW v \in Active, UNCHANGED <<multicast, clock>>,
         engine'[Shore] = engine[Shore], engine'[v] = engine[v]
  PROVE  /\ CommandAt(v)' = CommandAt(v) /\ ReportAt(v)' = ReportAt(v)
         /\ Commanded(v)' = Commanded(v) /\ Reported(v)' = Reported(v) /\ Told(v)' = Told(v)
         /\ CommandedNow(v)' = CommandedNow(v)
         /\ OnTime(Shore)' = OnTime(Shore)
         /\ history'.calm = history.calm => Known(v)' = Known(v)
<1>1. CommandAt(v)' = CommandAt(v) /\ ReportAt(v)' = ReportAt(v) /\ Sched(v)' = Sched(v)
      /\ Sched(Shore)' = Sched(Shore)
  BY DEF CommandAt, CommandSlot, ReportAt, Sched
<1>2. OnTime(Shore)' = OnTime(Shore) /\ OnTime(v)' = OnTime(v)
  BY <1>1 DEF OnTime
<1>3. Commanded(v)' = Commanded(v) /\ Reported(v)' = Reported(v)
  BY <1>1, <1>2 DEF Commanded, Reported
<1>4. Told(v)' = Told(v)
  BY <1>1, <1>3 DEF Told
<1>5. CommandedNow(v)' = CommandedNow(v)
  BY <1>1 DEF CommandedNow
<1>6. history'.calm = history.calm => Known(v)' = Known(v)
  BY <1>2, <1>3 DEF Known
<1> QED BY <1>1, <1>2, <1>3, <1>4, <1>5, <1>6

LEMMA HoldingStays ==
  ASSUME NEW v \in Active, HoldsAck(v), UNCHANGED <<multicast, clock>>,
         engine'[Shore] = engine[Shore], engine'[v] = engine[v],
         vehicle'[v].ack = vehicle[v].ack, vehicle'[v].nr = vehicle[v].nr,
         history'.sent[v] = history.sent[v], history'.calm = history.calm
  PROVE  HoldsAck(v)'
BY TimesStay DEF HoldsAck

LEMMA UnderWayStays ==
  ASSUME NEW v \in Active, CommandsUnderWay(v), AcksUnderWay(v), UNCHANGED <<multicast, clock>>,
         history'.sent[v] = history.sent[v], history'.calm = history.calm,
         \A s \in air' : s \in air \/ (s.from # Shore /\ s.from # v),
         NoMoreMail(v), NoMoreMail(Shore)
  PROVE  CommandsUnderWay(v)' /\ AcksUnderWay(v)'
<1>1. CommandAt(v)' = CommandAt(v) /\ (CommandedNow(v)' <=> CommandedNow(v))
  BY DEF CommandAt, CommandSlot, CommandedNow, Sched
<1>2. ASSUME NEW s \in air', s.from = Shore, s.msg.has[v] = "true"
      PROVE  s.msg.cmd[v].nr = history'.sent[v] /\ clock'.pos = CommandAt(v)' + (IF s.old THEN 1 ELSE 0)
  <2>1. s \in air
    BY <1>2
  <2> QED BY <1>1, <1>2, <2>1 DEF CommandsUnderWay
<1>3. ASSUME NEW i \in DOMAIN inbox'[v], inbox'[v][i].msg.has[v] = "true"
      PROVE  inbox'[v][i].msg.cmd[v].nr = history'.sent[v] /\ CommandedNow(v)'
  <2>1. PICK j \in DOMAIN inbox[v] : inbox'[v][i] = inbox[v][j]
    BY DEF NoMoreMail
  <2> QED BY <1>1, <1>3, <2>1 DEF CommandsUnderWay
<1>4. CommandsUnderWay(v)'
  BY <1>2, <1>3 DEF CommandsUnderWay
<1>5. ASSUME history'.calm = 2, NEW s \in air', s.from = v, s.msg.ack PROVE s.msg.nr = history'.sent[v]
  <2>1. s \in air
    BY <1>5
  <2> QED BY <1>5, <2>1 DEF AcksUnderWay
<1>6. ASSUME history'.calm = 2, NEW i \in DOMAIN inbox'[Shore], inbox'[Shore][i].msg.id = v,
             inbox'[Shore][i].msg.ack
      PROVE  inbox'[Shore][i].msg.nr = history'.sent[v]
  <2>1. PICK j \in DOMAIN inbox[Shore] : inbox'[Shore][i] = inbox[Shore][j]
    BY DEF NoMoreMail
  <2> QED BY <1>6, <2>1 DEF AcksUnderWay
<1>7. AcksUnderWay(v)'
  BY <1>5, <1>6 DEF AcksUnderWay
<1> QED BY <1>4, <1>7

\* A vehicle that reads a command has been told it in this cycle.
LEMMA ReadsCommand ==
  ASSUME Typed, NEW v \in Active, HoldsAck(v), CommandsUnderWay(v), VehicleReceives(v)
  PROVE  HoldsAck(v)'
<1> DEFINE command == Head(inbox[v]).msg
<1>1. /\ v \in Vehicles /\ v \in Procs /\ inbox[v] \in Seq(VehicleMail) /\ inbox[v] # <<>>
      /\ DOMAIN inbox = Procs /\ inbox' = [inbox EXCEPT ![v] = Tail(@)]
      /\ UNCHANGED <<multicast, clock, engine, history>> /\ vehicle \in [Vehicles -> VehicleState]
  BY Numbers DEF VehicleReceives, Typed
<1>2. CASE command.has[v] = "true"
  <2>1. PICK j \in DOMAIN inbox[v] : Head(inbox[v]) = inbox[v][j]
    BY <1>1, ReadsFirst
  <2>2. command.cmd[v].nr = history.sent[v] /\ CommandedNow(v)
    BY <1>2, <2>1 DEF CommandsUnderWay
  <2> DEFINE taken == [trajectory |-> command.cmd[v].codes, ack |-> TRUE, nr |-> command.cmd[v].nr]
  <2>3. vehicle'[v] = taken
    <3>1. vehicle' = [vehicle EXCEPT ![v] = taken]
      BY <1>2 DEF VehicleReceives
    <3> HIDE DEF taken
    <3> QED BY <1>1, <3>1
  <2>4. vehicle'[v].nr = history'.sent[v] /\ vehicle'[v].ack = TRUE
    BY <1>1, <2>2, <2>3
  <2>5. Told(v)
    <3>1. /\ CommandAt(v) \in Nat /\ ReportAt(v) \in Nat \ {0} /\ Sched(Shore).period \in Nat
          /\ CommandAt(v) + 2 < ReportAt(v) \/ ReportAt(v) + 2 < CommandAt(v)
          /\ ReportAt(v) + 2 <= OverAt(v) /\ OverAt(v) < Sched(Shore).period /\ OverAt(v) \in Nat
      BY <1>1, Commands, Waits DEF Typed
    <3>2. CASE clock.pos = 0 /\ CommandAt(v) + 2 = Sched(Shore).period
      <4>1. ~Reported(v) /\ ~(CommandAt(v) < ReportAt(v))
        BY <3>1, <3>2 DEF Reported
      <4> QED BY <4>1 DEF Told
    <3>3. CASE clock.pos = CommandAt(v) + 1 \/ clock.pos = CommandAt(v) + 2
      <4>1. Commanded(v)
        BY <3>1, <3>3 DEF Commanded
      <4>2. CommandAt(v) < ReportAt(v) => ~Reported(v)
        BY <3>1, <3>3 DEF Reported
      <4> QED BY <4>1, <4>2 DEF Told
    <3> QED BY <2>2, <3>2, <3>3 DEF CommandedNow
  <2>6. Told(v)'
    BY <1>1, <2>5, TimesStay
  <2> QED BY <2>4, <2>6 DEF HoldsAck
<1>3. CASE command.has[v] # "true"
  <2>1. vehicle' = vehicle
    BY <1>3 DEF VehicleReceives
  <2> QED BY <1>1, <2>1, HoldingStays
<1> QED BY <1>2, <1>3

\* A vehicle reports the ack it holds.
LEMMA ReportsAck ==
  ASSUME Typed, Timely, NEW v \in Active, HoldsAck(v), CommandsUnderWay(v), AcksUnderWay(v), VehicleIterates(v)
  PROVE  HoldsAck(v)' /\ CommandsUnderWay(v)' /\ AcksUnderWay(v)'
<1> DEFINE e == Advanced(engine[v], Sched(v), clock)
           reports == e.slot = ReportSlot(v, multicast)
           report == [id |-> v, ack |-> vehicle[v].ack, nr |-> vehicle[v].nr]
           w == IF reports THEN AfterReport(vehicle[v]) ELSE vehicle[v]
<1>1. /\ v \in Vehicles /\ v \in Procs /\ v # Shore /\ Shore \in Procs /\ Shape
      /\ UNCHANGED <<multicast, clock, inbox, history>> /\ vehicle \in [Vehicles -> VehicleState]
      /\ Due(v) /\ engine' = [engine EXCEPT ![v] = e]
      /\ vehicle' = [vehicle EXCEPT ![v] = [w EXCEPT !.trajectory = CarryOut(@)]]
      /\ air' = IF reports THEN Transmitted(v, report) ELSE air
  BY Numbers DEF VehicleIterates, Typed
<1>2. /\ e.slot \in Slots(Sched(v)) /\ clock.pos = StartOf(e.slot, Sched(v))
      /\ ~OnTime(v) /\ OnTime(v)'
      /\ \A t \in Slots(Sched(v)) : clock.pos = StartOf(t, Sched(v)) => t = e.slot
  BY <1>1, TakesSlotInTime
<1>3. engine'[Shore] = engine[Shore] /\ NoMoreMail(v) /\ NoMoreMail(Shore) /\ IsRunning(engine[v])
  <2>1. engine'[Shore] = engine[Shore]
    <3> HIDE DEF e
    <3> QED BY <1>1 DEF Shape
  <2> QED BY <1>1, <2>1 DEF NoMoreMail, Due, Advances
<1>4. vehicle'[v].ack = w.ack /\ vehicle'[v].nr = w.nr
  <2>1. w \in VehicleState
    BY <1>1, Numbers DEF AfterReport, VehicleState
  <2> HIDE DEF w
  <2> QED BY <1>1, <2>1 DEF VehicleState
<1>5. CASE reports
  <2>1. vehicle'[v].ack = FALSE
    BY <1>1, <1>4, <1>5 DEF AfterReport, VehicleState
  <2>2. HoldsAck(v)'
    BY <2>1 DEF HoldsAck
  <2>3. clock.pos = ReportAt(v) /\ ~Reported(v)
    <3>1. clock.pos = ReportAt(v)
      BY <1>2, <1>5 DEF ReportAt
    <3>2. ReportAt(v) \in Nat
      BY <1>1, Waits
    <3> QED BY <1>2, <3>1, <3>2 DEF Reported
  <2>4. Told(v)
    <3>1. CommandAt(v) \in Nat /\ (CommandAt(v) < ReportAt(v) => Commanded(v))
      BY <1>1, <2>3, Commands DEF Commanded
    <3> QED BY <2>3, <3>1 DEF Told
  <2>5. history.calm = 2 /\ vehicle[v].ack => vehicle[v].nr = history.sent[v]
    BY <1>3, <2>4 DEF HoldsAck, Known
  <2>6. \A s \in air' : s \in air \/ s = [from |-> v, msg |-> report, old |-> FALSE]
    BY <1>1, <1>5 DEF Transmitted
  <2> HIDE DEF report, w, e
  <2>7. CommandsUnderWay(v)'
    <3>1. CommandAt(v)' = CommandAt(v) /\ CommandedNow(v)' = CommandedNow(v)
      BY <1>1 DEF CommandAt, CommandSlot, CommandedNow, Sched
    <3>2. \A s \in air' : s.from = Shore => s \in air
      BY <1>1, <2>6
    <3> QED BY <1>1, <3>1, <3>2 DEF CommandsUnderWay
  <2>8. AcksUnderWay(v)'
    BY <1>1, <2>5, <2>6 DEF AcksUnderWay, report
  <2> QED BY <2>2, <2>7, <2>8
<1>6. CASE ~reports
  <2>1. vehicle'[v].ack = vehicle[v].ack /\ vehicle'[v].nr = vehicle[v].nr
    BY <1>4, <1>6
  <2>2. clock.pos # ReportAt(v)
    <3>1. ReportSlot(v, multicast) \in Slots(Sched(v))
      BY <1>1, Waits
    <3> QED BY <1>2, <1>6, <3>1 DEF ReportAt
  <2>3. Sched(Shore)' = Sched(Shore) /\ ReportAt(v)' = ReportAt(v) /\ CommandAt(v)' = CommandAt(v)
        /\ OnTime(Shore)' = OnTime(Shore)
    BY <1>1, <1>3 DEF ReportAt, CommandAt, CommandSlot, Sched, OnTime
  <2>4. Reported(v)' = Reported(v) /\ Commanded(v)' = Commanded(v)
    BY <1>1, <2>2, <2>3 DEF Reported, Commanded
  <2>5. Told(v)' = Told(v) /\ Known(v)' = Known(v)
    BY <1>1, <2>3, <2>4 DEF Told, Known
  <2>6. HoldsAck(v)'
    BY <1>1, <1>3, <2>1, <2>5 DEF HoldsAck
  <2>7. CommandsUnderWay(v)' /\ AcksUnderWay(v)'
    BY <1>1, <1>3, <1>6, UnderWayStays
  <2> QED BY <2>6, <2>7
<1> QED BY <1>5, <1>6

\* At the slot of the clock, whether it is known what a vehicle holds does not depend on the
\* slot that the shore takes; and before it is commanded it holds no ack.
LEMMA ShoreTakesSlotKnown ==
  ASSUME Calm, ShoreIterates, NEW v \in Active, HoldsAck(v), Timely, history.calm > 0,
         history'.calm > 0, IsRunning(engine[v]), Known(v)'
  PROVE  LET slot == Advanced(engine[Shore], Sched(Shore), clock).slot IN
         /\ Known(v)
         /\ slot = CommandSlot(v) => ~vehicle[v].ack
         /\ slot # CommandSlot(v) => Told(v)' = Told(v)
<1> DEFINE e == Advanced(engine[Shore], Sched(Shore), clock)
<1>0. Typed /\ Shape /\ Shore \in Procs /\ v \in Procs /\ v # Shore /\ v \in Vehicles
  BY Numbers DEF Calm, Fresh, Typed
<1>1. /\ engine' = [engine EXCEPT ![Shore] = e] /\ UNCHANGED <<multicast, clock, vehicle>>
      /\ history'.calm = IF e.slot # 0 THEN history.calm ELSE IF history.calm = 0 THEN IF Settled THEN 1 ELSE 0 ELSE 2
      /\ Due(Shore)
  <2>1. ~(history' = Disturbed)
    BY <1>0, DisturbedIs
  <2> HIDE DEF e
  <2> QED BY <1>0, <2>1, ShoreTakesSlot DEF e, ShoreIterates
<1>2. /\ e.slot \in Slots(Sched(Shore)) /\ clock.pos = StartOf(e.slot, Sched(Shore))
      /\ ~OnTime(Shore) /\ OnTime(Shore)'
      /\ \A t \in Slots(Sched(Shore)) : clock.pos = StartOf(t, Sched(Shore)) => t = e.slot
  BY <1>0, <1>1, TakesSlotInTime
<1>3. engine'[v] = engine[v]
  <2> HIDE DEF e
  <2> QED BY <1>0, <1>1 DEF Shape
<1>4. /\ Sched(Shore)' = Sched(Shore) /\ ReportAt(v)' = ReportAt(v) /\ CommandAt(v)' = CommandAt(v)
      /\ OnTime(v)' = OnTime(v)
  BY <1>1, <1>3 DEF ReportAt, CommandAt, CommandSlot, Sched, OnTime
<1>5. Reported(v)' = Reported(v)
  BY <1>1, <1>4 DEF Reported
<1>6. /\ CommandSlot(v) \in Slots(Sched(Shore)) /\ CommandAt(v) \in Nat /\ ReportAt(v) \in Nat
      /\ CommandAt(v) + 2 < ReportAt(v) \/ ReportAt(v) + 2 < CommandAt(v)
  BY <1>0, Commands, Waits
<1>7. IsSchedule(Sched(Shore)) /\ 0 \in Slots(Sched(Shore)) /\ StartOf(0, Sched(Shore)) = 0
  BY <1>0, <1>2, SchedulesAreSchedules, SlotFacts DEF Shape, Sched
<1> HIDE DEF e
<1>8. Known(v)
  <2>1. CASE e.slot = 0
    BY <1>2, <1>7, <2>1 DEF Known
  <2>2. CASE e.slot # 0
    <3>1. clock'.pos # 0
      BY <1>1, <1>2, <1>7, <2>2
    <3>2. history'.calm = history.calm
      BY <1>1, <2>2
    <3> QED BY <1>5, <3>1, <3>2 DEF Known
  <2> QED BY <2>1, <2>2
<1>9. ASSUME e.slot = CommandSlot(v) PROVE ~vehicle[v].ack
  <2>1. clock.pos = CommandAt(v)
    BY <1>2, <1>9 DEF CommandAt
  <2>2. ~Commanded(v)
    BY <1>2, <1>6, <2>1 DEF Commanded
  <2>3. ~(CommandAt(v) < ReportAt(v)) => Reported(v)
    BY <1>6, <2>1 DEF Reported
  <2>4. ~Told(v)
    BY <2>2, <2>3 DEF Told
  <2> QED BY <1>8, <2>4 DEF HoldsAck
<1>10. ASSUME e.slot # CommandSlot(v) PROVE Told(v)' = Told(v)
  <2>1. clock.pos # CommandAt(v)
    BY <1>2, <1>6, <1>10 DEF CommandAt
  <2>2. Commanded(v)' = Commanded(v)
    BY <1>1, <1>4, <2>1 DEF Commanded
  <2> QED BY <1>4, <1>5, <2>2 DEF Told
<1> QED BY <1>8, <1>9, <1>10 DEF e

LEMMA SlotStartsKnown ==
  ASSUME Calm, ShoreIterates, NEW v \in Active, Settled, history'.calm > 0, history.calm = 0
  PROVE  ~Known(v)'
<1> DEFINE e == Advanced(engine[Shore], Sched(Shore), clock)
<1>0. Typed /\ Shape /\ Shore \in Procs
  BY Numbers DEF Calm, Fresh, Typed
<1>1. /\ engine' = [engine EXCEPT ![Shore] = e] /\ UNCHANGED <<multicast, clock>> /\ clock.pos = 0
      /\ history'.calm = 1 /\ Due(Shore)
  <2>1. ~(history' = Disturbed)
    BY <1>0, DisturbedIs
  <2> HIDE DEF e
  <2>2. /\ engine' = [engine EXCEPT ![Shore] = e]
        /\ history'.calm = IF e.slot # 0 THEN history.calm ELSE IF history.calm = 0 THEN IF Settled THEN 1 ELSE 0 ELSE 2
    BY <1>0, <2>1, ShoreTakesSlot DEF e
  <2>3. UNCHANGED <<multicast, clock>> /\ Due(Shore)
    BY DEF ShoreIterates
  <2>4. history'.calm = 1
    BY <2>2
  <2> QED BY <2>2, <2>3, <2>4 DEF Settled
<1>2. OnTime(Shore)'
  BY <1>0, <1>1, SettledIsOrderly, TakesSlotInTime DEF Orderly
<1>3. ReportAt(v)' = ReportAt(v) /\ ReportAt(v) \in Nat \ {0}
  BY <1>0, <1>1, Waits DEF ReportAt, Sched
<1>4. ~Reported(v)'
  BY <1>1, <1>3 DEF Reported
<1> QED BY <1>1, <1>2, <1>4 DEF Known

\* What a slot of the shore does in a calm cycle.
LEMMA ShoreTakesCalmSlot ==
  ASSUME Acknowledging, ShoreIterates, history'.calm > 0,
         history.calm > 0 \/ (Settled /\ Advanced(engine[Shore], Sched(Shore), clock).slot = 0)
  PROVE  LET e == Advanced(engine[Shore], Sched(Shore), clock) IN
    /\ Typed /\ Shape /\ Orderly /\ history' # Disturbed
    /\ engine'[Shore] = e /\ e.slot \in Slots(Sched(Shore)) /\ clock.pos = StartOf(e.slot, Sched(Shore))
    /\ e.slot = 0 <=> clock.pos = 0
    /\ e.slot # 0 => history'.calm = history.calm
    /\ \A v \in Active : clock.pos = CommandAt(v) <=> e.slot = CommandSlot(v)
    /\ \A v \in Active : v \in Procs /\ v \in Vehicles /\ v # Shore /\ engine'[v] = engine[v]
    /\ UNCHANGED <<multicast, clock, inbox, vehicle>>
<1> DEFINE e == Advanced(engine[Shore], Sched(Shore), clock)
<1>1. Typed /\ Shape /\ Shore \in Procs
  BY Numbers DEF Acknowledging, Calm, Fresh, Typed
<1>2. Orderly
  BY <1>1, SettledIsOrderly DEF Acknowledging, Calm, Undisturbed
<1>3. history' # Disturbed
  BY <1>1, DisturbedIs
<1>4. /\ engine' = [engine EXCEPT ![Shore] = e] /\ Due(Shore)
      /\ e.slot # 0 => history'.calm = history.calm
  <2> HIDE DEF e
  <2> QED BY <1>1, <1>3, ShoreTakesSlot DEF e, ShoreIterates
<1>5. UNCHANGED <<multicast, clock, inbox, vehicle>>
  BY DEF ShoreIterates
<1>6. /\ e.slot \in Slots(Sched(Shore)) /\ clock.pos = StartOf(e.slot, Sched(Shore))
      /\ \A t \in Slots(Sched(Shore)) : clock.pos = StartOf(t, Sched(Shore)) => t = e.slot
  BY <1>1, <1>2, <1>4, <1>5, TakesSlotInTime DEF Orderly
<1> HIDE DEF e
<1>7. engine'[Shore] = e /\ \A p \in Procs \ {Shore} : engine'[p] = engine[p]
  BY <1>1, <1>4 DEF Shape
<1>8. e.slot = 0 <=> clock.pos = 0
  <2>1. IsSchedule(Sched(Shore))
    BY <1>1, SchedulesAreSchedules DEF Shape, Sched
  <2>2. 0 \in Slots(Sched(Shore)) /\ StartOf(0, Sched(Shore)) = 0
    BY <1>6, <2>1, SlotFacts
  <2> QED BY <1>6, <2>2
<1>9. ASSUME NEW v \in Active PROVE clock.pos = CommandAt(v) <=> e.slot = CommandSlot(v)
  <2>1. CommandSlot(v) \in Slots(Sched(Shore))
    BY <1>1, Commands
  <2> QED BY <1>6, <2>1 DEF CommandAt
<1> QED BY <1>1, <1>2, <1>3, <1>4, <1>5, <1>6, <1>7, <1>8, <1>9, Numbers DEF e

\* A report on its way is neither at the beginning of a cycle nor at that of a command's slot.
LEMMA NoReportAtCommand ==
  ASSUME Shape, NEW v \in Active,
         HeardNow(v) \/ (\E s \in air : s.from = v /\ SoundInSlot(s))
  PROVE  clock.pos # 0 /\ clock.pos # CommandAt(v)
<1>1. /\ ReportAt(v) \in Nat \ {0} /\ CommandAt(v) \in Nat /\ v # Shore
      /\ CommandAt(v) + 2 < ReportAt(v) \/ ReportAt(v) + 2 < CommandAt(v)
  BY Commands, Waits
<1>2. CASE HeardNow(v)
  BY <1>1, <1>2 DEF HeardNow
<1>3. CASE \E s \in air : s.from = v /\ SoundInSlot(s)
  <2>1. PICK s \in air : s.from = v /\ SoundInSlot(s)
    BY <1>3
  <2>2. PICK t \in Slots(Sched(v)) :
          Transmits(v, t, multicast) /\ clock.pos = StartOf(t, Sched(v)) + (IF s.old THEN 1 ELSE 0)
    BY <2>1 DEF SoundInSlot
  <2>3. StartOf(t, Sched(v)) = ReportAt(v)
    BY <1>1, <2>2 DEF Transmits, ReportAt
  <2>4. clock.pos = ReportAt(v) \/ clock.pos = ReportAt(v) + 1
    BY <1>1, <2>2, <2>3
  <2> QED BY <1>1, <2>4
<1> QED BY <1>2, <1>3

LEMMA ShoreKeepsAcks ==
  ASSUME Acknowledging, ShoreIterates, history'.calm > 0,
         history.calm > 0 \/ (Settled /\ Advanced(engine[Shore], Sched(Shore), clock).slot = 0),
         NEW v \in Active
  PROVE  HoldsAck(v)' /\ CommandsUnderWay(v)' /\ AcksUnderWay(v)'
<1> DEFINE e == Advanced(engine[Shore], Sched(Shore), clock)
<1>1. /\ Typed /\ Shape /\ Orderly /\ history' # Disturbed
      /\ e.slot \in Slots(Sched(Shore)) /\ clock.pos = StartOf(e.slot, Sched(Shore))
      /\ e.slot = 0 <=> clock.pos = 0
      /\ e.slot # 0 => history'.calm = history.calm
      /\ clock.pos = CommandAt(v) <=> e.slot = CommandSlot(v)
      /\ v \in Procs /\ v \in Vehicles /\ v # Shore /\ engine'[v] = engine[v]
      /\ UNCHANGED <<multicast, clock, inbox, vehicle>>
  BY ShoreTakesCalmSlot
<1>2. \/ air' = air /\ history'.sent[v] = history.sent[v]
      \/ \E msg : /\ air = {} /\ air' = {[from |-> Shore, msg |-> msg, old |-> FALSE]}
                  /\ msg.has[v] = "true" => e.slot = CommandSlot(v)
                  /\ history'.sent[v] = IF msg.has[v] = "true" THEN msg.cmd[v].nr ELSE history.sent[v]
  <2> HIDE DEF e
  <2>1. \/ air' = air /\ history'.sent[v] = history.sent[v]
        \/ \E msg : /\ air' = Transmitted(Shore, msg) /\ Transmits(Shore, e.slot, multicast)
                    /\ msg.has[v] = "true" => v \in CommandFor(e.slot, multicast)
                    /\ history'.sent[v] = IF msg.has[v] = "true" THEN msg.cmd[v].nr ELSE history.sent[v]
    BY <1>1, ShoreSendsToItsSlot DEF Acknowledging, e
  <2>2. Transmits(Shore, e.slot, multicast) => air = {}
    BY <1>1, Numbers, AirIsFree DEF Orderly, ShoreIterates
  <2>3. v \in CommandFor(e.slot, multicast) => e.slot = CommandSlot(v)
    BY <1>1, Commands
  <2>4. air = {} => \A msg : Transmitted(Shore, msg) = {[from |-> Shore, msg |-> msg, old |-> FALSE]}
    BY DEF Transmitted
  <2> QED BY <2>1, <2>2, <2>3, <2>4
<1> HIDE DEF e
<1>3. e.slot # CommandSlot(v) => history'.sent[v] = history.sent[v]
  BY <1>2
<1>4. history.calm > 0 => HoldsAck(v) /\ CommandsUnderWay(v) /\ AcksUnderWay(v) /\ Undisturbed
  BY DEF Acknowledging, Calm
<1>5. history.calm \in 0 .. 2 /\ (~(history.calm > 0) => history.calm = 0)
  BY <1>1 DEF Typed, History
<1>6. HoldsAck(v)'
  <2> SUFFICES ASSUME IsRunning(engine[v])', Known(v)'
               PROVE  IF Told(v)' THEN vehicle'[v].ack => vehicle'[v].nr = history'.sent[v]
                      ELSE ~vehicle'[v].ack
    BY DEF HoldsAck
  <2>1. history.calm > 0
    BY <1>5, SlotStartsKnown DEF Acknowledging
  <2>2. IsRunning(engine[v]) /\ vehicle' = vehicle
    BY <1>1
  <2>3. /\ Known(v)
        /\ e.slot = CommandSlot(v) => ~vehicle[v].ack
        /\ e.slot # CommandSlot(v) => Told(v)' = Told(v)
    BY <1>1, <1>4, <2>1, <2>2, ShoreTakesSlotKnown DEF Acknowledging, Orderly, e
  <2> QED BY <1>3, <1>4, <2>1, <2>2, <2>3 DEF HoldsAck
<1>7. CommandsUnderWay(v)'
  <2>1. /\ CommandAt(v)' = CommandAt(v) /\ (CommandedNow(v)' <=> CommandedNow(v))
        /\ UNCHANGED <<clock, inbox>>
    BY <1>1 DEF CommandAt, CommandSlot, CommandedNow, Sched
  <2>2. \/ CommandsUnderWay(v)
        \/ air = {} /\ inbox[v] = <<>>
    BY <1>1, <1>4 DEF Settled
  <2>3. ASSUME NEW s \in air', s.from = Shore, s.msg.has[v] = "true"
        PROVE  s.msg.cmd[v].nr = history'.sent[v] /\ clock.pos = CommandAt(v) + (IF s.old THEN 1 ELSE 0)
    <3>1. CASE s \in air /\ history'.sent[v] = history.sent[v]
      BY <2>2, <2>3, <3>1 DEF CommandsUnderWay
    <3>2. CASE ~s.old /\ e.slot = CommandSlot(v) /\ history'.sent[v] = s.msg.cmd[v].nr
      <4>1. CommandAt(v) \in Nat
        BY <1>1, Commands
      <4> QED BY <1>1, <3>2, <4>1
    <3> QED BY <1>2, <2>3, <3>1, <3>2
  <2>4. ASSUME NEW i \in DOMAIN inbox[v], inbox[v][i].msg.has[v] = "true"
        PROVE  inbox[v][i].msg.cmd[v].nr = history'.sent[v] /\ CommandedNow(v)
    <3>1. inbox[v][i].msg.cmd[v].nr = history.sent[v] /\ CommandedNow(v)
      BY <2>2, <2>4 DEF CommandsUnderWay
    <3>2. clock.pos # CommandAt(v)
      <4>1. /\ CommandAt(v) \in Nat /\ ReportAt(v) \in Nat /\ Sched(Shore).period \in Nat
            /\ CommandAt(v) + 2 < ReportAt(v) \/ ReportAt(v) + 2 < CommandAt(v)
            /\ ReportAt(v) + 2 <= OverAt(v) /\ OverAt(v) < Sched(Shore).period /\ OverAt(v) \in Nat
        BY <1>1, Commands, Waits
      <4> QED BY <3>1, <4>1 DEF CommandedNow
    <3> QED BY <1>1, <1>3, <3>1, <3>2
  <2> QED BY <2>1, <2>3, <2>4 DEF CommandsUnderWay
<1>8. AcksUnderWay(v)'
  <2> SUFFICES ASSUME history'.calm = 2 PROVE AcksUnderWay(v)'
    BY DEF AcksUnderWay
  <2>1. ASSUME clock.pos # 0, clock.pos # CommandAt(v)
        PROVE  AcksUnderWay(v) /\ history.calm = 2 /\ history'.sent[v] = history.sent[v]
    BY <1>1, <1>3, <1>4, <2>1
  <2>2. ASSUME NEW s \in air', s.from = v, s.msg.ack PROVE s.msg.nr = history'.sent[v]
    <3>1. s \in air /\ SoundInSlot(s)
      BY <1>1, <1>2, <2>2 DEF Orderly
    <3> QED BY <1>1, <2>1, <2>2, <3>1, NoReportAtCommand DEF AcksUnderWay
  <2>3. ASSUME NEW i \in DOMAIN inbox'[Shore], inbox'[Shore][i].msg.id = v, inbox'[Shore][i].msg.ack
        PROVE  inbox'[Shore][i].msg.nr = history'.sent[v]
    <3>1. inbox' = inbox /\ i \in DOMAIN inbox[Shore]
      BY <1>1, <2>3
    <3>2. HeardNow(v)
      <4>1. CASE history.calm > 0
        BY <1>4, <2>3, <3>1, <4>1 DEF Undisturbed
      <4>2. CASE ~(history.calm > 0)
        <5>1. inbox[Shore] = <<>>
          BY <4>2, Numbers DEF Settled
        <5> QED BY <3>1, <5>1
      <4> QED BY <4>1, <4>2
    <3> QED BY <1>1, <2>1, <2>3, <3>1, <3>2, NoReportAtCommand DEF AcksUnderWay
  <2> QED BY <2>2, <2>3 DEF AcksUnderWay
<1> QED BY <1>6, <1>7, <1>8

LEMMA ShoreKeepsReports ==
  ASSUME Acknowledging, ShoreIterates, history'.calm > 0
  PROVE  AckIsForLastCommand'
<1> DEFINE e == Advanced(engine[Shore], Sched(Shore), clock)
           OK(r) == \A i \in DOMAIN r : r[i].ack => r[i].nr = r[i].last
<1> SUFFICES ASSUME NEW v \in Vehicles, history'.calm = 2 PROVE OK(history'.reports[v])
  BY DEF AckIsForLastCommand
<1>1. Typed
  BY DEF Acknowledging, Calm, Fresh
<1> DEFINE had == IF e.slot = 0 THEN <<>> ELSE history.reports[v]
<1>2. /\ history'.reports[v] = had \/ history'.reports[v] = Append(had, Failed)
      /\ e.slot # 0 => history'.calm = history.calm
  <2>1. history' # Disturbed
    BY <1>1, DisturbedIs
  <2> HIDE DEF e
  <2> QED BY <1>1, <2>1, ShoreTakesSlot DEF e
<1> HIDE DEF e
<1>3. had \in Seq(PostedReport) /\ OK(had)
  <2>1. CASE e.slot = 0
    <3>1. had = <<>> /\ <<>> \in Seq(PostedReport) /\ DOMAIN <<>> = {}
      BY <2>1
    <3> QED BY <3>1
  <2>2. CASE e.slot # 0
    BY <1>1, <1>2, <2>2 DEF Typed, History, Acknowledging, AckIsForLastCommand
  <2> QED BY <2>1, <2>2
<1> HIDE DEF had
<1>4. OK(Append(had, Failed))
  <2>1. Failed.ack = FALSE /\ Failed \in PostedReport
    BY Numbers DEF Failed, PostedReport
  <2>2. \A i \in DOMAIN Append(had, Failed) :
           (i \in DOMAIN had /\ Append(had, Failed)[i] = had[i]) \/ Append(had, Failed)[i] = Failed
    <3> HIDE DEF PostedReport
    <3> DEFINE f == Failed
    <3>1. f \in PostedReport
      BY <2>1
    <3> HIDE DEF f
    <3>2. \A i \in DOMAIN Append(had, f) :
            (i \in DOMAIN had /\ Append(had, f)[i] = had[i]) \/ Append(had, f)[i] = f
      BY <1>3, <3>1
    <3> QED BY <3>2 DEF f
  <2> QED BY <1>3, <2>1, <2>2
<1> QED BY <1>2, <1>3, <1>4

\* What a program finds in its mail after a unit of time, having read what came before.
LEMMA HearsOfAir ==
  ASSUME NEW p \in Procs, inbox[p] = <<>>, Tick, NEW i \in DOMAIN inbox'[p]
  PROVE  \E sound \in air : inbox'[p][i].msg = sound.msg /\ p \in Listeners(sound)
<1>1. PICK sound, listeners :
        /\ inbox' = Hear(sound, listeners)
        /\ listeners # {} => sound \in air /\ listeners \subseteq Listeners(sound)
  <2>1. CASE inbox' = Hear({}, {})
    BY <2>1
  <2>2. CASE \E sound \in air : inbox' = Hear(sound, {})
    BY <2>2
  <2>3. CASE \E sound \in air : \E listeners \in SUBSET Listeners(sound) : inbox' = Hear(sound, listeners)
    BY <2>3
  <2> QED BY <2>1, <2>2, <2>3 DEF Tick, Propagate
<1> DEFINE mail == [msg |-> sound.msg, fresh |-> TRUE]
<1>2. inbox'[p] = IF p \in listeners /\ Running(p) THEN <<mail>> ELSE <<>>
  BY <1>1, HearsOne
<1>3. p \in listeners /\ inbox'[p] = <<mail>>
  <2> SUFFICES ASSUME ~(p \in listeners /\ Running(p)) PROVE FALSE
    BY <1>2
  <2>1. inbox'[p] = <<>>
    BY <1>2
  <2> QED BY <2>1
<1>4. inbox'[p][i].msg = sound.msg
  <2> HIDE DEF mail
  <2>1. inbox'[p][i] = mail
    BY <1>3
  <2> QED BY <2>1 DEF mail
<1> QED BY <1>1, <1>3, <1>4

\* Nothing is forgotten, and nothing known anew, as time goes on.
LEMMA HoldingGoesOn ==
  ASSUME Typed, Typed', Timely, ~Oversleeps, Tick, history' = history, IsRunning(engine[Shore]),
         NEW v \in Active, HoldsAck(v)
  PROVE  HoldsAck(v)'
<1>1. /\ Shape /\ Shape' /\ clock' = Later /\ UNCHANGED <<multicast, engine, shore, vehicle>>
      /\ Shore \in Procs /\ v \in Procs
  BY Numbers DEF Typed, Tick
<1> SUFFICES ASSUME IsRunning(engine[v])
             PROVE  (Known(v)' => Known(v)) /\ (Told(v)' <=> Told(v))
  BY <1>1 DEF HoldsAck
<1>2. /\ CommandSlot(v) \in Slots(Sched(Shore)) /\ CommandAt(v) \in Nat
      /\ ReportSlot(v, multicast) \in Slots(Sched(v)) /\ ReportAt(v) \in Nat \ {0}
      /\ CommandAt(v) + 2 < ReportAt(v) \/ ReportAt(v) + 2 < CommandAt(v)
  BY <1>1, Commands, Waits
<1>3. CommandAt(v)' = CommandAt(v) /\ ReportAt(v)' = ReportAt(v)
  BY <1>1 DEF CommandAt, CommandSlot, ReportAt, Sched
<1>4. /\ OnTime(Shore)
      /\ clock'.pos = 0 => ~OnTime(Shore)' /\ CommandAt(v) <= clock.pos
      /\ clock'.pos # 0 => clock'.pos = clock.pos + 1
      /\ clock'.pos = CommandAt(v) => ~OnTime(Shore)'
  BY <1>1, <1>2, NextSlotIsNotTaken DEF CommandAt
<1>5. /\ OnTime(v)
      /\ clock'.pos = 0 => ~OnTime(v)' /\ ReportAt(v) <= clock.pos
      /\ clock'.pos = ReportAt(v) => ~OnTime(v)'
  BY <1>1, <1>2, NextSlotIsNotTaken DEF ReportAt
<1>6. clock.pos \in Nat
  BY <1>1 DEF Shape
<1>7. CASE clock'.pos # 0
  <2>1. Commanded(v)' <=> Commanded(v)
    BY <1>2, <1>3, <1>4, <1>6, <1>7 DEF Commanded
  <2>2. Reported(v)' <=> Reported(v)
    BY <1>2, <1>3, <1>4, <1>5, <1>6, <1>7 DEF Reported
  <2> QED BY <1>3, <1>7, <2>1, <2>2 DEF Told, Known
<1>8. CASE clock'.pos = 0
  <2>1. Commanded(v) /\ ~Commanded(v)'
    BY <1>2, <1>3, <1>4, <1>6, <1>8 DEF Commanded
  <2>2. Reported(v) /\ ~Reported(v)'
    BY <1>2, <1>3, <1>5, <1>6, <1>8 DEF Reported
  <2>3. Known(v)
    BY <2>2 DEF Known
  <2>4. Told(v)' <=> Told(v)
    BY <1>3, <2>1, <2>2 DEF Told
  <2> QED BY <2>3, <2>4
<1> QED BY <1>7, <1>8

LEMMA UnderWayGoesOn ==
  ASSUME Typed, Undisturbed, ~Oversleeps, Tick, history' = history,
         NEW v \in Active, CommandsUnderWay(v), AcksUnderWay(v)
  PROVE  CommandsUnderWay(v)' /\ AcksUnderWay(v)'
<1>1. /\ Shape /\ clock' = Later /\ UNCHANGED multicast /\ shore.up
      /\ Shore \in Procs /\ v \in Procs /\ v # Shore /\ Shore \notin Active
  BY Numbers DEF Typed, Tick, Undisturbed
<1>2. inbox[v] = <<>> /\ inbox[Shore] = <<>>
  BY <1>1 DEF Oversleeps, Running
<1>3. /\ CommandAt(v) \in Nat /\ CommandAt(v) + 2 <= Sched(Shore).period /\ Sched(Shore).period \in Nat
      /\ CommandAt(v)' = CommandAt(v) /\ Sched(Shore)' = Sched(Shore)
  BY <1>1, Commands, Waits DEF CommandAt, CommandSlot, Sched
<1>4. /\ clock.pos \in Nat
      /\ clock.pos + 1 = Sched(Shore).period => clock'.pos = 0
      /\ clock.pos + 1 # Sched(Shore).period => clock'.pos = clock.pos + 1
  BY <1>1 DEF Shape, Later
<1>5. ASSUME NEW s \in air' PROVE \E sound \in air : s = [from |-> sound.from, msg |-> sound.msg, old |-> TRUE] /\ ~sound.old
  <2>1. \/ air' = {}
        \/ \E sound \in air : ~sound.old /\ air' = {[from |-> sound.from, msg |-> sound.msg, old |-> TRUE]}
    BY DEF Tick, Propagate
  <2> QED BY <2>1
<1>6. ASSUME NEW s \in air', s.from = Shore, s.msg.has[v] = "true"
      PROVE  s.msg.cmd[v].nr = history'.sent[v] /\ clock'.pos = CommandAt(v)' + (IF s.old THEN 1 ELSE 0)
  <2>1. PICK sound \in air : s = [from |-> sound.from, msg |-> sound.msg, old |-> TRUE] /\ ~sound.old
    BY <1>5
  <2>2. s.from = sound.from /\ s.msg = sound.msg /\ s.old
    BY <2>1
  <2>3. sound.msg.cmd[v].nr = history.sent[v] /\ clock.pos = CommandAt(v)
    BY <1>3, <1>6, <2>1, <2>2 DEF CommandsUnderWay
  <2>4. clock'.pos = CommandAt(v) + 1
    BY <1>3, <1>4, <2>3
  <2> QED BY <1>3, <2>2, <2>3, <2>4
<1>7. ASSUME NEW i \in DOMAIN inbox'[v], inbox'[v][i].msg.has[v] = "true"
      PROVE  inbox'[v][i].msg.cmd[v].nr = history'.sent[v] /\ CommandedNow(v)'
  <2>1. PICK sound \in air : inbox'[v][i].msg = sound.msg /\ v \in Listeners(sound)
    BY <1>1, <1>2, HearsOfAir
  <2>2. sound.from = Shore
    BY <1>1, <2>1 DEF Listeners
  <2>3. sound.msg.cmd[v].nr = history.sent[v] /\ (clock.pos = CommandAt(v) \/ clock.pos = CommandAt(v) + 1)
    BY <1>3, <1>7, <2>1, <2>2 DEF CommandsUnderWay
  <2>4. CommandedNow(v)'
    BY <1>3, <1>4, <2>3 DEF CommandedNow
  <2> QED BY <2>1, <2>3, <2>4
<1>8. ASSUME history'.calm = 2, NEW s \in air', s.from = v, s.msg.ack PROVE s.msg.nr = history'.sent[v]
  <2>1. PICK sound \in air : s = [from |-> sound.from, msg |-> sound.msg, old |-> TRUE]
    BY <1>5
  <2>2. s.from = sound.from /\ s.msg = sound.msg
    BY <2>1
  <2> QED BY <1>8, <2>2 DEF AcksUnderWay
<1>9. ASSUME history'.calm = 2, NEW i \in DOMAIN inbox'[Shore], inbox'[Shore][i].msg.id = v,
             inbox'[Shore][i].msg.ack
      PROVE  inbox'[Shore][i].msg.nr = history'.sent[v]
  <2>1. PICK sound \in air : inbox'[Shore][i].msg = sound.msg /\ Shore \in Listeners(sound)
    BY <1>1, <1>2, HearsOfAir
  <2>2. sound.from # Shore
    BY <1>1, <2>1 DEF Listeners
  <2>3. sound.from = v
    BY <1>9, <2>1, <2>2 DEF Undisturbed
  <2> QED BY <1>9, <2>1, <2>3 DEF AcksUnderWay
<1> QED BY <1>6, <1>7, <1>8, <1>9 DEF CommandsUnderWay, AcksUnderWay

\* The shore posts what it reads.
LEMMA PostsAck ==
  ASSUME Acknowledging, ShoreReceives, history.calm > 0
  PROVE  AckIsForLastCommand' /\ history'.calm = history.calm /\ history'.sent = history.sent
<1> DEFINE mail == Head(inbox[Shore])
           id == mail.msg.id
           OK(r) == \A i \in DOMAIN r : r[i].ack => r[i].nr = r[i].last
<1>1. Typed /\ Undisturbed /\ history \in History
  BY DEF Acknowledging, Calm, Fresh, Typed
<1>2. /\ inbox[Shore] \in Seq(ShoreMail) /\ inbox[Shore] # <<>> /\ mail \in ShoreMail
      /\ 1 \in DOMAIN inbox[Shore] /\ mail = inbox[Shore][1] /\ id \in Vehicles /\ id \in Active
  <2>1. inbox[Shore] \in Seq(ShoreMail) /\ inbox[Shore] # <<>>
    BY <1>1 DEF ShoreReceives, Typed
  <2>2. 1 \in DOMAIN inbox[Shore] /\ mail = inbox[Shore][1] /\ mail \in ShoreMail
    BY <2>1
  <2> QED BY <1>1, <2>1, <2>2, Numbers DEF Undisturbed
<1>3. CASE mail.fresh /\ MayReport(id)
  <2> DEFINE new == Posted(mail.msg, history.sent[id])
  <2>1. history' = [history EXCEPT !.reports[id] = Append(@, new)]
    BY <1>3 DEF ShoreReceives
  <2>2. history.calm = 2 => (new.ack => new.nr = new.last)
    <3>1. history.calm = 2 /\ mail.msg.ack => mail.msg.nr = history.sent[id]
      BY <1>2 DEF Acknowledging, AcksUnderWay
    <3> QED BY <3>1 DEF Posted
  <2>3. new \in PostedReport
    BY <1>1, <1>2, ShoreReportType
  <2> HIDE DEF new, mail, id
  <2>4. /\ history'.calm = history.calm /\ history'.sent = history.sent
        /\ \A v \in Vehicles : /\ history.reports[v] \in Seq(PostedReport)
                               /\ history'.reports[v] = IF v = id THEN Append(history.reports[v], new)
                                                        ELSE history.reports[v]
    BY <1>1, <1>2, <2>1 DEF History
  <2>5. ASSUME NEW v \in Vehicles, history'.calm = 2 PROVE OK(history'.reports[v])
    <3> DEFINE r == history.reports[v]
    <3>1. OK(r) /\ r \in Seq(PostedReport)
      BY <2>4, <2>5 DEF Acknowledging, AckIsForLastCommand
    <3>2. \A i \in DOMAIN Append(r, new) : (i \in DOMAIN r /\ Append(r, new)[i] = r[i]) \/ Append(r, new)[i] = new
      <4> HIDE DEF r, PostedReport
      <4> QED BY <2>3, <3>1
    <3> HIDE DEF r
    <3>3. OK(Append(r, new))
      BY <2>2, <2>4, <2>5, <3>1, <3>2
    <3> QED BY <2>4, <3>1, <3>3 DEF r
  <2> QED BY <2>4, <2>5 DEF AckIsForLastCommand
<1>4. CASE ~(mail.fresh /\ MayReport(id))
  <2>1. history' = history
    BY <1>4 DEF ShoreReceives
  <2> QED BY <2>1 DEF Acknowledging, AckIsForLastCommand
<1> QED BY <1>3, <1>4

\* What every step keeps of each vehicle but the one that takes it.
LEMMA OthersStay ==
  ASSUME NEW v \in Active, HoldsAck(v), CommandsUnderWay(v), AcksUnderWay(v),
         UNCHANGED <<multicast, clock>>, engine'[Shore] = engine[Shore], engine'[v] = engine[v],
         vehicle'[v] = vehicle[v], history'.sent = history.sent, history'.calm = history.calm,
         \A s \in air' : s \in air \/ (s.from # Shore /\ s.from # v),
         NoMoreMail(v), NoMoreMail(Shore)
  PROVE  HoldsAck(v)' /\ CommandsUnderWay(v)' /\ AcksUnderWay(v)'
BY HoldingStays, UnderWayStays

LEMMA AcksInductive == Acknowledging /\ [Next]_vars => Acknowledging'
<1> SUFFICES ASSUME Acknowledging, [Next]_vars PROVE Acknowledging'
  OBVIOUS
<1> DEFINE Kept(v) == HoldsAck(v)' /\ CommandsUnderWay(v)' /\ AcksUnderWay(v)'
<1>1. Calm /\ Calm' /\ InterleavedAddressesOne' /\ Typed /\ Typed' /\ history'.calm \in 0 .. 2
  BY CalmPreserved, AddressesOneInductive DEF Acknowledging, Calm, Fresh, Typed, History
<1>2. SUFFICES ASSUME history'.calm > 0
               PROVE  AckIsForLastCommand' /\ IsRunning(engine'[Shore]) /\ \A v \in Active : Kept(v)
  <2>1. CASE history'.calm > 0
    BY <1>1, <1>2, <2>1 DEF Acknowledging
  <2>2. CASE history'.calm = 0
    BY <1>1, <2>2 DEF Acknowledging, AckIsForLastCommand
  <2> QED BY <1>1, <2>1, <2>2
<1>3. Orderly' /\ (history.calm > 0 \/ (ShoreIterates /\ Settled /\ Advanced(engine[Shore], Sched(Shore), clock).slot = 0))
  BY <1>1, <1>2, OrderlyIfCalm
<1>4. CASE ShoreIterates
  <2>1. LET e == Advanced(engine[Shore], Sched(Shore), clock) IN
          engine'[Shore] = e /\ e.slot \in Slots(Sched(Shore)) /\ IsSchedule(Sched(Shore))
    <3>1. LET e == Advanced(engine[Shore], Sched(Shore), clock) IN
            engine'[Shore] = e /\ e.slot \in Slots(Sched(Shore)) /\ Typed
      BY <1>2, <1>3, <1>4, ShoreTakesCalmSlot
    <3>2. IsSchedule(Sched(Shore))
      BY <1>1, Numbers, SchedulesAreSchedules DEF Typed, Shape, Sched
    <3> QED BY <3>1, <3>2
  <2>2. IsRunning(engine'[Shore])
    BY <2>1, SlotFacts DEF IsRunning, Stopped
  <2> QED BY <1>2, <1>3, <1>4, <2>2, ShoreKeepsAcks, ShoreKeepsReports
<1>5. ASSUME ~ShoreIterates
      PROVE  AckIsForLastCommand' /\ IsRunning(engine'[Shore]) /\ \A v \in Active : Kept(v)
  <2>0. /\ history.calm > 0 /\ Undisturbed /\ Orderly /\ Timely /\ IsRunning(engine[Shore])
        /\ \A v \in Active : HoldsAck(v) /\ CommandsUnderWay(v) /\ AcksUnderWay(v)
        /\ \A v \in Active : v \in Procs /\ v \in Vehicles /\ v # Shore
        /\ Shore \in Procs /\ DOMAIN inbox = Procs /\ DOMAIN engine = Procs
    BY <1>1, <1>3, <1>5, Numbers DEF Acknowledging, Calm, Undisturbed, Orderly, Typed, Shape
  <2>1. ASSUME NEW u \in Active, NEW codes, OnVehicleCommand(u, codes)
        PROVE  AckIsForLastCommand' /\ IsRunning(engine'[Shore]) /\ \A v \in Active : Kept(v)
    <3>1. UNCHANGED <<multicast, clock, engine, vehicle, air, inbox>>
      BY <2>1 DEF OnVehicleCommand
    <3>2. /\ history'.reports = history.reports /\ history'.calm = history.calm
          /\ history'.sent = history.sent
      BY <1>1, <2>1, CommandsDoNotReport
    <3>3. \A p \in Procs : NoMoreMail(p)
      BY <3>1 DEF NoMoreMail
    <3>4. AckIsForLastCommand'
      BY <3>2 DEF Acknowledging, AckIsForLastCommand
    <3> QED BY <2>0, <3>1, <3>2, <3>3, <3>4, OthersStay
  <2>2. ASSUME NEW u \in Active, VehicleReceives(u)
        PROVE  AckIsForLastCommand' /\ IsRunning(engine'[Shore]) /\ \A v \in Active : Kept(v)
    <3>1. /\ UNCHANGED <<multicast, clock, engine, air, history>>
          /\ inbox[u] # <<>> /\ inbox' = [inbox EXCEPT ![u] = Tail(@)] /\ inbox[u] \in Seq(VehicleMail)
          /\ \A v \in Active : v # u => vehicle'[v] = vehicle[v]
      BY <1>1, <2>2, <2>0 DEF VehicleReceives, Typed
    <3>2. \A p \in Procs : NoMoreMail(p)
      BY <2>0, <3>1, ReadsFirst
    <3>3. AckIsForLastCommand'
      BY <3>1 DEF Acknowledging, AckIsForLastCommand
    <3>4. Kept(u)
      BY <1>1, <2>0, <2>2, <3>1, <3>2, ReadsCommand, UnderWayStays
    <3>5. \A v \in Active : v # u => Kept(v)
      BY <2>0, <3>1, <3>2, OthersStay
    <3> QED BY <2>0, <3>1, <3>3, <3>4, <3>5
  <2>3. ASSUME NEW u \in Active, VehicleIterates(u)
        PROVE  AckIsForLastCommand' /\ IsRunning(engine'[Shore]) /\ \A v \in Active : Kept(v)
    <3> DEFINE report == [id |-> u, ack |-> vehicle[u].ack, nr |-> vehicle[u].nr]
    <3>1. /\ UNCHANGED <<multicast, clock, inbox, history>>
          /\ \E e : engine' = [engine EXCEPT ![u] = e]
          /\ \E w : vehicle' = [vehicle EXCEPT ![u] = w]
          /\ air' = air \/ air' = Transmitted(u, report)
      BY <2>3 DEF VehicleIterates
    <3>2. \A v \in Procs : v # u => engine'[v] = engine[v]
      BY <2>0, <3>1
    <3>3. \A v \in Active : v # u => vehicle'[v] = vehicle[v]
      BY <1>1, <3>1, <2>0 DEF Typed
    <3>4. \A s \in air' : s \in air \/ s.from = u
      BY <3>1 DEF Transmitted
    <3>5. \A p \in Procs : NoMoreMail(p)
      BY <3>1 DEF NoMoreMail
    <3>6. AckIsForLastCommand'
      BY <3>1 DEF Acknowledging, AckIsForLastCommand
    <3>7. Kept(u)
      BY <1>1, <2>0, <2>3, ReportsAck
    <3>8. \A v \in Active : v # u => Kept(v)
      BY <2>0, <3>1, <3>2, <3>3, <3>4, <3>5, OthersStay
    <3> QED BY <2>0, <3>2, <3>6, <3>7, <3>8
  <2>4. ASSUME NEW P \in Targets, OnRun(P) \/ OnStop(P) PROVE FALSE
    <3>1. history' = Disturbed
      BY <2>4 DEF OnRun, OnStop
    <3> QED BY <1>1, <1>2, <3>1, DisturbedIs
  <2>5. CASE Tick
    <3>1. ~Oversleeps
      <4> SUFFICES ASSUME Oversleeps PROVE FALSE
        OBVIOUS
      <4>1. history' = Disturbed
        BY <2>5 DEF Tick
      <4> QED BY <1>1, <1>2, <4>1, DisturbedIs
    <3>2. history' = history /\ engine' = engine
      BY <2>5, <3>1 DEF Tick
    <3>3. AckIsForLastCommand'
      BY <3>2 DEF Acknowledging, AckIsForLastCommand
    <3>4. \A v \in Active : Kept(v)
      BY <1>1, <2>0, <2>5, <3>1, <3>2, HoldingGoesOn, UnderWayGoesOn
    <3> QED BY <2>0, <3>2, <3>3, <3>4
  <2>6. CASE ShoreReceives
    <3>1. UNCHANGED <<multicast, clock, engine, vehicle, air>>
      BY <2>6 DEF ShoreReceives
    <3>2. AckIsForLastCommand' /\ history'.calm = history.calm /\ history'.sent = history.sent
      BY <2>0, <2>6, PostsAck
    <3>3. \A p \in Procs : NoMoreMail(p)
      <4>1. inbox[Shore] # <<>> /\ inbox' = [inbox EXCEPT ![Shore] = Tail(@)]
            /\ inbox[Shore] \in Seq(ShoreMail)
        BY <1>1, <2>6 DEF ShoreReceives, Typed
      <4> QED BY <2>0, <4>1, ReadsFirst
    <3> QED BY <2>0, <3>1, <3>2, <3>3, OthersStay
  <2>7. CASE UNCHANGED vars
    <3>1. UNCHANGED <<multicast, clock, engine, vehicle, air, inbox, history>>
      BY <2>7 DEF vars
    <3>2. \A p \in Procs : NoMoreMail(p)
      BY <3>1 DEF NoMoreMail
    <3>3. AckIsForLastCommand'
      BY <3>1 DEF Acknowledging, AckIsForLastCommand
    <3> QED BY <2>0, <3>1, <3>2, <3>3, OthersStay
  <2> QED BY <1>5, <2>1, <2>2, <2>3, <2>4, <2>5, <2>6, <2>7 DEF Next
<1> QED BY <1>4, <1>5

\* Once the shore has begun a second cycle in which nothing came between, each ack it posts is
\* for the last command that it sent to the vehicle, never for the one before: a vehicle that has
\* missed a command reports none, though commands and reports wait in the water and in the mail.
THEOREM AcksAnswerTheLastCommand == Spec => []AckIsForLastCommand
<1>1. Init => Acknowledging
  <2>1. Init => Calm /\ InterleavedAddressesOne
    BY CalmInitially, AddressesOneInitially
  <2>2. Init => history.calm = 0
    BY DEF Init
  <2> QED BY <2>1, <2>2 DEF Acknowledging, AckIsForLastCommand
<1>2. Acknowledging /\ [Next]_vars => Acknowledging'
  BY AcksInductive
<1>3. Acknowledging => AckIsForLastCommand
  BY DEF Acknowledging
<1> QED BY <1>1, <1>2, <1>3, PTL DEF Spec

-----------------------------------------------------------------------------
(* The TDOA mission *)

IsSound(s) ==
  /\ s.from \in Stations
  /\ s.data \in IF s.from = ShoreId THEN Seq(Waypoint) ELSE Seq(Position)

EnginesTyped ==
  /\ time \in [cycle : {0, 1}, pos : 0 .. SlotsOf(ShoreId).period - 1]
  /\ tdma_engine \in [Stations -> [slot : Int, cycle : {0, 1}]]
  /\ \A p \in Stations : tdma_engine[p].slot \in {Stopped} \cup Slots(SlotsOf(p))

\* The inductive invariant: with the types of the clock, of what is heard and of the record.
TdoaTyped ==
  /\ EnginesTyped
  /\ tdoa_shore \in TdoaShoreState
  /\ dccl_report \in [Ids -> Seq(Position)]
  /\ task \in [Ids -> 0 .. TdoaMaxCommands]
  /\ \A s \in sounds : IsSound(s)
  /\ DOMAIN heard = Stations
  /\ \A p \in Stations : heard[p] # <<>> =>
       heard[p] = <<Head(heard[p])>> /\ IsSound(Head(heard[p])) /\ Head(heard[p]).from # p
  /\ asked \in 0 .. TdoaMaxCommands
  /\ record \in [ran : BOOLEAN, posted : Seq([slot : 0 .. 3, positions : Seq(Position), now : BOOLEAN]),
                 obeyed : [Ids -> 0 .. TdoaMaxCommands]]

LEMMA TdoaNumbers ==
  /\ Afloat \subseteq Ids /\ Afloat \subseteq Stations /\ ShoreId \in Stations /\ ShoreId \notin Ids
  /\ Stations \subseteq Ids \cup {ShoreId} /\ TdoaMaxCommands \in Nat
BY TdoaParameters DEF Stations, Ids, ShoreId

LEMMA TdoaTypedIsTypeOK == TdoaTyped => TdoaTypeOK
BY DEF TdoaTyped, EnginesTyped, TdoaTypeOK, IsSound

LEMMA TdoaSchedules ==
  ASSUME NEW p \in Stations
  PROVE  IsSchedule(SlotsOf(p)) /\ SlotsOf(p).period = SlotsOf(ShoreId).period
BY TdoaParameters

\* What an engine becomes has a slot of the schedule.
LEMMA NextEngineType ==
  ASSUME EnginesTyped, NEW p \in Stations, MustAdvance(p)
  PROVE  /\ NextEngine(p) \in [slot : Int, cycle : {0, 1}]
         /\ NextEngine(p).slot \in Slots(SlotsOf(p))
<1> DEFINE e == tdma_engine[p]
           sched == SlotsOf(p)
<1>1. IsSchedule(sched) /\ e.slot \in Slots(sched) /\ e \in [slot : Int, cycle : {0, 1}]
  BY TdoaSchedules DEF EnginesTyped, MustAdvance, Advances, IsRunning
<1> HIDE DEF e, sched
<1>2. 0 \in Slots(sched) /\ \A s \in Slots(sched) : s \in Int
  BY <1>1, SlotFacts
<1>3. Advanced(e, sched, time) \in [slot : Int, cycle : {0, 1}] /\ Advanced(e, sched, time).slot \in Slots(sched)
  BY <1>1, <1>2 DEF Advanced, EnginesTyped
<1> QED BY <1>3 DEF NextEngine, e, sched

\* A data set that gains positions, one by one, stays one.
LEMMA AddNewType ==
  ASSUME NEW data \in Seq(Position), NEW position \in Position
  PROVE  AddNew(data, position) \in Seq(Position)
BY DEF AddNew

LEMMA CollectStays ==
  ASSUME NEW D, NEW d \in D, NEW P, NEW data \in Seq(P),
         \A x \in D, position \in P : AddNew(x, position) \in D
  PROVE  FoldLeft(AddNew, d, data) \in D
<1> DEFINE IsFold(f) == f = [s \in SUBSET DOMAIN data |->
             IF s = {} THEN d ELSE AddNew(f[s \ {Max(s)}], data[Max(s)])]
           read == CHOOSE f : IsFold(f)
           len == Len(data)
<1>1. len \in Nat /\ DOMAIN data = 1 .. len /\ \A i \in 1 .. len : data[i] \in P
  OBVIOUS
<1>2. \A s \in SUBSET (1 .. len) : s # {} => data[Max(s)] \in P
  BY <1>1, LastPosition
<1>3. \E f : IsFold(f)
  <2> DEFINE H == [x \in D |-> [m \in P |-> AddNew(x, m)]]
  <2>1. H \in [D -> [P -> D]]
    OBVIOUS
  <2>2. PICK f : f \in [SUBSET (1 .. len) -> D] /\ Folds(f, len, H, d, data)
    <3> HIDE DEF H
    <3> QED BY <2>1, FoldExists
  <2>3. ASSUME NEW s \in SUBSET (1 .. len)
        PROVE  f[s] = IF s = {} THEN d ELSE AddNew(f[s \ {Max(s)}], data[Max(s)])
    <3>1. CASE s = {}
      BY <3>1, <2>2 DEF Folds
    <3>2. CASE s # {}
      <4>1. f[s \ {Max(s)}] \in D /\ data[Max(s)] \in P
        BY <1>2, <2>2, <3>2
      <4>2. f[s] = H[f[s \ {Max(s)}]][data[Max(s)]]
        <5> HIDE DEF H
        <5> QED BY <2>2, <3>2 DEF Folds
      <4> QED BY <4>1, <4>2, <3>2
    <3> QED BY <3>1, <3>2
  <2>4. f = [s \in SUBSET DOMAIN data |-> f[s]]
    BY <1>1, <2>2
  <2> QED BY <1>1, <2>3, <2>4
<1>4. IsFold(read)
  BY <1>3
<1>5. FoldLeft(AddNew, d, data) = read[1 .. len]
  BY <1>1 DEF FoldLeft, MapThenFoldSet
<1> HIDE DEF read
<1>6. read[{}] \in D
  BY <1>4
<1>7. \A s \in SUBSET (1 .. len) : s # {} /\ read[s \ {Max(s)}] \in D => read[s] \in D
  BY <1>1, <1>2, <1>4
<1>8. read[1 .. len] \in D
  <2> HIDE DEF len
  <2> QED BY <1>1, <1>6, <1>7, FoldStays
<1> QED BY <1>5, <1>8

LEMMA ReportStays ==
  ASSUME NEW D, NEW d \in D, NEW P, NEW data \in Seq(P),
         \A x \in D, position \in P : AddUnreported(x, position) \in D
  PROVE  FoldLeft(AddUnreported, d, data) \in D
<1> DEFINE IsFold(f) == f = [s \in SUBSET DOMAIN data |->
             IF s = {} THEN d ELSE AddUnreported(f[s \ {Max(s)}], data[Max(s)])]
           read == CHOOSE f : IsFold(f)
           len == Len(data)
<1>1. len \in Nat /\ DOMAIN data = 1 .. len /\ \A i \in 1 .. len : data[i] \in P
  OBVIOUS
<1>2. \A s \in SUBSET (1 .. len) : s # {} => data[Max(s)] \in P
  BY <1>1, LastPosition
<1>3. \E f : IsFold(f)
  <2> DEFINE H == [x \in D |-> [m \in P |-> AddUnreported(x, m)]]
  <2>1. H \in [D -> [P -> D]]
    OBVIOUS
  <2>2. PICK f : f \in [SUBSET (1 .. len) -> D] /\ Folds(f, len, H, d, data)
    <3> HIDE DEF H
    <3> QED BY <2>1, FoldExists
  <2>3. ASSUME NEW s \in SUBSET (1 .. len)
        PROVE  f[s] = IF s = {} THEN d ELSE AddUnreported(f[s \ {Max(s)}], data[Max(s)])
    <3>1. CASE s = {}
      BY <3>1, <2>2 DEF Folds
    <3>2. CASE s # {}
      <4>1. f[s \ {Max(s)}] \in D /\ data[Max(s)] \in P
        BY <1>2, <2>2, <3>2
      <4>2. f[s] = H[f[s \ {Max(s)}]][data[Max(s)]]
        <5> HIDE DEF H
        <5> QED BY <2>2, <3>2 DEF Folds
      <4> QED BY <4>1, <4>2, <3>2
    <3> QED BY <3>1, <3>2
  <2>4. f = [s \in SUBSET DOMAIN data |-> f[s]]
    BY <1>1, <2>2
  <2> QED BY <1>1, <2>3, <2>4
<1>4. IsFold(read)
  BY <1>3
<1>5. FoldLeft(AddUnreported, d, data) = read[1 .. len]
  BY <1>1 DEF FoldLeft, MapThenFoldSet
<1> HIDE DEF read
<1>6. read[{}] \in D
  BY <1>4
<1>7. \A s \in SUBSET (1 .. len) : s # {} /\ read[s \ {Max(s)}] \in D => read[s] \in D
  BY <1>1, <1>2, <1>4
<1>8. read[1 .. len] \in D
  <2> HIDE DEF len
  <2> QED BY <1>1, <1>6, <1>7, FoldStays
<1> QED BY <1>5, <1>8

LEMMA TdoaTypedInitially == TdoaInit => TdoaTyped
<1> SUFFICES ASSUME TdoaInit PROVE TdoaTyped
  OBVIOUS
<1>1. EnginesTyped
  <2>1. SlotsOf(ShoreId).period \in Nat \ {0}
    <3>1. IsSchedule(SlotsOf(ShoreId))
      BY TdoaSchedules, TdoaNumbers
    <3>2. 0 \in Slots(SlotsOf(ShoreId)) \/ Slots(SlotsOf(ShoreId)) # {}
      BY <3>1 DEF IsSchedule
    <3> QED BY <3>1, <3>2, SlotFacts
  <2> QED BY <2>1 DEF TdoaInit, EnginesTyped, InitEngine, Stopped
<1>2. tdoa_shore \in TdoaShoreState
  BY DEF TdoaInit, TdoaShoreState
<1> QED BY <1>1, <1>2, TdoaNumbers DEF TdoaInit, TdoaTyped

LEMMA FirstOf ==
  ASSUME NEW S, NEW data \in Seq(S), NEW n \in Nat, n < Len(data)
  PROVE  LET few == SubSeq(data, 1, n) IN
           few \in Seq(S) /\ \A i \in DOMAIN few : i \in DOMAIN data /\ few[i] = data[i]
<1> DEFINE few == SubSeq(data, 1, n)
<1>1. few \in Seq(S) /\ Len(few) = n /\ \A i \in 1 .. n : few[i] = data[i]
  OBVIOUS
<1> HIDE DEF few
<1>2. DOMAIN few = 1 .. n
  BY <1>1
<1> QED BY <1>1, <1>2 DEF few

\* What is put into the water is a sound: of the positions or waypoints as many as fit.
LEMMA SoundingType ==
  ASSUME NEW p \in Stations, NEW S, NEW data \in Seq(S),
         S = IF p = ShoreId THEN Waypoint ELSE Position
  PROVE  /\ Encoded(data) \in Seq(S)
         /\ \A i \in DOMAIN Encoded(data) : i \in DOMAIN data /\ Encoded(data)[i] = data[i]
         /\ \A s \in Sounding(p, data) \ sounds : s = [from |-> p, data |-> Encoded(data)] /\ IsSound(s)
<1>1. /\ Encoded(data) \in Seq(S)
      /\ \A i \in DOMAIN Encoded(data) : i \in DOMAIN data /\ Encoded(data)[i] = data[i]
  BY FirstOf DEF Encoded, MaxRepeat
<1> QED BY <1>1 DEF Sounding, IsSound

LEMMA PostingType ==
  ASSUME TdoaTyped, NEW slot \in 0 .. 3, NEW positions \in Seq(Position), NEW now \in BOOLEAN,
         Posting(slot, positions, now)
  PROVE  /\ record' \in [ran : BOOLEAN,
                         posted : Seq([slot : 0 .. 3, positions : Seq(Position), now : BOOLEAN]),
                         obeyed : [Ids -> 0 .. TdoaMaxCommands]]
         /\ record'.obeyed = record.obeyed
<1>1. [slot |-> slot, positions |-> positions, now |-> now]
        \in [slot : 0 .. 3, positions : Seq(Position), now : BOOLEAN]
  OBVIOUS
<1> DEFINE R == [slot : 0 .. 3, positions : Seq(Position), now : BOOLEAN]
           r == [slot |-> slot, positions |-> positions, now |-> now]
<1>2. r \in R /\ record.posted \in Seq(R) /\ record' = [record EXCEPT !.posted = Append(@, r)]
  BY DEF TdoaTyped, Posting
<1>3. record \in [ran : BOOLEAN, posted : Seq(R), obeyed : [Ids -> 0 .. TdoaMaxCommands]]
  BY DEF TdoaTyped
<1> HIDE DEF R, r
<1>3a. Append(record.posted, r) \in Seq(R)
  BY <1>2
<1>4. record' \in [ran : BOOLEAN, posted : Seq(R), obeyed : [Ids -> 0 .. TdoaMaxCommands]]
      /\ record'.obeyed = record.obeyed
  BY <1>2, <1>3, <1>3a
<1> QED BY <1>4 DEF R

\* The waypoint that a vehicle takes over is one of those in the command.
LEMMA TakenWaypoint ==
  ASSUME NEW v, NEW command \in Seq(Waypoint), WaypointsFor(v, command) # {}
  PROVE  LET w == command[Min(WaypointsFor(v, command))] IN
           w \in Waypoint /\ w.id = v /\ Min(WaypointsFor(v, command)) \in DOMAIN command
<1> DEFINE s == WaypointsFor(v, command)
<1>1. s \in SUBSET Nat /\ s \subseteq DOMAIN command /\ \A i \in s : command[i].id = v
  BY DEF WaypointsFor
<1>2. Min(s) \in s
  <2> HIDE DEF s
  <2>1. PICK x \in s : \A y \in s : x <= y
    BY <1>1, LeastNumber DEF s
  <2> QED BY <2>1 DEF Min
<1>3. \A i \in DOMAIN command : command[i] \in Waypoint
  OBVIOUS
<1> QED BY <1>1, <1>2, <1>3

LEMMA EnginesGoOn ==
  ASSUME EnginesTyped, NEW p \in Stations, MustAdvance(p), time' = time,
         tdma_engine' = [tdma_engine EXCEPT ![p] = NextEngine(p)]
  PROVE  EnginesTyped'
<1>1. NextEngine(p) \in [slot : Int, cycle : {0, 1}] /\ NextEngine(p).slot \in Slots(SlotsOf(p))
  BY NextEngineType
<1> HIDE DEF Stations
<1> QED BY <1>1 DEF EnginesTyped

\* RUN leads to a slot of the schedule.
LEMMA TdoaRunType ==
  ASSUME EnginesTyped, NEW p \in Stations
  PROVE  /\ Run(SlotsOf(p), time) \in [slot : Int, cycle : {0, 1}]
         /\ Run(SlotsOf(p), time).slot \in Slots(SlotsOf(p))
<1> DEFINE sched == SlotsOf(p)
<1>1. IsSchedule(sched) /\ time.pos \in 0 .. sched.period - 1 /\ time.cycle \in {0, 1}
  BY TdoaSchedules DEF EnginesTyped
<1> HIDE DEF sched
<1>2. \E s \in Slots(sched) : Shows(s, sched, time)
  BY <1>1 DEF IsSchedule, Shows
<1>3. \A s \in Slots(sched) : s \in Int
  BY <1>1, SlotFacts
<1>4. Run(sched, time) \in [slot : Int, cycle : {0, 1}] /\ Run(sched, time).slot \in Slots(sched)
  BY <1>1, <1>2, <1>3 DEF Run
<1> QED BY <1>4 DEF sched

LEMMA OlderType ==
  ASSUME NEW data \in Seq(Position)
  PROVE  Older(data) \in Seq(Position)
<1> DEFINE older == Older(data)
<1>1. Len(data) \in Nat /\ DOMAIN data = 1 .. Len(data) /\ \A i \in 1 .. Len(data) : data[i] \in Position
  OBVIOUS
<1>2. older = [i \in 1 .. Len(data) |-> [data[i] EXCEPT !.now = FALSE]]
  BY <1>1 DEF Older
<1>3. \A i \in 1 .. Len(data) : [data[i] EXCEPT !.now = FALSE] \in Position
  BY <1>1 DEF Position
<1> HIDE DEF older
<1>4. older \in [1 .. Len(data) -> Position]
  BY <1>2, <1>3
<1>5. older \in Seq(Position)
  BY <1>1, <1>4
<1> QED BY <1>5 DEF older

LEMMA NoWaypointsType == \A s \in TdoaShoreState : [s EXCEPT !.dccl_command = <<>>] \in TdoaShoreState
<1> DEFINE Q == Seq(Waypoint)
<1>1. <<>> \in Q
  OBVIOUS
<1> HIDE DEF Q
<1>2. \A s \in [dccl_command : Q, sent_reports : SUBSET Ids, got_receive : BOOLEAN, now : BOOLEAN] :
        [s EXCEPT !.dccl_command = <<>>]
          \in [dccl_command : Q, sent_reports : SUBSET Ids, got_receive : BOOLEAN, now : BOOLEAN]
  BY <1>1
<1> QED BY <1>2 DEF TdoaShoreState, Q

LEMMA TdoaTypedInductive == TdoaTyped /\ [TdoaNext]_tdoaVars => TdoaTyped'
<1> SUFFICES ASSUME TdoaTyped, [TdoaNext]_tdoaVars PROVE TdoaTyped'
  OBVIOUS
<1>0. /\ EnginesTyped /\ tdoa_shore \in TdoaShoreState /\ dccl_report \in [Ids -> Seq(Position)]
      /\ task \in [Ids -> 0 .. TdoaMaxCommands]
      /\ \A s \in sounds : IsSound(s)
      /\ DOMAIN heard = Stations
      /\ \A p \in Stations : heard[p] # <<>> =>
           heard[p] = <<Head(heard[p])>> /\ IsSound(Head(heard[p])) /\ Head(heard[p]).from # p
      /\ asked \in 0 .. TdoaMaxCommands
      /\ record \in [ran : BOOLEAN, posted : Seq([slot : 0 .. 3, positions : Seq(Position), now : BOOLEAN]),
                     obeyed : [Ids -> 0 .. TdoaMaxCommands]]
  BY DEF TdoaTyped
<1>1. ASSUME NEW v \in Afloat, TdoaVehicleReceives(v) PROVE TdoaTyped'
  <2> DEFINE msg == Head(heard[v])
             mine == WaypointsFor(v, msg.data)
  <2>1. /\ heard[v] # <<>> /\ heard' = [heard EXCEPT ![v] = <<>>]
        /\ UNCHANGED <<time, tdma_engine, tdoa_shore, sounds, asked>>
        /\ v \in Ids /\ v \in Stations
    BY <1>1, TdoaNumbers DEF TdoaVehicleReceives
  <2>2. IsSound(msg)
    BY <1>0, <2>1
  <2>3. DOMAIN heard' = Stations
        /\ \A p \in Stations : heard'[p] # <<>> =>
             heard'[p] = <<Head(heard'[p])>> /\ IsSound(Head(heard'[p])) /\ Head(heard'[p]).from # p
    BY <1>0, <2>1
  <2>4. EnginesTyped'
    BY <1>0, <2>1 DEF EnginesTyped
  <2>5. CASE msg.from = ShoreId
    <3>1. CASE mine = {}
      <4>1. UNCHANGED <<dccl_report, task, record>>
        BY <1>1, <2>5, <3>1 DEF TdoaVehicleReceives
      <4> QED BY <1>0, <2>1, <2>3, <2>4, <4>1 DEF TdoaTyped
    <3>2. CASE mine # {}
      <4> DEFINE nr == msg.data[Min(mine)].nr
      <4>1. /\ UNCHANGED dccl_report /\ task' = [task EXCEPT ![v] = nr]
            /\ record' = [record EXCEPT !.obeyed[v] = nr]
        BY <1>1, <2>5, <3>2 DEF TdoaVehicleReceives
      <4>2. nr \in 0 .. TdoaMaxCommands
        <5>1. msg.data \in Seq(Waypoint)
          BY <2>2, <2>5 DEF IsSound
        <5>2. msg.data[Min(mine)] \in Waypoint
          <6> HIDE DEF msg
          <6> QED BY <3>2, <5>1, TakenWaypoint
        <5> QED BY <5>2, TdoaNumbers DEF Waypoint
      <4> HIDE DEF nr
      <4>3. task' \in [Ids -> 0 .. TdoaMaxCommands]
            /\ record' \in [ran : BOOLEAN,
                            posted : Seq([slot : 0 .. 3, positions : Seq(Position), now : BOOLEAN]),
                            obeyed : [Ids -> 0 .. TdoaMaxCommands]]
        BY <1>0, <4>1, <4>2
      <4> QED BY <1>0, <2>1, <2>3, <2>4, <4>1, <4>3 DEF TdoaTyped
    <3> QED BY <3>1, <3>2
  <2>6. CASE msg.from # ShoreId
    <3>1. /\ dccl_report' = [dccl_report EXCEPT ![v] = FoldLeft(AddNew, @, msg.data)]
          /\ UNCHANGED <<task, record>>
      BY <1>1, <2>6 DEF TdoaVehicleReceives
    <3>2. FoldLeft(AddNew, dccl_report[v], msg.data) \in Seq(Position)
      <4>1. msg.data \in Seq(Position) /\ dccl_report[v] \in Seq(Position)
        BY <1>0, <2>1, <2>2, <2>6 DEF IsSound
      <4> DEFINE S == Seq(Position)
      <4>2. \A x \in S, position \in Position : AddNew(x, position) \in S
        BY AddNewType
      <4> HIDE DEF S
      <4> QED BY <4>1, <4>2, CollectStays DEF S
    <3>3. dccl_report' \in [Ids -> Seq(Position)]
      BY <1>0, <3>1, <3>2
    <3> QED BY <1>0, <2>1, <2>3, <2>4, <3>1, <3>3 DEF TdoaTyped
  <2> QED BY <2>5, <2>6
<1>2. ASSUME NEW v \in Afloat, TdoaVehicleIterates(v) PROVE TdoaTyped'
  <2> DEFINE slot == NextEngine(v).slot
             data == Saved(v, slot, Collected(v, slot))
             sends == slot = v + 1
  <2>1. /\ MustAdvance(v) /\ tdma_engine' = [tdma_engine EXCEPT ![v] = NextEngine(v)]
        /\ dccl_report' = [dccl_report EXCEPT ![v] = IF sends THEN <<>> ELSE data]
        /\ sounds' = IF sends THEN Sounding(v, data) ELSE sounds
        /\ UNCHANGED <<time, tdoa_shore, task, heard, asked, record>>
        /\ v \in Ids /\ v \in Stations /\ v # ShoreId
    BY <1>2, TdoaNumbers DEF TdoaVehicleIterates
  <2>2. data \in Seq(Position)
    <3>1. [id |-> v, now |-> TRUE] \in Position
      BY <2>1 DEF Position
    <3>2. Collected(v, slot) \in Seq(Position)
      BY <1>0, <2>1 DEF Collected
    <3> QED BY <3>1, <3>2 DEF Saved
  <2>3. EnginesTyped'
    BY <1>0, <2>1, EnginesGoOn
  <2> HIDE DEF data, sends
  <2>4. dccl_report' \in [Ids -> Seq(Position)]
    BY <1>0, <2>1, <2>2
  <2>5. \A s \in sounds' : IsSound(s)
    BY <1>0, <2>1, <2>2, SoundingType
  <2> QED BY <1>0, <2>1, <2>3, <2>4, <2>5 DEF TdoaTyped
<1>3. ASSUME NEW v \in Afloat, OnWaypoint(v) PROVE TdoaTyped'
  <2>1. asked' = asked + 1 /\ asked' \in 0 .. TdoaMaxCommands /\ v \in Ids
    BY <1>0, <1>3, TdoaNumbers DEF OnWaypoint
  <2>2. [id |-> v, nr |-> asked'] \in Waypoint
    BY <1>0, <2>1 DEF Waypoint
  <2>3. tdoa_shore' \in TdoaShoreState
    <3> DEFINE w == [id |-> v, nr |-> asked']
               Q == Seq(Waypoint)
    <3>1. tdoa_shore.dccl_command \in Q
      BY <1>0 DEF TdoaShoreState
    <3>2. Append(tdoa_shore.dccl_command, w) \in Q
      BY <2>2, <3>1
    <3>3. tdoa_shore' = [tdoa_shore EXCEPT !.dccl_command = Append(tdoa_shore.dccl_command, w)]
      BY <1>3 DEF OnWaypoint
    <3>4. tdoa_shore \in [dccl_command : Q, sent_reports : SUBSET Ids, got_receive : BOOLEAN, now : BOOLEAN]
      BY <1>0 DEF TdoaShoreState
    <3> HIDE DEF w, Q
    <3>5. tdoa_shore' \in [dccl_command : Q, sent_reports : SUBSET Ids, got_receive : BOOLEAN, now : BOOLEAN]
      BY <3>2, <3>3, <3>4
    <3> QED BY <3>5 DEF TdoaShoreState, Q
  <2>4. UNCHANGED <<time, tdma_engine, dccl_report, task, sounds, heard, record>>
    BY <1>3 DEF OnWaypoint
  <2>5. EnginesTyped'
    BY <1>0, <2>4 DEF EnginesTyped
  <2> QED BY <1>0, <2>1, <2>3, <2>4, <2>5 DEF TdoaTyped
<1>4. CASE TdoaShoreReceives
  <2> DEFINE msg == Head(heard[ShoreId])
             new == FoldLeft(AddUnreported, <<>>, msg.data)
  <2>1. /\ heard[ShoreId] # <<>> /\ heard' = [heard EXCEPT ![ShoreId] = <<>>]
        /\ Posting(msg.from, new, tdoa_shore.now)
        /\ tdoa_shore' = [tdoa_shore EXCEPT !.sent_reports = @ \cup WhoseIn(new), !.got_receive = TRUE]
        /\ UNCHANGED <<time, tdma_engine, dccl_report, task, sounds, asked>>
    BY <1>4 DEF TdoaShoreReceives
  <2>2. IsSound(msg) /\ msg.from # ShoreId
    BY <1>0, <2>1, TdoaNumbers
  <2>3. msg.data \in Seq(Position) /\ msg.from \in Ids
    BY <2>2, TdoaNumbers DEF IsSound
  <2>4. new \in Seq(Position)
    <3> DEFINE S == Seq(Position)
    <3>1. \A x \in S, position \in Position : AddUnreported(x, position) \in S
      BY AddNewType DEF AddUnreported
    <3>2. <<>> \in S
      OBVIOUS
    <3> HIDE DEF S
    <3> QED BY <2>3, <3>1, <3>2, ReportStays DEF S
  <2> HIDE DEF new
  <2>5. WhoseIn(new) \subseteq Ids
    <3>1. \A i \in DOMAIN new : new[i] \in Position
      BY <2>4
    <3> QED BY <3>1 DEF WhoseIn, Position
  <2>6. tdoa_shore' \in TdoaShoreState /\ tdoa_shore.now \in BOOLEAN
    BY <1>0, <2>1, <2>5 DEF TdoaShoreState
  <2>7. record' \in [ran : BOOLEAN, posted : Seq([slot : 0 .. 3, positions : Seq(Position), now : BOOLEAN]),
                     obeyed : [Ids -> 0 .. TdoaMaxCommands]]
    <3>1. msg.from \in 0 .. 3
      BY <2>3 DEF Ids
    <3> HIDE DEF msg
    <3> QED BY <2>1, <2>4, <2>6, <3>1, PostingType
  <2>8. DOMAIN heard' = Stations
        /\ \A p \in Stations : heard'[p] # <<>> =>
             heard'[p] = <<Head(heard'[p])>> /\ IsSound(Head(heard'[p])) /\ Head(heard'[p]).from # p
    BY <1>0, <2>1
  <2>9. EnginesTyped'
    BY <1>0, <2>1 DEF EnginesTyped
  <2> QED BY <1>0, <2>1, <2>6, <2>7, <2>8, <2>9 DEF TdoaTyped
<1>5. CASE TdoaShoreIterates
  <2> DEFINE slot == NextEngine(ShoreId).slot
             cleared == IF slot = 4 THEN [tdoa_shore EXCEPT !.dccl_command = <<>>] ELSE tdoa_shore
             begun == IF slot = 0 THEN [cleared EXCEPT !.sent_reports = {}, !.now = TRUE] ELSE cleared
             after == IF slot = 6 THEN AfterCommand(begun) ELSE begun
             missed == {v \in Ids : slot = MissedSlot(v) /\ ~tdoa_shore.got_receive}
  <2>1. /\ MustAdvance(ShoreId)
        /\ tdma_engine' = [tdma_engine EXCEPT ![ShoreId] = NextEngine(ShoreId)]
        /\ tdoa_shore' = [after EXCEPT !.got_receive = FALSE]
        /\ sounds' = IF slot = 6 THEN Sounding(ShoreId, begun.dccl_command) ELSE sounds
        /\ \/ slot = 1 /\ Posting(0, <<>>, begun.now)
           \/ \E v \in missed : Posting(v, <<>>, begun.now)
           \/ slot # 1 /\ missed = {} /\ UNCHANGED record
        /\ UNCHANGED <<time, dccl_report, task, heard, asked>>
    BY <1>5 DEF TdoaShoreIterates
  <2>2. begun \in TdoaShoreState
    <3>1. cleared \in TdoaShoreState
      BY <1>0, NoWaypointsType
    <3> HIDE DEF cleared
    <3> QED BY <3>1 DEF TdoaShoreState
  <2> HIDE DEF begun
  <2>3. after \in TdoaShoreState
    BY <2>2, NoWaypointsType DEF AfterCommand
  <2> HIDE DEF after
  <2>4. tdoa_shore' \in TdoaShoreState
    BY <2>1, <2>3 DEF TdoaShoreState
  <2>5. begun.now \in BOOLEAN /\ begun.dccl_command \in Seq(Waypoint)
    BY <2>2 DEF TdoaShoreState
  <2>6. record' \in [ran : BOOLEAN, posted : Seq([slot : 0 .. 3, positions : Seq(Position), now : BOOLEAN]),
                     obeyed : [Ids -> 0 .. TdoaMaxCommands]]
    <3>1. <<>> \in Seq(Position) /\ 0 \in 0 .. 3 /\ \A v \in missed : v \in 0 .. 3
      BY DEF Ids
    <3> HIDE DEF missed
    <3>2. CASE Posting(0, <<>>, begun.now)
      BY <2>5, <3>1, <3>2, PostingType
    <3>3. ASSUME NEW v \in missed, Posting(v, <<>>, begun.now)
          PROVE  record' \in [ran : BOOLEAN,
                              posted : Seq([slot : 0 .. 3, positions : Seq(Position), now : BOOLEAN]),
                              obeyed : [Ids -> 0 .. TdoaMaxCommands]]
      BY <2>5, <3>1, <3>3, PostingType
    <3> QED BY <1>0, <2>1, <3>2, <3>3
  <2>7. \A s \in sounds' : IsSound(s)
    <3> HIDE DEF slot
    <3> QED BY <1>0, <2>1, <2>5, SoundingType, TdoaNumbers
  <2>8. EnginesTyped'
    BY <1>0, <2>1, EnginesGoOn, TdoaNumbers
  <2> QED BY <1>0, <2>1, <2>4, <2>6, <2>7, <2>8 DEF TdoaTyped
<1>6. ASSUME NEW P, TdoaRun(P) PROVE TdoaTyped'
  <2>1. EnginesTyped'
    BY <1>0, <1>6, TdoaRunType DEF TdoaRun, EnginesTyped
  <2>2. task' \in [Ids -> 0 .. TdoaMaxCommands]
    BY <1>0, <1>6, TdoaNumbers DEF TdoaRun
  <2>3. record' \in [ran : BOOLEAN, posted : Seq([slot : 0 .. 3, positions : Seq(Position), now : BOOLEAN]),
                     obeyed : [Ids -> 0 .. TdoaMaxCommands]]
    BY <1>0, <1>6 DEF TdoaRun
  <2> QED BY <1>0, <1>6, <2>1, <2>2, <2>3 DEF TdoaRun, TdoaTyped
<1>7. ASSUME NEW P, TdoaStop(P) PROVE TdoaTyped'
  <2>1. EnginesTyped'
    BY <1>0, <1>7 DEF TdoaStop, EnginesTyped, Stopped
  <2> QED BY <1>0, <1>7, <2>1 DEF TdoaStop, TdoaTyped
<1>8. CASE TdoaTick
  <2>1. UNCHANGED <<tdma_engine, task, asked>> /\ WaterCarries
    BY <1>8 DEF TdoaTick
  <2>2. EnginesTyped'
    <3>1. SlotsOf(ShoreId).period \in Nat
      BY TdoaSchedules, TdoaNumbers DEF IsSchedule
    <3>2. time' \in [cycle : {0, 1}, pos : 0 .. SlotsOf(ShoreId).period - 1]
      BY <1>0, <1>8, <3>1 DEF TdoaTick, EnginesTyped
    <3> QED BY <1>0, <2>1, <3>2 DEF EnginesTyped
  <2>3. tdoa_shore' \in TdoaShoreState
    BY <1>0, <1>8 DEF TdoaTick, TdoaShoreState
  <2>4. dccl_report' \in [Ids -> Seq(Position)]
    BY <1>0, <1>8, OlderType DEF TdoaTick
  <2>5. record' \in [ran : BOOLEAN, posted : Seq([slot : 0 .. 3, positions : Seq(Position), now : BOOLEAN]),
                     obeyed : [Ids -> 0 .. TdoaMaxCommands]]
    <3> DEFINE R == [slot : 0 .. 3, positions : Seq(Position), now : BOOLEAN]
               Q == Seq(R)
    <3>1. record \in [ran : BOOLEAN, posted : Q, obeyed : [Ids -> 0 .. TdoaMaxCommands]] /\ <<>> \in Q
      BY <1>0
    <3>2. record' = record \/ record' = [record EXCEPT !.ran = FALSE, !.posted = <<>>]
      BY <1>8 DEF TdoaTick
    <3> HIDE DEF Q
    <3>3. record' \in [ran : BOOLEAN, posted : Q, obeyed : [Ids -> 0 .. TdoaMaxCommands]]
      BY <3>1, <3>2
    <3> QED BY <3>3 DEF Q
  <2>6. DOMAIN heard' = Stations
        /\ \A p \in Stations : heard'[p] # <<>> =>
             heard'[p] = <<Head(heard'[p])>> /\ IsSound(Head(heard'[p])) /\ Head(heard'[p]).from # p
    <3>1. CASE Hearing({})
      BY <3>1 DEF Hearing
    <3>2. ASSUME Cardinality(sounds) = 1,
                 NEW listeners \in SUBSET {p \in Stations : \A s \in sounds : s.from # p}, Hearing(listeners)
          PROVE  DOMAIN heard' = Stations
                 /\ \A p \in Stations : heard'[p] # <<>> =>
                      heard'[p] = <<Head(heard'[p])>> /\ IsSound(Head(heard'[p])) /\ Head(heard'[p]).from # p
      <4>1. sounds # {}
        BY <3>2, FS_EmptySet
      <4> DEFINE sound == CHOOSE s \in sounds : TRUE
      <4>2. sound \in sounds
        BY <4>1
      <4>3. heard' = [p \in Stations |-> IF p \in listeners THEN <<sound>> ELSE <<>>]
        BY <3>2 DEF Hearing
      <4> HIDE DEF sound
      <4> QED BY <1>0, <3>2, <4>2, <4>3
    <3> QED BY <2>1, <3>1, <3>2 DEF WaterCarries
  <2>7. \A s \in sounds' : IsSound(s)
    BY <2>1 DEF WaterCarries
  <2> QED BY <1>0, <2>1, <2>2, <2>3, <2>4, <2>5, <2>6, <2>7 DEF TdoaTyped
<1>9. CASE UNCHANGED tdoaVars
  <2>1. EnginesTyped'
    BY <1>0, <1>9 DEF tdoaVars, EnginesTyped
  <2> QED BY <1>0, <1>9, <2>1 DEF tdoaVars, TdoaTyped
<1> QED BY <1>1, <1>2, <1>3, <1>4, <1>5, <1>6, <1>7, <1>8, <1>9 DEF TdoaNext

\* The programs of the TDOA mission keep the shape of their state, whatever is missed and
\* whenever they are told to run and to stop: an engine has a slot of its schedule, vehicles
\* send positions, and the shore waypoints.
THEOREM TdoaTypeCorrect == TdoaSpec => []TdoaTypeOK
BY TdoaTypedInitially, TdoaTypedInductive, TdoaTypedIsTypeOK, PTL DEF TdoaSpec

\* The numbers of the waypoints for a vehicle: in a command, and wherever commands are.
For(v, data) == {data[i].nr : i \in {j \in DOMAIN data : data[j].id = v}}

InBuffer(v) == For(v, tdoa_shore.dccl_command)
InWater(v) == UNION {For(v, s.data) : s \in {s \in sounds : s.from = ShoreId}}
InMail(v) ==
  IF heard[v] # <<>> /\ Head(heard[v]).from = ShoreId THEN For(v, Head(heard[v]).data) ELSE {}

Below(A, B) == \A a \in A, b \in B : a < b

\* What the tracker asked for earlier is on its way ahead of what it asked for later.
InTurn(v) ==
  /\ Below({record.obeyed[v]}, InMail(v) \cup InWater(v) \cup InBuffer(v))
  /\ Below(InMail(v), InWater(v) \cup InBuffer(v))
  /\ Below(InWater(v), InBuffer(v))
  /\ Below({record.obeyed[v]} \cup InMail(v) \cup InWater(v) \cup InBuffer(v), {asked + 1})

WaypointsInTurn == TdoaTyped /\ \A v \in Afloat : InTurn(v)

LEMMA InTurnInitially == TdoaInit => WaypointsInTurn
<1> SUFFICES ASSUME TdoaInit, NEW v \in Afloat PROVE InTurn(v)
  BY TdoaTypedInitially DEF WaypointsInTurn
<1>1. v \in Ids /\ v \in Stations
  BY TdoaNumbers
<1>2. InBuffer(v) = {} /\ InWater(v) = {} /\ InMail(v) = {}
  BY <1>1 DEF TdoaInit, InBuffer, InWater, InMail, For
<1> QED BY <1>1, <1>2 DEF TdoaInit, InTurn, Below

\* What is waiting is a set of numbers.
LEMMA WaitingAreNumbers ==
  ASSUME TdoaTyped, NEW v \in Afloat
  PROVE  /\ InBuffer(v) \subseteq Nat /\ InWater(v) \subseteq Nat /\ InMail(v) \subseteq Nat
         /\ record.obeyed[v] \in Nat /\ asked \in Nat
<1>1. ASSUME NEW data \in Seq(Waypoint) PROVE For(v, data) \subseteq Nat
  <2>1. \A i \in DOMAIN data : data[i] \in Waypoint
    OBVIOUS
  <2> QED BY <2>1, TdoaNumbers DEF For, Waypoint
<1>2. tdoa_shore.dccl_command \in Seq(Waypoint)
  BY DEF TdoaTyped, TdoaShoreState
<1>3. \A s \in sounds : s.from = ShoreId => s.data \in Seq(Waypoint)
  BY DEF TdoaTyped, IsSound
<1>4. heard[v] # <<>> /\ Head(heard[v]).from = ShoreId => Head(heard[v]).data \in Seq(Waypoint)
  BY TdoaNumbers DEF TdoaTyped, IsSound
<1>5. record.obeyed[v] \in 0 .. TdoaMaxCommands /\ asked \in 0 .. TdoaMaxCommands
  BY TdoaNumbers DEF TdoaTyped
<1> QED BY <1>1, <1>2, <1>3, <1>4, <1>5, TdoaNumbers DEF InBuffer, InWater, InMail

\* Where each number stays or moves on, the turn is kept.
LEMMA StaysInTurn ==
  ASSUME TdoaTyped, NEW v \in Afloat, InTurn(v),
         record'.obeyed[v] = record.obeyed[v], asked' = asked,
         InMail(v)' \subseteq InMail(v), InWater(v)' \subseteq InWater(v) \cup InBuffer(v),
         InBuffer(v)' \subseteq InBuffer(v),
         InWater(v)' \subseteq InWater(v) \/ InBuffer(v)' = {}
  PROVE  InTurn(v)'
BY DEF InTurn, Below

\* A step of another program than the shore, or of no program.
LEMMA OtherWatersInTurn ==
  ASSUME TdoaTyped, NEW v \in Afloat, InTurn(v),
         UNCHANGED <<record.obeyed[v], asked, heard[v], tdoa_shore.dccl_command>>,
         \A s \in sounds' \ sounds : s.from # ShoreId
  PROVE  InTurn(v)'
<1>1. InMail(v)' = InMail(v) /\ InBuffer(v)' = InBuffer(v) /\ InWater(v)' \subseteq InWater(v)
  BY DEF InMail, InBuffer, InWater, For
<1> QED BY <1>1, StaysInTurn

LEMMA InTurnInductive == WaypointsInTurn /\ [TdoaNext]_tdoaVars => WaypointsInTurn'
<1> SUFFICES ASSUME WaypointsInTurn, [TdoaNext]_tdoaVars, NEW v \in Afloat
             PROVE  InTurn(v)'
  BY TdoaTypedInductive DEF WaypointsInTurn
<1>0. /\ TdoaTyped /\ InTurn(v) /\ v \in Ids /\ v \in Stations /\ v # ShoreId
      /\ DOMAIN heard = Stations
  BY TdoaNumbers DEF WaypointsInTurn, TdoaTyped
<1>1. ASSUME NEW u \in Afloat, TdoaVehicleReceives(u) PROVE InTurn(v)'
  <2> DEFINE msg == Head(heard[u])
             mine == WaypointsFor(u, msg.data)
             nr == msg.data[Min(mine)].nr
  <2>1. /\ heard[u] # <<>> /\ heard' = [heard EXCEPT ![u] = <<>>] /\ u \in Stations
        /\ UNCHANGED <<tdoa_shore, sounds, asked>>
    BY <1>1, TdoaNumbers DEF TdoaVehicleReceives
  <2>2. UNCHANGED <<InWater(v), InBuffer(v)>>
    BY <2>1 DEF InWater, InBuffer, For
  <2>3. CASE record' = record
    <3>1. InMail(v)' \subseteq InMail(v)
      BY <1>0, <2>1 DEF InMail, For
    <3> QED BY <1>0, <2>1, <2>2, <2>3, <3>1, StaysInTurn
  <2>4. CASE record' # record
    <3>1. msg.from = ShoreId /\ mine # {} /\ record' = [record EXCEPT !.obeyed[u] = nr]
      BY <1>1, <2>4 DEF TdoaVehicleReceives
    <3>2. CASE u # v
      <4>1. record'.obeyed[v] = record.obeyed[v] /\ heard'[v] = heard[v]
        BY <1>0, <2>1, <3>1, <3>2 DEF TdoaTyped
      <4>2. \A s \in sounds' \ sounds : s.from # ShoreId
        BY <2>1
      <4> QED BY <1>0, <2>1, <4>1, <4>2, OtherWatersInTurn
    <3>3. CASE u = v
      <4>1. msg.data \in Seq(Waypoint)
        BY <1>0, <2>1, <3>1 DEF TdoaTyped, IsSound
      <4>2. msg.data[Min(mine)].id = v /\ Min(mine) \in DOMAIN msg.data
        <5> HIDE DEF msg
        <5> QED BY <3>1, <3>3, <4>1, TakenWaypoint
      <4>3. nr \in InMail(v)
        BY <2>1, <3>1, <3>3, <4>2 DEF InMail, For
      <4>4. record'.obeyed[v] = nr
        <5> HIDE DEF nr
        <5> QED BY <1>0, <3>1, <3>3 DEF TdoaTyped
      <4>5. InMail(v)' = {}
        BY <1>0, <2>1, <3>3 DEF InMail
      <4> HIDE DEF nr
      <4> QED BY <1>0, <2>1, <2>2, <4>3, <4>4, <4>5 DEF InTurn, Below
    <3> QED BY <3>2, <3>3
  <2> QED BY <2>3, <2>4
<1>2. ASSUME NEW u \in Afloat, TdoaVehicleIterates(u) PROVE InTurn(v)'
  <2>1. UNCHANGED <<record, asked, heard, tdoa_shore>>
        /\ \A s \in sounds' \ sounds : s.from = u
    BY <1>2 DEF TdoaVehicleIterates, Sounding
  <2>2. \A s \in sounds' \ sounds : s.from # ShoreId
    BY <2>1, TdoaNumbers
  <2> QED BY <1>0, <2>1, <2>2, OtherWatersInTurn
<1>3. ASSUME NEW u \in Afloat, OnWaypoint(u) PROVE InTurn(v)'
  <2> DEFINE w == [id |-> u, nr |-> asked + 1]
             old == tdoa_shore.dccl_command
  <2>1. /\ asked' = asked + 1 /\ tdoa_shore' = [tdoa_shore EXCEPT !.dccl_command = Append(@, w)]
        /\ UNCHANGED <<sounds, heard, record>>
    BY <1>3 DEF OnWaypoint
  <2>2. old \in Seq(Waypoint) /\ tdoa_shore'.dccl_command = Append(old, w)
    BY <1>0, <2>1 DEF TdoaTyped, TdoaShoreState
  <2>3. InBuffer(v)' \subseteq InBuffer(v) \cup {asked + 1}
    <3>1. ASSUME NEW i \in DOMAIN Append(old, w)
          PROVE  (i \in DOMAIN old /\ Append(old, w)[i] = old[i]) \/ Append(old, w)[i] = w
      BY <2>2
    <3>2. w.nr = asked + 1
      OBVIOUS
    <3>3. InBuffer(v)' = For(v, Append(old, w))
      BY <2>2 DEF InBuffer, For
    <3> HIDE DEF w
    <3> QED BY <3>1, <3>2, <3>3 DEF InBuffer, For
  <2>4. InMail(v)' = InMail(v) /\ InWater(v)' = InWater(v) /\ record'.obeyed[v] = record.obeyed[v]
    BY <2>1 DEF InMail, InWater, For
  <2>5. /\ InBuffer(v) \subseteq Nat /\ InWater(v) \subseteq Nat /\ InMail(v) \subseteq Nat
        /\ record.obeyed[v] \in Nat /\ asked \in Nat
    BY <1>0, WaitingAreNumbers
  <2> QED BY <1>0, <2>1, <2>3, <2>4, <2>5 DEF InTurn, Below
<1>4. CASE TdoaShoreReceives
  <2>1. /\ UNCHANGED <<sounds, asked>> /\ heard' = [heard EXCEPT ![ShoreId] = <<>>]
        /\ record'.obeyed = record.obeyed
        /\ tdoa_shore'.dccl_command = tdoa_shore.dccl_command
    BY <1>0, <1>4 DEF TdoaShoreReceives, Posting, TdoaTyped, TdoaShoreState
  <2>2. \A s \in sounds' \ sounds : s.from # ShoreId
    BY <2>1
  <2>3. heard'[v] = heard[v]
    BY <1>0, <2>1
  <2> QED BY <1>0, <2>1, <2>2, <2>3, OtherWatersInTurn
<1>5. CASE TdoaShoreIterates
  <2> DEFINE slot == NextEngine(ShoreId).slot
             cleared == IF slot = 4 THEN [tdoa_shore EXCEPT !.dccl_command = <<>>] ELSE tdoa_shore
             begun == IF slot = 0 THEN [cleared EXCEPT !.sent_reports = {}, !.now = TRUE] ELSE cleared
             after == IF slot = 6 THEN AfterCommand(begun) ELSE begun
  <2>1. /\ tdoa_shore' = [after EXCEPT !.got_receive = FALSE]
        /\ sounds' = IF slot = 6 THEN Sounding(ShoreId, begun.dccl_command) ELSE sounds
        /\ record'.obeyed = record.obeyed
        /\ UNCHANGED <<heard, asked>>
    BY <1>0, <1>5 DEF TdoaShoreIterates, Posting, TdoaTyped
  <2>2. slot # 4 => begun.dccl_command = tdoa_shore.dccl_command
    BY <1>0 DEF TdoaTyped, TdoaShoreState
  <2>3. /\ slot = 4 => tdoa_shore'.dccl_command = <<>>
        /\ slot = 6 => tdoa_shore'.dccl_command = <<>>
        /\ slot \notin {4, 6} => tdoa_shore'.dccl_command = tdoa_shore.dccl_command
    BY <1>0, <2>1 DEF AfterCommand, TdoaTyped, TdoaShoreState
  <2>4. For(v, <<>>) = {}
    BY DEF For
  <2>5. InMail(v)' = InMail(v) /\ record'.obeyed[v] = record.obeyed[v]
    BY <2>1 DEF InMail, For
  <2>6. CASE slot = 6
    <3>1. InBuffer(v)' = {}
      BY <2>3, <2>4, <2>6 DEF InBuffer
    <3> DEFINE data == tdoa_shore.dccl_command
    <3>2. data \in Seq(Waypoint)
      BY <1>0 DEF TdoaTyped, TdoaShoreState
    <3>3. \A i \in DOMAIN Encoded(data) : i \in DOMAIN data /\ Encoded(data)[i] = data[i]
      <4> HIDE DEF data
      <4> QED BY <3>2, SoundingType, TdoaNumbers
    <3>4. For(v, Encoded(data)) \subseteq For(v, data)
      BY <3>3 DEF For
    <3>5. \A s \in sounds' : s \in sounds \/ s.data = Encoded(data)
      BY <2>1, <2>2, <2>6 DEF Sounding
    <3>6. InWater(v)' \subseteq InWater(v) \cup InBuffer(v)
      BY <3>4, <3>5 DEF InWater, InBuffer, For
    <3> QED BY <1>0, <2>1, <2>5, <3>1, <3>6, StaysInTurn
  <2>7. CASE slot # 6
    <3>1. InWater(v)' = InWater(v)
      BY <2>1, <2>7 DEF InWater, For
    <3>2. InBuffer(v)' \subseteq InBuffer(v)
      BY <2>3, <2>4, <2>7 DEF InBuffer, For
    <3> QED BY <1>0, <2>1, <2>5, <3>1, <3>2, StaysInTurn
  <2> QED BY <2>6, <2>7
<1>6. ASSUME NEW P, TdoaRun(P) \/ TdoaStop(P) PROVE InTurn(v)'
  <2>1. UNCHANGED <<sounds, heard, asked, tdoa_shore>> /\ record'.obeyed = record.obeyed
    BY <1>0, <1>6 DEF TdoaRun, TdoaStop, TdoaTyped
  <2>2. \A s \in sounds' \ sounds : s.from # ShoreId
    BY <2>1
  <2> QED BY <1>0, <2>1, <2>2, OtherWatersInTurn
\* What was in the water is heard or lost, when nothing is left to read.
<1>7. CASE TdoaTick
  <2>1. /\ sounds' = {} /\ heard[v] = <<>> /\ asked' = asked
        /\ record'.obeyed = record.obeyed /\ tdoa_shore'.dccl_command = tdoa_shore.dccl_command
    BY <1>0, <1>7 DEF TdoaTick, WaterCarries, TdoaTyped, TdoaShoreState
  <2>2. heard'[v] = <<>> \/ \E s \in sounds : heard'[v] = <<s>>
    <3>1. CASE Hearing({})
      BY <1>0, <3>1 DEF Hearing
    <3>2. ASSUME Cardinality(sounds) = 1, NEW listeners, Hearing(listeners)
          PROVE  heard'[v] = <<>> \/ \E s \in sounds : heard'[v] = <<s>>
      <4>1. sounds # {}
        BY <3>2, FS_EmptySet
      <4> DEFINE sound == CHOOSE s \in sounds : TRUE
      <4>2. sound \in sounds
        BY <4>1
      <4>3. heard'[v] = IF v \in listeners THEN <<sound>> ELSE <<>>
        BY <1>0, <3>2 DEF Hearing
      <4> HIDE DEF sound
      <4> QED BY <4>2, <4>3
    <3> QED BY <1>7, <3>1, <3>2 DEF TdoaTick, WaterCarries
  <2>3. InMail(v)' \subseteq InWater(v)
    <3>1. ASSUME NEW s \in sounds, heard'[v] = <<s>>, s.from = ShoreId
          PROVE  InMail(v)' \subseteq InWater(v)
      <4>1. InMail(v)' = For(v, s.data)
        BY <3>1 DEF InMail, For
      <4>2. For(v, s.data) \subseteq InWater(v)
        BY <3>1 DEF InWater
      <4> QED BY <4>1, <4>2
    <3>2. CASE heard'[v] = <<>>
      BY <3>2 DEF InMail
    <3>3. ASSUME NEW s \in sounds, heard'[v] = <<s>>, s.from # ShoreId PROVE InMail(v)' = {}
      BY <3>3 DEF InMail
    <3> QED BY <2>2, <3>1, <3>2, <3>3
  <2>4. InWater(v)' = {} /\ InBuffer(v)' = InBuffer(v)
    BY <2>1 DEF InWater, InBuffer, For
  <2> QED BY <1>0, <2>1, <2>3, <2>4 DEF InTurn, Below
<1>8. CASE UNCHANGED tdoaVars
  <2>1. \A s \in sounds' \ sounds : s.from # ShoreId
    BY <1>8 DEF tdoaVars
  <2> QED BY <1>0, <1>8, <2>1, OtherWatersInTurn DEF tdoaVars
<1> QED BY <1>1, <1>2, <1>3, <1>4, <1>5, <1>6, <1>7, <1>8 DEF TdoaNext

\* A vehicle never takes the same waypoint twice, nor an older one after a newer, whatever it
\* missed in between and however often it was told to keep station.
THEOREM WaypointsTakenOnce == TdoaSpec => WaypointsAreNew
<1> DEFINE IsNew == \A v \in Ids : task'[v] \notin {0, task[v]} => task'[v] > record.obeyed[v]
<1>1. WaypointsInTurn /\ [TdoaNext]_tdoaVars => IsNew
  <2> SUFFICES ASSUME WaypointsInTurn, [TdoaNext]_tdoaVars, NEW v \in Ids, task'[v] \notin {0, task[v]}
               PROVE  task'[v] > record.obeyed[v]
    OBVIOUS
  <2>1. TdoaTyped
    BY DEF WaypointsInTurn
  <2>2. ASSUME NEW u \in Afloat, TdoaVehicleReceives(u) PROVE task'[v] > record.obeyed[v]
    <3> DEFINE msg == Head(heard[u])
               mine == WaypointsFor(u, msg.data)
               nr == msg.data[Min(mine)].nr
    <3>1. /\ heard[u] # <<>> /\ msg.from = ShoreId /\ mine # {} /\ task' = [task EXCEPT ![u] = nr]
      BY <2>2 DEF TdoaVehicleReceives
    <3>2. u = v /\ task'[v] = nr
      <4> HIDE DEF nr
      <4> QED BY <2>1, <3>1 DEF TdoaTyped
    <3>3. msg.data \in Seq(Waypoint)
      BY <2>1, <3>1, TdoaNumbers DEF TdoaTyped, IsSound
    <3>4. msg.data[Min(mine)].id = u /\ Min(mine) \in DOMAIN msg.data
      <4> HIDE DEF msg
      <4> QED BY <3>1, <3>3, TakenWaypoint
    <3>5. nr \in InMail(u)
      BY <3>1, <3>4 DEF InMail, For
    <3>6. nr \in Nat /\ record.obeyed[u] \in Nat
      BY <2>1, <3>5, WaitingAreNumbers
    <3> HIDE DEF nr
    <3> QED BY <3>2, <3>5, <3>6 DEF WaypointsInTurn, InTurn, Below
  <2>3. ASSUME NEW P, TdoaRun(P) PROVE FALSE
    BY <2>3 DEF TdoaRun
  <2> QED BY <2>2, <2>3 DEF TdoaNext, tdoaVars, TdoaVehicleIterates, OnWaypoint, TdoaShoreReceives,
                             TdoaShoreIterates, TdoaStop, TdoaTick
<1>2. TdoaSpec => []WaypointsInTurn
  BY InTurnInitially, InTurnInductive, PTL DEF TdoaSpec
<1> QED BY <1>1, <1>2, PTL DEF TdoaSpec, WaypointsAreNew
-----------------------------------------------------------------------------
(* The tracker is served *)

\* When a vehicle transmits.
SendsAt(v) == StartOf(v + 1, TdoaVehicleSchedule)

\* The engine has the slot of the clock, or the next one begins now.
HasSlot(p) == Shows(tdma_engine[p].slot, SlotsOf(p), time) /\ tdma_engine[p].cycle = time.cycle

NextBegins(p) ==
  LET e == tdma_engine[p] IN
    IF time.pos = 0 THEN e.slot + 1 \notin Slots(SlotsOf(p)) /\ e.cycle # time.cycle
    ELSE e.slot + 1 \in Slots(SlotsOf(p)) /\ time.pos = StartOf(e.slot + 1, SlotsOf(p)) /\ e.cycle = time.cycle

Prompt == \A p \in Stations : IsRunning(tdma_engine[p]) => HasSlot(p) \/ NextBegins(p)

\* The clock is in one slot only.
LEMMA OneSlotShown ==
  ASSUME NEW sched, IsSchedule(sched), NEW now \in [cycle : Int, pos : 0 .. sched.period - 1],
         NEW s \in Slots(sched), NEW t \in Slots(sched), Shows(s, sched, now), Shows(t, sched, now)
  PROVE  s = t
<1> DEFINE e == [slot |-> s, cycle |-> 0]
<1>1. e.slot = s
  OBVIOUS
<1> HIDE DEF e
<1>2. ~SlotIsOver(e, sched, now)
  BY <1>1, OverUnlessShown
<1>3. SlotIsOver(e, sched, now) <=> e.slot # t
  BY <1>1, OverUnlessShown
<1> QED BY <1>1, <1>2, <1>3

LEMMA TdoaClock ==
  ASSUME EnginesTyped, NEW p \in Stations
  PROVE  /\ IsSchedule(SlotsOf(p)) /\ SlotsOf(p).period = SlotsOf(ShoreId).period
         /\ time \in [cycle : Int, pos : 0 .. SlotsOf(p).period - 1] /\ time.cycle \in {0, 1}
         /\ tdma_engine[p] \in [slot : Int, cycle : {0, 1}]
         /\ IsRunning(tdma_engine[p]) => tdma_engine[p].slot \in Slots(SlotsOf(p))
<1>1. IsSchedule(SlotsOf(p)) /\ SlotsOf(p).period = SlotsOf(ShoreId).period
  BY TdoaSchedules
<1> QED BY <1>1 DEF EnginesTyped, IsRunning

\* A program has nothing to do exactly while its engine has the slot of the clock.
LEMMA RestsInItsSlot ==
  ASSUME EnginesTyped, NEW p \in Stations, IsRunning(tdma_engine[p])
  PROVE  ~MustAdvance(p) <=> HasSlot(p)
<1> DEFINE e == tdma_engine[p]
           sched == SlotsOf(p)
<1>1. /\ IsSchedule(sched) /\ time \in [cycle : Int, pos : 0 .. sched.period - 1]
      /\ e.slot \in Slots(sched)
  BY TdoaClock
<1>2. PICK cur \in Slots(sched) : Shows(cur, sched, time)
  BY <1>1 DEF IsSchedule, Shows
<1> HIDE DEF e, sched
<1>3. SlotIsOver(e, sched, time) <=> e.slot # cur
  BY <1>1, <1>2, OverUnlessShown
<1>4. Shows(e.slot, sched, time) <=> e.slot = cur
  BY <1>1, <1>2, OneSlotShown
<1>5. MustAdvance(p) <=> SlotIsOver(e, sched, time) \/ e.cycle # time.cycle
  BY DEF MustAdvance, Advances, e, sched
<1>6. HasSlot(p) <=> Shows(e.slot, sched, time) /\ e.cycle = time.cycle
  BY DEF HasSlot, e, sched
<1> QED BY <1>3, <1>4, <1>5, <1>6

\* The engine of a program that iterates takes the slot that begins now.
LEMMA TakesNextSlot ==
  ASSUME EnginesTyped, Prompt, NEW p \in Stations, MustAdvance(p)
  PROVE  LET e == NextEngine(p) IN
           /\ NextBegins(p) /\ IsRunning(tdma_engine[p])
           /\ e.slot \in Slots(SlotsOf(p)) /\ Shows(e.slot, SlotsOf(p), time) /\ e.cycle = time.cycle
           /\ time.pos = StartOf(e.slot, SlotsOf(p))
           /\ e.slot = IF time.pos = 0 THEN 0 ELSE tdma_engine[p].slot + 1
<1> DEFINE e == tdma_engine[p]
           sched == SlotsOf(p)
<1>1. IsRunning(e)
  BY DEF MustAdvance, Advances
<1>2. /\ IsSchedule(sched) /\ time \in [cycle : Int, pos : 0 .. sched.period - 1]
      /\ e.slot \in Slots(sched) /\ e \in [slot : Int, cycle : {0, 1}]
  BY <1>1, TdoaClock
<1>3. NextBegins(p)
  BY <1>1, RestsInItsSlot DEF Prompt
<1>4. NextEngine(p) = Advanced(e, sched, time)
  BY DEF NextEngine
<1>5. IF time.pos = 0 THEN e.slot + 1 \notin Slots(sched) /\ e.cycle # time.cycle
      ELSE e.slot + 1 \in Slots(sched) /\ time.pos = StartOf(e.slot + 1, sched) /\ e.cycle = time.cycle
  BY <1>3 DEF NextBegins
<1> HIDE DEF e, sched
<1>6. CASE time.pos = 0
  <2>1. Advanced(e, sched, time) = [slot |-> 0, cycle |-> time.cycle]
    BY <1>5, <1>6 DEF Advanced
  <2>2. 0 \in Slots(sched) /\ StartOf(0, sched) = 0
    BY <1>2, SlotFacts
  <2>3. EndOf(0, sched) = 0 + sched.lengths[0 + 1] /\ sched.lengths[0 + 1] \in Nat \ {0}
    BY <1>2, <2>2, SlotFacts
  <2>4. Shows(0, sched, time)
    BY <1>6, <2>2, <2>3 DEF Shows
  <2> QED BY <1>1, <1>3, <1>4, <1>6, <2>1, <2>2, <2>4 DEF e, sched
<1>7. CASE time.pos # 0
  <2>1. e.slot + 1 \in Slots(sched) /\ time.pos = StartOf(e.slot + 1, sched) /\ e.cycle = time.cycle
    BY <1>5, <1>7
  <2>2. Shows(e.slot + 1, sched, time)
    <3>1. EndOf(e.slot + 1, sched) = StartOf(e.slot + 1, sched) + sched.lengths[e.slot + 1 + 1]
          /\ sched.lengths[e.slot + 1 + 1] \in Nat \ {0} /\ StartOf(e.slot + 1, sched) \in Nat
      BY <1>2, <2>1, SlotFacts
    <3> QED BY <2>1, <3>1 DEF Shows
  <2>3. SlotIsOver(e, sched, time)
    <3>1. e.slot # e.slot + 1
      BY <1>2
    <3> QED BY <1>2, <2>1, <2>2, <3>1, OverUnlessShown
  <2>4. Advanced(e, sched, time) = [e EXCEPT !.slot = e.slot + 1]
    BY <2>1, <2>3 DEF Advanced
  <2>5. Advanced(e, sched, time).slot = e.slot + 1 /\ Advanced(e, sched, time).cycle = e.cycle
    BY <1>2, <2>4
  <2> QED BY <1>1, <1>3, <1>4, <1>7, <2>1, <2>2, <2>5 DEF e, sched
<1> QED BY <1>6, <1>7

LEMMA PromptGoesOn ==
  ASSUME EnginesTyped, Prompt, NEW p \in Stations, MustAdvance(p), time' = time,
         tdma_engine' = [tdma_engine EXCEPT ![p] = NextEngine(p)]
  PROVE  Prompt'
<1>1. HasSlot(p)'
  <2>1. tdma_engine'[p] = NextEngine(p)
    BY DEF EnginesTyped
  <2> HIDE DEF NextEngine
  <2> QED BY <2>1, TakesNextSlot DEF HasSlot, Shows
<1>2. \A q \in Stations \ {p} : tdma_engine'[q] = tdma_engine[q]
  BY DEF EnginesTyped
<1> QED BY <1>1, <1>2 DEF Prompt, HasSlot, NextBegins, Shows

\* run leads to the slot of the clock.
LEMMA RunHasSlot ==
  ASSUME EnginesTyped, NEW p \in Stations
  PROVE  LET e == Run(SlotsOf(p), time) IN
           Shows(e.slot, SlotsOf(p), time) /\ e.cycle = time.cycle
<1> DEFINE sched == SlotsOf(p)
<1>1. IsSchedule(sched) /\ time \in [cycle : Int, pos : 0 .. sched.period - 1]
  BY TdoaClock
<1> HIDE DEF sched
<1>2. \E s \in Slots(sched) : Shows(s, sched, time)
  BY <1>1 DEF IsSchedule, Shows
<1> QED BY <1>2 DEF Run, sched

\* In a unit of time a slot is over at most, and a cycle with the last slot.
LEMMA PromptAfterTick ==
  ASSUME EnginesTyped, TdoaTick
  PROVE  Prompt'
<1> SUFFICES ASSUME NEW p \in Stations, IsRunning(tdma_engine'[p]) PROVE HasSlot(p)' \/ NextBegins(p)'
  BY DEF Prompt
<1> DEFINE e == tdma_engine[p]
           sched == SlotsOf(p)
           s == e.slot
<1>1. /\ tdma_engine' = tdma_engine /\ ~MustAdvance(p)
      /\ time' = IF time.pos + 1 < SlotsOf(ShoreId).period THEN [time EXCEPT !.pos = @ + 1]
                 ELSE [cycle |-> 1 - time.cycle, pos |-> 0]
  BY DEF TdoaTick
<1>2. /\ IsSchedule(sched) /\ time \in [cycle : Int, pos : 0 .. sched.period - 1] /\ time.cycle \in {0, 1}
      /\ s \in Slots(sched) /\ sched.period = SlotsOf(ShoreId).period
  BY <1>1, TdoaClock
<1>3. Shows(s, sched, time) /\ e.cycle = time.cycle
  BY <1>1, RestsInItsSlot DEF HasSlot
<1>4. /\ HasSlot(p)' <=> Shows(s, sched, time') /\ e.cycle = time'.cycle
      /\ NextBegins(p)' <=>
           IF time'.pos = 0 THEN s + 1 \notin Slots(sched) /\ e.cycle # time'.cycle
           ELSE s + 1 \in Slots(sched) /\ time'.pos = StartOf(s + 1, sched) /\ e.cycle = time'.cycle
  BY <1>1 DEF HasSlot, NextBegins, Shows
<1> HIDE DEF e, sched, s
<1>5. /\ StartOf(s, sched) \in Nat /\ EndOf(s, sched) \in Nat /\ EndOf(s, sched) <= sched.period
      /\ s + 1 \in Slots(sched) => EndOf(s, sched) = StartOf(s + 1, sched)
      /\ s + 1 \notin Slots(sched) => EndOf(s, sched) = sched.period
      /\ sched.period \in Nat
  BY <1>2, SlotFacts
<1>6. s + 1 \in Slots(sched) => EndOf(s, sched) < sched.period
  <2>1. s + 1 \in Slots(sched) =>
          /\ StartOf(s + 1, sched) \in Nat /\ sched.lengths[s + 1 + 1] \in Nat \ {0}
          /\ EndOf(s + 1, sched) = StartOf(s + 1, sched) + sched.lengths[s + 1 + 1]
          /\ EndOf(s + 1, sched) <= sched.period
    BY <1>2, SlotFacts
  <2> QED BY <1>5, <2>1
<1>7. StartOf(s, sched) <= time.pos /\ time.pos < EndOf(s, sched) /\ time.pos \in Nat
  BY <1>2, <1>3, <1>5 DEF Shows
<1>8. CASE time.pos + 1 < sched.period
  <2>1. time'.pos = time.pos + 1 /\ time'.cycle = time.cycle
    BY <1>1, <1>2, <1>8
  <2>2. CASE time.pos + 1 < EndOf(s, sched)
    <3>1. Shows(s, sched, time')
      BY <1>5, <1>7, <2>1, <2>2 DEF Shows
    <3> QED BY <1>3, <1>4, <2>1, <3>1
  <2>3. CASE time.pos + 1 = EndOf(s, sched)
    <3>1. s + 1 \in Slots(sched) /\ time'.pos = StartOf(s + 1, sched) /\ time'.pos # 0
      BY <1>5, <1>7, <1>8, <2>1, <2>3
    <3> QED BY <1>3, <1>4, <2>1, <3>1
  <2> QED BY <1>5, <1>7, <2>2, <2>3
<1>9. CASE ~(time.pos + 1 < sched.period)
  <2>1. time'.pos = 0 /\ time'.cycle # time.cycle
    BY <1>1, <1>2, <1>9
  <2>2. s + 1 \notin Slots(sched)
    BY <1>5, <1>6, <1>7, <1>9
  <2> QED BY <1>3, <1>4, <2>1, <2>2
<1> QED BY <1>8, <1>9

LEMMA PromptInductive == TdoaTyped /\ Prompt /\ [TdoaNext]_tdoaVars => Prompt'
<1> SUFFICES ASSUME TdoaTyped, Prompt, [TdoaNext]_tdoaVars PROVE Prompt'
  OBVIOUS
<1>0. EnginesTyped
  BY DEF TdoaTyped
<1>1. ASSUME UNCHANGED <<time, tdma_engine>> PROVE Prompt'
  BY <1>1 DEF Prompt, HasSlot, NextBegins, Shows
<1>2. ASSUME NEW v \in Afloat, TdoaVehicleIterates(v) PROVE Prompt'
  BY <1>0, <1>2, PromptGoesOn, TdoaNumbers DEF TdoaVehicleIterates
<1>3. CASE TdoaShoreIterates
  BY <1>0, <1>3, PromptGoesOn, TdoaNumbers DEF TdoaShoreIterates
<1>4. ASSUME NEW P, TdoaRun(P) PROVE Prompt'
  <2>1. /\ time' = time
        /\ tdma_engine' = [p \in Stations |-> IF p \in P THEN Run(SlotsOf(p), time) ELSE tdma_engine[p]]
    BY <1>4 DEF TdoaRun
  <2>2. ASSUME NEW p \in Stations, p \in P PROVE HasSlot(p)'
    <3> HIDE DEF Run
    <3> QED BY <1>0, <2>1, <2>2, RunHasSlot DEF HasSlot, Shows
  <2>3. \A p \in Stations : p \notin P => tdma_engine'[p] = tdma_engine[p]
    BY <2>1
  <2> QED BY <2>1, <2>2, <2>3 DEF Prompt, HasSlot, NextBegins, Shows
<1>5. ASSUME NEW P, TdoaStop(P) PROVE Prompt'
  <2>1. \A p \in Stations : tdma_engine'[p] = tdma_engine[p] \/ ~IsRunning(tdma_engine'[p])
    BY <1>0, <1>5 DEF TdoaStop, IsRunning, EnginesTyped
  <2> QED BY <1>5, <2>1 DEF TdoaStop, Prompt, HasSlot, NextBegins, Shows
<1>6. CASE TdoaTick
  BY <1>0, <1>6, PromptAfterTick
<1> QED BY <1>1, <1>2, <1>3, <1>4, <1>5, <1>6
        DEF TdoaNext, tdoaVars, TdoaVehicleReceives, OnWaypoint, TdoaShoreReceives

\* A sound of a vehicle began when its slot did, and is heard a unit later.
SentInSlot ==
  /\ \A s \in sounds : s.from # ShoreId => time.pos = SendsAt(s.from)
  /\ \A p \in Stations : heard[p] # <<>> /\ Head(heard[p]).from # ShoreId =>
       time.pos = SendsAt(Head(heard[p]).from) + 1

OfNow(data) == \A i \in DOMAIN data : data[i].now

\* The program has begun the cycle that the clock shows.
InCycle(p) == IsRunning(tdma_engine[p]) /\ tdma_engine[p].cycle = time.cycle

\* Only positions of this cycle are under way, or kept by vehicles that have begun it.
PositionsOfNow ==
  /\ \A s \in sounds : s.from # ShoreId => OfNow(s.data)
  /\ \A p \in Stations : heard[p] # <<>> /\ Head(heard[p]).from # ShoreId => OfNow(Head(heard[p]).data)
  /\ \A v \in Afloat : InCycle(v) => OfNow(dccl_report[v])

\* When a vehicle transmits the shore has the slot in which it waits for it, and still has it
\* when the sound arrives.
LEMMA AwaitedTimes ==
  ASSUME NEW v \in Afloat
  PROVE  /\ v \in Ids /\ v \in 1 .. 3 /\ v \in Stations /\ v # ShoreId /\ ShoreId \in Stations
         /\ IsSchedule(SlotsOf(ShoreId)) /\ IsSchedule(SlotsOf(v))
         /\ SendsAt(v) \in Nat \ {0} /\ SendsAt(v) = StartOf(v + 1, SlotsOf(v))
         /\ v + 1 \in Slots(SlotsOf(ShoreId)) /\ v + 2 \in Slots(SlotsOf(ShoreId))
         /\ StartOf(v + 1, SlotsOf(ShoreId)) \in Nat /\ StartOf(v + 1, SlotsOf(ShoreId)) <= SendsAt(v)
         /\ EndOf(v + 1, SlotsOf(ShoreId)) \in Nat /\ SendsAt(v) + 2 <= EndOf(v + 1, SlotsOf(ShoreId))
         /\ SlotsOf(ShoreId).period \in Nat /\ EndOf(v + 1, SlotsOf(ShoreId)) < SlotsOf(ShoreId).period
<1>1. v \in Ids /\ v \in 1 .. 3 /\ v \in Stations /\ v # ShoreId /\ ShoreId \in Stations
  BY TdoaNumbers DEF Ids
<1>2. SlotsOf(v) = TdoaVehicleSchedule /\ SlotsOf(ShoreId) = TdoaShoreSchedule
  BY <1>1 DEF SlotsOf
<1>3. IsSchedule(TdoaShoreSchedule) /\ IsSchedule(TdoaVehicleSchedule)
  BY <1>1, <1>2, TdoaSchedules
<1>4. /\ v + 1 \in Slots(TdoaVehicleSchedule) /\ v + 2 \in Slots(TdoaShoreSchedule)
      /\ StartOf(v + 1, TdoaShoreSchedule) <= SendsAt(v)
      /\ SendsAt(v) + 2 <= StartOf(v + 2, TdoaShoreSchedule)
  BY PositionsAwaited DEF MissedSlot, SendsAt
<1>5. v + 1 \in Slots(TdoaShoreSchedule)
  <2>1. Len(TdoaShoreSchedule.lengths) \in Nat
    BY <1>3 DEF IsSchedule
  <2> QED BY <1>1, <1>4, <2>1 DEF Slots
<1>6. v + 1 + 1 = v + 2
  BY <1>1
<1>7. /\ StartOf(v + 1, TdoaShoreSchedule) \in Nat /\ EndOf(v + 1, TdoaShoreSchedule) \in Nat
      /\ EndOf(v + 1, TdoaShoreSchedule) = StartOf(v + 2, TdoaShoreSchedule)
  BY <1>3, <1>4, <1>5, <1>6, SlotFacts
<1>8. TdoaShoreSchedule.period \in Nat /\ StartOf(v + 2, TdoaShoreSchedule) < TdoaShoreSchedule.period
  <2>1. /\ StartOf(v + 2, TdoaShoreSchedule) \in Nat /\ TdoaShoreSchedule.lengths[v + 2 + 1] \in Nat \ {0}
        /\ EndOf(v + 2, TdoaShoreSchedule)
             = StartOf(v + 2, TdoaShoreSchedule) + TdoaShoreSchedule.lengths[v + 2 + 1]
        /\ EndOf(v + 2, TdoaShoreSchedule) <= TdoaShoreSchedule.period
        /\ TdoaShoreSchedule.period \in Nat
    BY <1>3, <1>4, SlotFacts
  <2> QED BY <2>1
<1>9. SendsAt(v) \in Nat \ {0}
  <2>1. 0 \in Slots(TdoaVehicleSchedule) /\ StartOf(0, TdoaVehicleSchedule) = 0 /\ SendsAt(v) \in Nat
    BY <1>3, <1>4, SlotFacts DEF SendsAt
  <2>2. 0 < v + 1
    BY <1>1
  <2>3. StartOf(0, TdoaVehicleSchedule) < StartOf(v + 1, TdoaVehicleSchedule)
    BY <1>3, <1>4, <2>1, <2>2, StartsInOrder
  <2> QED BY <2>1, <2>3 DEF SendsAt
<1> QED BY <1>1, <1>2, <1>3, <1>4, <1>5, <1>7, <1>8, <1>9 DEF SendsAt

\* What is heard was in the water.
LEMMA HeardFromWater ==
  ASSUME WaterCarries, NEW p \in Stations, heard'[p] # <<>>
  PROVE  Head(heard'[p]) \in sounds
<1>1. CASE Hearing({})
  BY <1>1 DEF Hearing
<1>2. ASSUME Cardinality(sounds) = 1, NEW listeners, Hearing(listeners)
      PROVE  Head(heard'[p]) \in sounds
  <2>1. sounds # {}
    <3>1. Cardinality({}) = 0
      BY FS_EmptySet
    <3> QED BY <1>2, <3>1
  <2> DEFINE sound == CHOOSE s \in sounds : TRUE
  <2>2. sound \in sounds
    BY <2>1
  <2>3. heard'[p] = IF p \in listeners THEN <<sound>> ELSE <<>>
    BY <1>2 DEF Hearing
  <2> HIDE DEF sound
  <2>4. heard'[p] = <<sound>>
    BY <2>3
  <2> QED BY <2>2, <2>4
<1> QED BY <1>1, <1>2 DEF WaterCarries

\* No sound of a vehicle is in the water when a cycle ends.
LEMMA TickInSlot ==
  ASSUME TdoaTyped, SentInSlot, TdoaTick, NEW s \in sounds, s.from # ShoreId
  PROVE  s.from \in Afloat /\ time'.pos = SendsAt(s.from) + 1 /\ time.pos + 1 < SlotsOf(ShoreId).period
<1>1. s.from \in Afloat
  BY DEF TdoaTyped, IsSound, Stations
<1>2. time.pos = SendsAt(s.from)
  BY DEF SentInSlot
<1>3. /\ SendsAt(s.from) \in Nat /\ EndOf(s.from + 1, SlotsOf(ShoreId)) \in Nat
      /\ SendsAt(s.from) + 2 <= EndOf(s.from + 1, SlotsOf(ShoreId)) /\ SlotsOf(ShoreId).period \in Nat
      /\ EndOf(s.from + 1, SlotsOf(ShoreId)) < SlotsOf(ShoreId).period
  BY <1>1, AwaitedTimes
<1>4. time.pos + 1 < SlotsOf(ShoreId).period
  BY <1>2, <1>3
<1>5. time'.pos = time.pos + 1
  BY <1>4 DEF TdoaTick, TdoaTyped, EnginesTyped
<1> QED BY <1>1, <1>2, <1>4, <1>5

LEMMA SentInSlotInductive == TdoaTyped /\ Prompt /\ SentInSlot /\ [TdoaNext]_tdoaVars => SentInSlot'
<1> SUFFICES ASSUME TdoaTyped, Prompt, SentInSlot, [TdoaNext]_tdoaVars PROVE SentInSlot'
  OBVIOUS
<1>0. EnginesTyped /\ DOMAIN heard = Stations
  BY DEF TdoaTyped
<1>1. ASSUME time' = time, \A s \in sounds' \ sounds : s.from # ShoreId => time.pos = SendsAt(s.from),
             \A p \in Stations : heard'[p] \in {heard[p], <<>>}
      PROVE  SentInSlot'
  BY <1>1 DEF SentInSlot
<1>2. ASSUME NEW v \in Afloat, TdoaVehicleIterates(v) PROVE SentInSlot'
  <2> DEFINE slot == NextEngine(v).slot
             data == Saved(v, slot, Collected(v, slot))
  <2>1. /\ MustAdvance(v) /\ UNCHANGED <<time, heard>> /\ v \in Stations
        /\ sounds' = IF slot = v + 1 THEN Sounding(v, data) ELSE sounds
    BY <1>2, TdoaNumbers DEF TdoaVehicleIterates
  <2>2. time.pos = StartOf(slot, SlotsOf(v))
    BY <1>0, <2>1, TakesNextSlot
  <2> HIDE DEF slot, data
  <2>3. \A s \in sounds' \ sounds : s.from = v /\ slot = v + 1
    BY <2>1 DEF Sounding
  <2> QED BY <1>1, <2>1, <2>2, <2>3, AwaitedTimes
<1>3. CASE TdoaShoreIterates
  <2>1. UNCHANGED <<time, heard>> /\ \A s \in sounds' \ sounds : s.from = ShoreId
    BY <1>3 DEF TdoaShoreIterates, Sounding
  <2> QED BY <1>1, <2>1
<1>4. ASSUME NEW p \in Stations, UNCHANGED <<time, sounds>>, heard' = [heard EXCEPT ![p] = <<>>]
      PROVE  SentInSlot'
  BY <1>0, <1>1, <1>4
<1>5. CASE TdoaTick
  <2>1. WaterCarries /\ sounds' = {}
    BY <1>5 DEF TdoaTick, WaterCarries
  <2>2. ASSUME NEW p \in Stations, heard'[p] # <<>>, Head(heard'[p]).from # ShoreId
        PROVE  time'.pos = SendsAt(Head(heard'[p]).from) + 1
    <3>1. Head(heard'[p]) \in sounds
      BY <2>1, <2>2, HeardFromWater
    <3> QED BY <1>5, <2>2, <3>1, TickInSlot
  <2> QED BY <2>1, <2>2 DEF SentInSlot
<1>6. ASSUME UNCHANGED <<time, sounds, heard>> PROVE SentInSlot'
  BY <1>1, <1>6
<1> QED BY <1>2, <1>3, <1>4, <1>5, <1>6, TdoaNumbers
        DEF TdoaNext, tdoaVars, TdoaVehicleReceives, OnWaypoint, TdoaShoreReceives, TdoaRun, TdoaStop

PositionNow == {position \in Position : position.now}

LEMMA NowIsSeq ==
  ASSUME NEW data \in Seq(Position)
  PROVE  OfNow(data) <=> data \in Seq(PositionNow)
<1>1. Len(data) \in Nat /\ DOMAIN data = 1 .. Len(data) /\ \A i \in 1 .. Len(data) : data[i] \in Position
      /\ data = [k \in 1 .. Len(data) |-> data[k]]
  OBVIOUS
<1>2. ASSUME OfNow(data) PROVE data \in Seq(PositionNow)
  <2>1. \A i \in 1 .. Len(data) : data[i] \in PositionNow
    BY <1>1, <1>2 DEF OfNow, PositionNow
  <2>2. data \in [1 .. Len(data) -> PositionNow]
    BY <1>1, <2>1
  <2> QED BY <1>1, <2>2
<1>3. ASSUME data \in Seq(PositionNow) PROVE OfNow(data)
  <2>1. \A i \in DOMAIN data : data[i] \in PositionNow
    BY <1>3
  <2> QED BY <2>1 DEF OfNow, PositionNow
<1> QED BY <1>2, <1>3

\* With positions of this cycle a data set of this cycle stays one.
LEMMA CollectsOfNow ==
  ASSUME NEW d \in Seq(Position), NEW data \in Seq(Position), OfNow(d), OfNow(data)
  PROVE  FoldLeft(AddNew, d, data) \in Seq(Position) /\ OfNow(FoldLeft(AddNew, d, data))
<1> DEFINE D == Seq(PositionNow)
<1>1. d \in D /\ data \in Seq(PositionNow)
  BY NowIsSeq
<1>2. \A x \in D, position \in PositionNow : AddNew(x, position) \in D
  BY DEF AddNew
<1>3. D \subseteq Seq(Position)
  BY DEF PositionNow
<1> HIDE DEF D
<1>4. FoldLeft(AddNew, d, data) \in D
  BY <1>1, <1>2, CollectStays
<1>5. FoldLeft(AddNew, d, data) \in Seq(Position)
  BY <1>3, <1>4
<1> QED BY <1>4, <1>5, NowIsSeq DEF D

\* A vehicle that begins a cycle drops what it kept, and what is under way arrives within it.
LEMMA PositionsStayOfNow ==
  ASSUME TdoaTyped, Prompt, SentInSlot, ~record.ran => PositionsOfNow, [TdoaNext]_tdoaVars, ~record'.ran
  PROVE  PositionsOfNow'
<1>0. /\ EnginesTyped /\ DOMAIN heard = Stations /\ dccl_report \in [Ids -> Seq(Position)]
      /\ \A s \in sounds : IsSound(s)
      /\ \A p \in Stations : heard[p] # <<>> => IsSound(Head(heard[p]))
      /\ Afloat \subseteq Ids /\ Afloat \subseteq Stations
  BY TdoaNumbers DEF TdoaTyped
\* No position comes in: some are read, or an engine stops.
<1>1. ASSUME record'.ran = record.ran, UNCHANGED <<time, dccl_report>>,
             \A s \in sounds' \ sounds : s.from = ShoreId,
             \A p \in Stations : heard'[p] \in {heard[p], <<>>},
             \A v \in Afloat : InCycle(v)' => InCycle(v)
      PROVE  PositionsOfNow'
  <2>1. PositionsOfNow
    BY <1>1
  <2> QED BY <1>1, <2>1 DEF PositionsOfNow
<1>2. ASSUME UNCHANGED <<time, tdma_engine>> PROVE \A v \in Afloat : InCycle(v)' => InCycle(v)
  BY <1>2 DEF InCycle
<1>3. ASSUME NEW v \in Afloat, TdoaVehicleReceives(v) PROVE PositionsOfNow'
  <2> DEFINE msg == Head(heard[v])
             data == FoldLeft(AddNew, dccl_report[v], msg.data)
  <2>1. /\ heard[v] # <<>> /\ heard' = [heard EXCEPT ![v] = <<>>]
        /\ UNCHANGED <<time, tdma_engine, sounds>>
        /\ record'.ran = record.ran
        /\ UNCHANGED dccl_report \/ (msg.from # ShoreId /\ dccl_report' = [dccl_report EXCEPT ![v] = data])
    <3>1. record' = record \/ \E nr : record' = [record EXCEPT !.obeyed[v] = nr]
      BY <1>3 DEF TdoaVehicleReceives
    <3>2. record'.ran = record.ran
      BY <3>1 DEF TdoaTyped
    <3> QED BY <1>3, <3>2 DEF TdoaVehicleReceives
  <2>2. PositionsOfNow
    BY <2>1
  <2>3. \A p \in Stations : heard'[p] \in {heard[p], <<>>}
    BY <1>0, <2>1
  <2>4. ASSUME NEW u \in Afloat, InCycle(u)' PROVE OfNow(dccl_report'[u])
    <3>1. InCycle(u) /\ OfNow(dccl_report[u])
      BY <2>1, <2>2, <2>4 DEF InCycle, PositionsOfNow
    <3>2. CASE dccl_report' = dccl_report \/ u # v
      <4>1. dccl_report'[u] = dccl_report[u]
        <5> HIDE DEF data
        <5> QED BY <1>0, <2>1, <3>2
      <4> QED BY <3>1, <4>1
    <3>3. CASE dccl_report' # dccl_report /\ u = v
      <4>1. msg.from # ShoreId /\ dccl_report'[v] = data
        <5> HIDE DEF data
        <5> QED BY <1>0, <2>1, <3>3
      <4>2. OfNow(msg.data) /\ msg.data \in Seq(Position) /\ dccl_report[v] \in Seq(Position)
        BY <1>0, <2>1, <2>2, <4>1 DEF PositionsOfNow, IsSound
      <4>3. OfNow(data)
        <5> HIDE DEF msg
        <5> QED BY <3>1, <3>3, <4>2, CollectsOfNow
      <4> QED BY <3>3, <4>1, <4>3
    <3> QED BY <3>2, <3>3
  <2> QED BY <2>1, <2>2, <2>3, <2>4 DEF PositionsOfNow
<1>4. ASSUME NEW v \in Afloat, TdoaVehicleIterates(v) PROVE PositionsOfNow'
  <2> DEFINE slot == NextEngine(v).slot
             data == Saved(v, slot, Collected(v, slot))
             sends == slot = v + 1
  <2>1. /\ MustAdvance(v) /\ tdma_engine' = [tdma_engine EXCEPT ![v] = NextEngine(v)]
        /\ dccl_report' = [dccl_report EXCEPT ![v] = IF sends THEN <<>> ELSE data]
        /\ sounds' = IF sends THEN Sounding(v, data) ELSE sounds
        /\ UNCHANGED <<time, heard, record>>
        /\ v \in 1 .. 3 /\ v \in Stations /\ v # ShoreId
    BY <1>4, AwaitedTimes DEF TdoaVehicleIterates
  <2>2. PositionsOfNow
    BY <2>1
  <2>3. data \in Seq(Position) /\ OfNow(data)
    <3>1. /\ slot = IF time.pos = 0 THEN 0 ELSE tdma_engine[v].slot + 1
          /\ NextBegins(v) /\ IsRunning(tdma_engine[v])
      BY <1>0, <2>1, TakesNextSlot
    <3>2. tdma_engine[v].slot \in Slots(SlotsOf(v)) /\ IsSchedule(SlotsOf(v))
      BY <1>0, <2>1, <3>1, TdoaClock
    <3>3. tdma_engine[v].slot \in Nat
      BY <3>2, SlotFacts
    <3> DEFINE kept == Collected(v, slot)
    <3>4. kept \in Seq(Position) /\ OfNow(kept)
      <4>1. CASE slot = 0
        BY <4>1 DEF Collected, OfNow
      <4>2. CASE slot # 0
        <5>1. InCycle(v)
          BY <3>1, <4>2 DEF NextBegins, InCycle
        <5>2. OfNow(dccl_report[v]) /\ dccl_report[v] \in Seq(Position)
          BY <1>0, <2>2, <5>1 DEF PositionsOfNow
        <5> QED BY <4>2, <5>2 DEF Collected
      <4> QED BY <4>1, <4>2
    <3> DEFINE own == [id |-> v, now |-> TRUE]
    <3>5. data = IF slot = 1 THEN Append(kept, own) ELSE kept
      BY DEF Saved
    <3>6. own \in PositionNow
      BY <1>0 DEF PositionNow, Position
    <3> HIDE DEF kept, own, data
    <3>7. kept \in Seq(PositionNow)
      BY <3>4, NowIsSeq
    <3>8. data \in Seq(PositionNow)
      BY <3>5, <3>6, <3>7
    <3>9. data \in Seq(Position)
      BY <3>8 DEF PositionNow
    <3> QED BY <3>8, <3>9, NowIsSeq
  <2> HIDE DEF data, sends
  <2>4. ASSUME NEW s \in sounds', s.from # ShoreId PROVE OfNow(s.data)
    <3>1. CASE s \in sounds
      BY <2>2, <2>4, <3>1 DEF PositionsOfNow
    <3>2. CASE s \notin sounds
      <4>1. s \in Sounding(v, data) \ sounds
        BY <2>1, <3>2
      <4>2. s.data = Encoded(data) /\ \A i \in DOMAIN Encoded(data) : i \in DOMAIN data /\ Encoded(data)[i] = data[i]
        BY <2>1, <2>3, <4>1, SoundingType
      <4> QED BY <2>3, <4>2 DEF OfNow
    <3> QED BY <3>1, <3>2
  <2>5. ASSUME NEW u \in Afloat, InCycle(u)' PROVE OfNow(dccl_report'[u])
    <3>1. CASE u = v
      <4>1. dccl_report'[u] \in {<<>>, data}
        BY <1>0, <2>1, <3>1
      <4> QED BY <2>3, <4>1 DEF OfNow
    <3>2. CASE u # v
      <4>1. tdma_engine'[u] = tdma_engine[u] /\ dccl_report'[u] = dccl_report[u]
        BY <1>0, <2>1, <3>2 DEF EnginesTyped
      <4>2. InCycle(u)
        BY <2>1, <2>5, <4>1 DEF InCycle
      <4> QED BY <2>2, <4>1, <4>2 DEF PositionsOfNow
    <3> QED BY <3>1, <3>2
  <2> QED BY <2>1, <2>2, <2>4, <2>5 DEF PositionsOfNow
<1>5. ASSUME NEW v \in Afloat, OnWaypoint(v) PROVE PositionsOfNow'
  BY <1>1, <1>2, <1>5 DEF OnWaypoint
<1>6. CASE TdoaShoreReceives
  <2>1. heard' = [heard EXCEPT ![ShoreId] = <<>>] /\ record'.ran = record.ran
        /\ UNCHANGED <<time, tdma_engine, dccl_report, sounds>>
    BY <1>6 DEF TdoaShoreReceives, Posting, TdoaTyped
  <2>2. \A p \in Stations : heard'[p] \in {heard[p], <<>>}
    BY <1>0, <2>1
  <2> QED BY <1>1, <1>2, <2>1, <2>2
<1>7. CASE TdoaShoreIterates
  <2>1. /\ tdma_engine' = [tdma_engine EXCEPT ![ShoreId] = NextEngine(ShoreId)]
        /\ UNCHANGED <<time, dccl_report, heard>>
        /\ \A s \in sounds' \ sounds : s.from = ShoreId
    BY <1>7 DEF TdoaShoreIterates, Sounding
  <2>1a. record'.ran = record.ran
    BY <1>7 DEF TdoaShoreIterates, Posting, TdoaTyped
  <2>2. \A v \in Afloat : tdma_engine'[v] = tdma_engine[v]
    BY <1>0, <2>1, TdoaNumbers DEF EnginesTyped
  <2>3. \A v \in Afloat : InCycle(v)' => InCycle(v)
    BY <2>1, <2>2 DEF InCycle
  <2> QED BY <1>1, <2>1, <2>1a, <2>3
<1>8. ASSUME NEW P, TdoaRun(P) PROVE FALSE
  BY <1>8 DEF TdoaRun, TdoaTyped
<1>9. ASSUME NEW P, TdoaStop(P) PROVE PositionsOfNow'
  <2>1. \A v \in Afloat : tdma_engine'[v] = tdma_engine[v] \/ ~IsRunning(tdma_engine'[v])
    BY <1>0, <1>9 DEF TdoaStop, IsRunning, EnginesTyped
  <2>2. \A v \in Afloat : InCycle(v)' => InCycle(v)
    BY <1>9, <2>1 DEF InCycle, TdoaStop
  <2> QED BY <1>1, <1>9, <2>2 DEF TdoaStop
<1>10. CASE TdoaTick
  <2>1. WaterCarries /\ sounds' = {} /\ UNCHANGED tdma_engine /\ \A p \in Stations : ~MustAdvance(p)
    BY <1>10 DEF TdoaTick, WaterCarries
  <2>2. CASE time.pos + 1 < SlotsOf(ShoreId).period
    <3>1. UNCHANGED <<dccl_report, record>> /\ time'.cycle = time.cycle
      BY <1>10, <2>2 DEF TdoaTick, TdoaTyped, EnginesTyped
    <3>2. PositionsOfNow
      BY <3>1
    <3>3. \A v \in Afloat : InCycle(v)' => InCycle(v)
      BY <2>1, <3>1 DEF InCycle
    <3>4. \A p \in Stations : heard'[p] # <<>> => Head(heard'[p]) \in sounds
      BY <2>1, HeardFromWater
    <3> QED BY <2>1, <3>1, <3>2, <3>3, <3>4 DEF PositionsOfNow
  <2>3. CASE ~(time.pos + 1 < SlotsOf(ShoreId).period)
    <3>1. time'.cycle = 1 - time.cycle /\ time.cycle \in {0, 1}
      BY <1>10, <2>3 DEF TdoaTick, TdoaTyped, EnginesTyped
    <3>2. \A v \in Afloat : ~InCycle(v)'
      <4>1. \A v \in Afloat : IsRunning(tdma_engine[v]) => tdma_engine[v].cycle = time.cycle
        BY <1>0, <2>1, RestsInItsSlot DEF HasSlot
      <4> QED BY <2>1, <3>1, <4>1 DEF InCycle
    <3>3. ASSUME NEW p \in Stations, heard'[p] # <<>>, Head(heard'[p]).from # ShoreId PROVE FALSE
      <4>1. Head(heard'[p]) \in sounds
        BY <2>1, <3>3, HeardFromWater
      <4> QED BY <1>10, <2>3, <3>3, <4>1, TickInSlot
    <3> QED BY <2>1, <3>2, <3>3 DEF PositionsOfNow
  <2> QED BY <2>2, <2>3
<1>11. CASE UNCHANGED tdoaVars
  BY <1>1, <1>2, <1>11 DEF tdoaVars
<1> QED BY <1>3, <1>4, <1>5, <1>6, <1>7, <1>8, <1>9, <1>10, <1>11 DEF TdoaNext

\* In this cycle the tracker has got a report for the slot of v.
ReportedFor(v) == \E i \in DOMAIN record.posted : record.posted[i].slot = v

\* The shore has received in the slot in which it waits for a vehicle, after that one transmitted.
HeardInSlot ==
  tdoa_shore.got_receive =>
    /\ heard[ShoreId] = <<>>
    /\ \E v \in Afloat : tdma_engine[ShoreId].slot = v + 1 /\ time.pos > SendsAt(v)

OneReportOfSlot ==
  \A v \in Ids :
    /\ \A i, j \in DOMAIN record.posted :
         record.posted[i].slot = v /\ record.posted[j].slot = v => i = j
    /\ ReportedFor(v) <=> \/ tdma_engine[ShoreId].slot >= MissedSlot(v)
                          \/ tdma_engine[ShoreId].slot = v + 1 /\ tdoa_shore.got_receive

OnePositionOfEach ==
  \A i \in DOMAIN record.posted :
    LET positions == record.posted[i].positions IN
      /\ record.posted[i].now /\ OfNow(positions)
      /\ \A k \in DOMAIN positions :
           /\ positions[k].id \in tdoa_shore.sent_reports
           /\ \A j \in DOMAIN record.posted :
                \A l \in DOMAIN record.posted[j].positions :
                  record.posted[j].positions[l].id = positions[k].id => <<j, l>> = <<i, k>>

\* Of a shore that runs: nothing is posted until it begins the cycle.
Serving ==
  IF tdma_engine[ShoreId].cycle = time.cycle
  THEN tdoa_shore.now /\ HeardInSlot /\ OneReportOfSlot /\ OnePositionOfEach
  ELSE record.posted = <<>>

\* The shore has the slot of the vehicle whose sound is in the water or in its mail.
LEMMA ShoreAwaits ==
  ASSUME EnginesTyped, Prompt, IsRunning(tdma_engine[ShoreId]), NEW u \in Afloat,
         time.pos = SendsAt(u) + 1 \/ (time.pos = SendsAt(u) /\ ~MustAdvance(ShoreId))
  PROVE  tdma_engine[ShoreId].slot = u + 1 /\ tdma_engine[ShoreId].cycle = time.cycle
<1> DEFINE e == tdma_engine[ShoreId]
           sched == SlotsOf(ShoreId)
<1>1. /\ IsSchedule(sched) /\ time \in [cycle : Int, pos : 0 .. sched.period - 1]
      /\ e.slot \in Slots(sched) /\ ShoreId \in Stations
  BY TdoaClock, TdoaNumbers
<1>2. /\ u + 1 \in Slots(sched) /\ StartOf(u + 1, sched) \in Nat /\ SendsAt(u) \in Nat
      /\ StartOf(u + 1, sched) <= SendsAt(u) /\ SendsAt(u) + 2 <= EndOf(u + 1, sched)
      /\ EndOf(u + 1, sched) \in Nat
  BY AwaitedTimes
<1>3. HasSlot(ShoreId) \/ (NextBegins(ShoreId) /\ time.pos = SendsAt(u) + 1)
  BY <1>1, RestsInItsSlot DEF Prompt
<1>4. /\ HasSlot(ShoreId) <=> Shows(e.slot, sched, time) /\ e.cycle = time.cycle
      /\ NextBegins(ShoreId) /\ time.pos # 0 => e.slot + 1 \in Slots(sched) /\ time.pos = StartOf(e.slot + 1, sched)
  BY DEF HasSlot, NextBegins
<1> HIDE DEF e, sched
<1>5. Shows(u + 1, sched, time)
  BY <1>2 DEF Shows
<1>6. CASE HasSlot(ShoreId)
  BY <1>1, <1>2, <1>4, <1>5, <1>6, OneSlotShown DEF e
<1>7. CASE NextBegins(ShoreId) /\ time.pos = SendsAt(u) + 1
  <2>1. e.slot + 1 \in Slots(sched) /\ time.pos = StartOf(e.slot + 1, sched)
    BY <1>2, <1>4, <1>7
  <2>2. /\ EndOf(e.slot + 1, sched) = StartOf(e.slot + 1, sched) + sched.lengths[e.slot + 1 + 1]
        /\ sched.lengths[e.slot + 1 + 1] \in Nat \ {0} /\ StartOf(e.slot + 1, sched) \in Nat
    BY <1>1, <2>1, SlotFacts
  <2>3. Shows(e.slot + 1, sched, time)
    BY <2>1, <2>2 DEF Shows
  <2>4. e.slot + 1 = u + 1
    BY <1>1, <1>2, <1>5, <2>1, <2>3, OneSlotShown
  <2>5. StartOf(u + 1, sched) = SendsAt(u) + 1
    BY <1>7, <2>1, <2>4
  <2> QED BY <1>2, <2>5
<1> QED BY <1>3, <1>6, <1>7

\* What the shore posts is new to it, each vehicle's position once.
Unreported(data) ==
  /\ \A i \in DOMAIN data : data[i].id \notin tdoa_shore.sent_reports
  /\ \A i, j \in DOMAIN data : data[i].id = data[j].id => i = j

LEMMA ReportsOfNow ==
  ASSUME NEW data \in Seq(Position), OfNow(data)
  PROVE  LET new == FoldLeft(AddUnreported, <<>>, data) IN
           new \in Seq(Position) /\ OfNow(new) /\ Unreported(new)
<1> DEFINE D == {d \in Seq(PositionNow) : Unreported(d)}
           new == FoldLeft(AddUnreported, <<>>, data)
<1>1. data \in Seq(PositionNow)
  BY NowIsSeq
<1>2. ASSUME NEW x \in D, NEW position \in PositionNow PROVE AddUnreported(x, position) \in D
  <2> DEFINE more == Append(x, position)
  <2>1. CASE position.id \in tdoa_shore.sent_reports \/ position.id \in WhoseIn(x)
    <3>1. AddUnreported(x, position) = x
      BY <2>1 DEF AddUnreported, AddNew
    <3> QED BY <3>1
  <2>2. CASE position.id \notin tdoa_shore.sent_reports /\ position.id \notin WhoseIn(x)
    <3>1. AddUnreported(x, position) = more
      BY <2>2 DEF AddUnreported, AddNew
    <3>2. x \in Seq(PositionNow) /\ Unreported(x)
      BY <1>2
    <3>3. /\ more \in Seq(PositionNow) /\ Len(x) \in Nat /\ DOMAIN x = 1 .. Len(x)
          /\ DOMAIN more = 1 .. Len(x) + 1
          /\ \A i \in 1 .. Len(x) : more[i] = x[i]
          /\ more[Len(x) + 1] = position
      BY <3>2
    <3> HIDE DEF more
    <3>4. \A i \in DOMAIN x : x[i].id # position.id
      BY <2>2 DEF WhoseIn
    <3>5. \A i \in 1 .. Len(x) + 1 : i \in 1 .. Len(x) \/ i = Len(x) + 1
      BY <3>3
    <3>6. Unreported(more)
      BY <2>2, <3>2, <3>3, <3>4, <3>5 DEF Unreported
    <3> QED BY <3>1, <3>3, <3>6
  <2> QED BY <2>1, <2>2
<1>3. <<>> \in D
  BY DEF Unreported
<1>4. \A d \in D : d \in Seq(PositionNow) /\ Unreported(d)
  OBVIOUS
<1> HIDE DEF D
<1>5. new \in D
  BY <1>1, <1>2, <1>3, ReportStays
<1> HIDE DEF new
<1>6. new \in Seq(PositionNow) /\ Unreported(new)
  BY <1>4, <1>5
<1>7. new \in Seq(Position)
  BY <1>6 DEF PositionNow
<1> QED BY <1>6, <1>7, NowIsSeq DEF new

\* A report goes to the end of those posted.
LEMMA PostedLast ==
  ASSUME TdoaTyped, NEW slot, NEW positions, NEW now, Posting(slot, positions, now)
  PROVE  LET n == Len(record.posted) IN
           /\ n \in Nat /\ DOMAIN record.posted = 1 .. n /\ DOMAIN record'.posted = 1 .. n + 1
           /\ \A i \in 1 .. n : record'.posted[i] = record.posted[i]
           /\ record'.posted[n + 1].slot = slot /\ record'.posted[n + 1].positions = positions
           /\ record'.posted[n + 1].now = now
           /\ record'.ran = record.ran
<1> DEFINE r == [slot |-> slot, positions |-> positions, now |-> now]
           old == record.posted
           R == [slot : 0 .. 3, positions : Seq(Position), now : BOOLEAN]
<1>1. record' = [record EXCEPT !.posted = Append(old, r)]
  BY DEF Posting
<1>2. record \in [ran : BOOLEAN, posted : Seq(R), obeyed : [Ids -> 0 .. TdoaMaxCommands]]
  BY DEF TdoaTyped
<1> HIDE DEF r, R
<1>3. old \in Seq(R) /\ record'.posted = Append(old, r) /\ record'.ran = record.ran
  BY <1>1, <1>2
<1> HIDE DEF old
<1>4. /\ Len(old) \in Nat /\ DOMAIN old = 1 .. Len(old) /\ DOMAIN Append(old, r) = 1 .. Len(old) + 1
      /\ \A i \in 1 .. Len(old) : Append(old, r)[i] = old[i]
      /\ Append(old, r)[Len(old) + 1] = r
  BY <1>3
<1>5. r.slot = slot /\ r.positions = positions /\ r.now = now
  BY DEF r
<1> QED BY <1>3, <1>4, <1>5 DEF old

\* A report of new positions, or of none, keeps those of each vehicle apart.
LEMMA PositionsPosted ==
  ASSUME TdoaTyped, OnePositionOfEach, NEW slot, NEW new, Posting(slot, new, TRUE),
         OfNow(new), Unreported(new),
         tdoa_shore'.sent_reports = tdoa_shore.sent_reports \cup WhoseIn(new)
  PROVE  OnePositionOfEach'
<1> DEFINE n == Len(record.posted)
<1>1. /\ n \in Nat /\ DOMAIN record.posted = 1 .. n /\ DOMAIN record'.posted = 1 .. n + 1
      /\ \A i \in 1 .. n : record'.posted[i] = record.posted[i]
      /\ record'.posted[n + 1].positions = new /\ record'.posted[n + 1].now
  BY PostedLast
<1> HIDE DEF n
<1>2. \A i \in 1 .. n + 1 : (i \in 1 .. n /\ i # n + 1) \/ i = n + 1
  BY <1>1
<1>3. /\ \A k \in DOMAIN new : new[k].id \notin tdoa_shore.sent_reports /\ new[k].id \in tdoa_shore'.sent_reports
      /\ \A k, l \in DOMAIN new : new[k].id = new[l].id => k = l
  BY DEF Unreported, WhoseIn
<1>4. ASSUME NEW i \in 1 .. n
      PROVE  /\ record.posted[i].now /\ OfNow(record.posted[i].positions)
             /\ \A k \in DOMAIN record.posted[i].positions :
                  /\ record.posted[i].positions[k].id \in tdoa_shore.sent_reports
                  /\ \A j \in 1 .. n : \A l \in DOMAIN record.posted[j].positions :
                       record.posted[j].positions[l].id = record.posted[i].positions[k].id => <<j, l>> = <<i, k>>
  BY <1>1 DEF OnePositionOfEach
<1>5. ASSUME NEW i \in 1 .. n + 1
      PROVE  /\ record'.posted[i].now /\ OfNow(record'.posted[i].positions)
             /\ \A k \in DOMAIN record'.posted[i].positions :
                  /\ record'.posted[i].positions[k].id \in tdoa_shore'.sent_reports
                  /\ \A j \in 1 .. n + 1 : \A l \in DOMAIN record'.posted[j].positions :
                       record'.posted[j].positions[l].id = record'.posted[i].positions[k].id => <<j, l>> = <<i, k>>
  <2>1. CASE i = n + 1
    BY <1>1, <1>2, <1>3, <1>4, <2>1
  <2>2. CASE i # n + 1
    BY <1>1, <1>2, <1>3, <1>4, <2>2
  <2> QED BY <2>1, <2>2
<1> QED BY <1>1, <1>5 DEF OnePositionOfEach, OfNow

\* A report for a slot without one.
LEMMA SlotReported ==
  ASSUME TdoaTyped, OneReportOfSlot, NEW slot, NEW new, NEW now, Posting(slot, new, now),
         slot \in Ids => ~ReportedFor(slot)
  PROVE  \A v \in Ids :
           /\ \A i, j \in DOMAIN record'.posted :
                record'.posted[i].slot = v /\ record'.posted[j].slot = v => i = j
           /\ ReportedFor(v)' <=> ReportedFor(v) \/ v = slot
<1> DEFINE n == Len(record.posted)
<1>1. /\ n \in Nat /\ DOMAIN record.posted = 1 .. n /\ DOMAIN record'.posted = 1 .. n + 1
      /\ \A i \in 1 .. n : record'.posted[i] = record.posted[i]
      /\ record'.posted[n + 1].slot = slot
  BY PostedLast
<1> HIDE DEF n
<1>2. /\ \A i \in 1 .. n + 1 : i \in 1 .. n \/ i = n + 1
      /\ \A i \in 1 .. n : i \in 1 .. n + 1
      /\ n + 1 \in 1 .. n + 1
  BY <1>1
<1> TAKE v \in Ids
<1>3. ReportedFor(v) <=> \E i \in 1 .. n : record.posted[i].slot = v
  BY <1>1 DEF ReportedFor
<1>4. ReportedFor(v)' <=> \E i \in 1 .. n + 1 : record'.posted[i].slot = v
  BY <1>1 DEF ReportedFor
<1>5. \A i, j \in 1 .. n : record.posted[i].slot = v /\ record.posted[j].slot = v => i = j
  BY <1>1 DEF OneReportOfSlot
<1> QED BY <1>1, <1>2, <1>3, <1>4, <1>5

\* The inductive invariant.  RUN makes a vehicle begin a cycle with the positions of an older
\* one, so that what is of this cycle is known until RUN comes.
Tracking ==
  /\ TdoaTyped /\ Prompt /\ SentInSlot
  /\ ~record.ran => PositionsOfNow /\ (IsRunning(tdma_engine[ShoreId]) => Serving)

\* A step that the tracker and the shore's engine do not notice.
LEMMA ServingStays ==
  ASSUME Serving, heard'[ShoreId] = heard[ShoreId], tdma_engine'[ShoreId] = tdma_engine[ShoreId],
         UNCHANGED <<time, record.posted, tdoa_shore.now, tdoa_shore.sent_reports, tdoa_shore.got_receive>>
  PROVE  Serving'
<1>1. ReportedFor(1)' = ReportedFor(1) /\ \A v \in Ids : ReportedFor(v)' <=> ReportedFor(v)
  BY DEF ReportedFor
<1>2. HeardInSlot => HeardInSlot'
  BY DEF HeardInSlot
<1>3. OneReportOfSlot => OneReportOfSlot'
  BY <1>1 DEF OneReportOfSlot
<1>4. OnePositionOfEach => OnePositionOfEach'
  BY DEF OnePositionOfEach
<1> QED BY <1>2, <1>3, <1>4 DEF Serving

\* What a vehicle has sent in its slot is posted for its slot.
LEMMA ServingReceives ==
  ASSUME Tracking, ~record.ran, IsRunning(tdma_engine[ShoreId]), TdoaShoreReceives
  PROVE  Serving'
<1> DEFINE msg == Head(heard[ShoreId])
           new == FoldLeft(AddUnreported, <<>>, msg.data)
           u == msg.from
<1>1. /\ heard[ShoreId] # <<>> /\ heard' = [heard EXCEPT ![ShoreId] = <<>>]
      /\ Posting(u, new, tdoa_shore.now)
      /\ tdoa_shore' = [tdoa_shore EXCEPT !.sent_reports = @ \cup WhoseIn(new), !.got_receive = TRUE]
      /\ UNCHANGED <<time, tdma_engine>>
  BY DEF TdoaShoreReceives
<1>2. /\ TdoaTyped /\ EnginesTyped /\ Prompt /\ SentInSlot /\ PositionsOfNow /\ Serving
      /\ ShoreId \in Stations /\ DOMAIN heard = Stations /\ tdoa_shore \in TdoaShoreState
  BY TdoaNumbers DEF Tracking, TdoaTyped
<1>3. IsSound(msg) /\ msg.from # ShoreId
  BY <1>1, <1>2 DEF TdoaTyped
<1>4. u \in Afloat /\ msg.data \in Seq(Position)
  BY <1>3 DEF IsSound, Stations
<1>5. time.pos = SendsAt(u) + 1 /\ OfNow(msg.data)
  BY <1>1, <1>2, <1>3 DEF SentInSlot, PositionsOfNow
<1>6. tdma_engine[ShoreId].slot = u + 1 /\ tdma_engine[ShoreId].cycle = time.cycle
  BY <1>2, <1>4, <1>5, ShoreAwaits
<1>7. new \in Seq(Position) /\ OfNow(new) /\ Unreported(new)
  <2> HIDE DEF msg
  <2> QED BY <1>4, <1>5, ReportsOfNow
<1> HIDE DEF new, msg, u
<1>8. /\ tdoa_shore.now /\ HeardInSlot /\ OneReportOfSlot /\ OnePositionOfEach
      /\ tdoa_shore.now \in BOOLEAN
  BY <1>2, <1>6 DEF Serving, TdoaShoreState
<1>9. ~tdoa_shore.got_receive
  BY <1>1, <1>8 DEF HeardInSlot
<1>10. /\ tdoa_shore'.got_receive /\ tdoa_shore'.now = tdoa_shore.now
       /\ tdoa_shore'.sent_reports = tdoa_shore.sent_reports \cup WhoseIn(new)
       /\ heard'[ShoreId] = <<>>
  BY <1>1, <1>2 DEF TdoaShoreState
<1>11. /\ u \in Ids /\ u \in 1 .. 3 /\ SendsAt(u) \in Nat
       /\ \A v \in Ids : v \in 1 .. 3
  BY <1>4, AwaitedTimes DEF Ids
<1>12. HeardInSlot'
  <2>1. time.pos > SendsAt(u)
    BY <1>5, <1>11
  <2> QED BY <1>1, <1>4, <1>6, <1>10, <2>1 DEF HeardInSlot
<1>13. OneReportOfSlot'
  <2>1. ~ReportedFor(u)
    BY <1>6, <1>8, <1>9, <1>11 DEF OneReportOfSlot, MissedSlot
  <2>2. \A v \in Ids :
          /\ \A i, j \in DOMAIN record'.posted :
               record'.posted[i].slot = v /\ record'.posted[j].slot = v => i = j
          /\ ReportedFor(v)' <=> ReportedFor(v) \/ v = u
    BY <1>1, <1>2, <1>8, <2>1, SlotReported
  <2>3. ASSUME NEW v \in Ids
        PROVE  ReportedFor(v)' <=> u + 1 >= MissedSlot(v) \/ u + 1 = v + 1
    <3>1. ReportedFor(v) <=> u + 1 >= MissedSlot(v)
      BY <1>6, <1>8, <1>9 DEF OneReportOfSlot
    <3> QED BY <1>11, <2>2, <3>1
  <2> QED BY <1>1, <1>6, <1>10, <2>2, <2>3 DEF OneReportOfSlot
<1>14. OnePositionOfEach'
  <2>1. Posting(u, new, TRUE)
    BY <1>1, <1>8
  <2> QED BY <1>2, <1>7, <1>8, <1>10, <2>1, PositionsPosted
<1> QED BY <1>1, <1>6, <1>8, <1>10, <1>12, <1>13, <1>14 DEF Serving

\* In each slot the shore posts a failure if nothing has come in the one before; in the first
\* it begins anew.
LEMMA ServingIterates ==
  ASSUME Tracking, ~record.ran, IsRunning(tdma_engine[ShoreId]), TdoaShoreIterates
  PROVE  Serving'
<1> DEFINE slot == NextEngine(ShoreId).slot
           cleared == IF slot = 4 THEN [tdoa_shore EXCEPT !.dccl_command = <<>>] ELSE tdoa_shore
           begun == IF slot = 0 THEN [cleared EXCEPT !.sent_reports = {}, !.now = TRUE] ELSE cleared
           after == IF slot = 6 THEN AfterCommand(begun) ELSE begun
           missed == {v \in Ids : slot = MissedSlot(v) /\ ~tdoa_shore.got_receive}
           s == tdma_engine[ShoreId].slot
<1>1. /\ MustAdvance(ShoreId)
      /\ tdma_engine' = [tdma_engine EXCEPT ![ShoreId] = NextEngine(ShoreId)]
      /\ tdoa_shore' = [after EXCEPT !.got_receive = FALSE]
      /\ \/ slot = 1 /\ Posting(0, <<>>, begun.now)
         \/ \E v \in missed : Posting(v, <<>>, begun.now)
         \/ slot # 1 /\ missed = {} /\ UNCHANGED record
      /\ UNCHANGED <<time, heard>>
  BY DEF TdoaShoreIterates
<1>2. /\ TdoaTyped /\ EnginesTyped /\ Prompt /\ Serving
      /\ ShoreId \in Stations /\ tdoa_shore \in TdoaShoreState /\ \A v \in Ids : v \in 1 .. 3
  BY TdoaNumbers DEF Tracking, TdoaTyped, Ids
<1>3. /\ slot = IF time.pos = 0 THEN 0 ELSE s + 1
      /\ NextEngine(ShoreId).cycle = time.cycle /\ NextBegins(ShoreId)
  BY <1>1, <1>2, TakesNextSlot
<1>4. s \in Nat
  <2>1. IsSchedule(SlotsOf(ShoreId)) /\ s \in Slots(SlotsOf(ShoreId))
    BY <1>2, TdoaClock
  <2> HIDE DEF s
  <2> QED BY <2>1, SlotFacts
<1>5. /\ ~tdoa_shore'.got_receive
      /\ begun.now = (slot = 0 \/ tdoa_shore.now) /\ tdoa_shore'.now = begun.now
      /\ tdoa_shore'.sent_reports = IF slot = 0 THEN {} ELSE tdoa_shore.sent_reports
  BY <1>1, <1>2 DEF TdoaShoreState, AfterCommand
<1>6. tdma_engine'[ShoreId].slot = slot /\ tdma_engine'[ShoreId].cycle = time'.cycle
  BY <1>1, <1>2, <1>3 DEF EnginesTyped
<1>7. HeardInSlot'
  BY <1>5 DEF HeardInSlot
<1>8. CASE time.pos = 0
  <2>1. slot = 0 /\ tdma_engine[ShoreId].cycle # time.cycle
    BY <1>3, <1>8 DEF NextBegins
  <2>2. missed = {}
    BY <1>2, <2>1 DEF MissedSlot
  <2> HIDE DEF slot, begun, missed
  <2>3. record' = record /\ record.posted = <<>>
    BY <1>1, <1>2, <2>1, <2>2 DEF Serving
  <2>4. OneReportOfSlot' /\ OnePositionOfEach'
    <3>1. DOMAIN record'.posted = {}
      BY <2>3
    <3>2. \A v \in Ids : ~ReportedFor(v)' /\ ~(slot >= MissedSlot(v))
      BY <1>2, <2>1, <3>1 DEF ReportedFor, MissedSlot
    <3> QED BY <1>5, <1>6, <3>1, <3>2 DEF OneReportOfSlot, OnePositionOfEach
  <2> QED BY <1>5, <1>6, <1>7, <2>1, <2>4 DEF Serving
<1>9. CASE time.pos # 0
  <2>1. slot = s + 1 /\ slot # 0 /\ tdma_engine[ShoreId].cycle = time.cycle
    BY <1>3, <1>4, <1>9 DEF NextBegins
  <2>2. /\ tdoa_shore.now /\ HeardInSlot /\ OneReportOfSlot /\ OnePositionOfEach
    BY <1>2, <2>1 DEF Serving
  <2>3. \A v \in missed : v \in Ids /\ slot = MissedSlot(v) /\ ~tdoa_shore.got_receive
    OBVIOUS
  <2>4. \A v \in Ids : v \notin missed /\ slot = MissedSlot(v) => tdoa_shore.got_receive
    OBVIOUS
  <2> HIDE DEF slot, begun, missed, s
  <2>5. begun.now = TRUE /\ tdoa_shore'.sent_reports = tdoa_shore.sent_reports
    BY <1>5, <2>1, <2>2
  <2>6. \A v \in Ids : ReportedFor(v) <=> s >= v + 2 \/ (s = v + 1 /\ tdoa_shore.got_receive)
    BY <2>2 DEF OneReportOfSlot, MissedSlot, s
  <2>7. ASSUME NEW w, Posting(w, <<>>, begun.now), (w = 0 /\ slot = 1) \/ w \in missed
        PROVE  OneReportOfSlot' /\ OnePositionOfEach'
    <3>1. w \in Ids => ~ReportedFor(w) /\ slot = w + 2
      <4> SUFFICES ASSUME w \in Ids PROVE ~ReportedFor(w) /\ slot = w + 2
        OBVIOUS
      <4>1. w \in 1 .. 3 /\ slot = w + 2 /\ ~tdoa_shore.got_receive
        BY <1>2, <2>3, <2>7 DEF MissedSlot
      <4>2. ~(s >= w + 2)
        BY <1>4, <2>1, <4>1
      <4> QED BY <2>6, <4>1, <4>2
    <3>2. \A v \in Ids :
            /\ \A i, j \in DOMAIN record'.posted :
                 record'.posted[i].slot = v /\ record'.posted[j].slot = v => i = j
            /\ ReportedFor(v)' <=> ReportedFor(v) \/ v = w
      BY <1>2, <2>2, <2>7, <3>1, SlotReported
    <3>3. ASSUME NEW v \in Ids PROVE ReportedFor(v)' <=> slot >= MissedSlot(v)
      <4>1. v \in 1 .. 3
        BY <1>2
      <4>2. v = w => slot >= v + 2
        BY <3>1, <4>1
      <4>3. slot = v + 2 => v = w \/ tdoa_shore.got_receive
        <5>1. slot = 1 => slot # v + 2
          BY <4>1
        <5>2. w \in missed => slot = w + 2 /\ w \in 1 .. 3
          BY <1>2, <2>3 DEF MissedSlot
        <5>3. w \in missed /\ slot = v + 2 => v = w
          BY <4>1, <5>2
        <5> QED BY <2>7, <5>1, <5>3
      <4>4. ReportedFor(v)' <=> s >= v + 2 \/ (s = v + 1 /\ tdoa_shore.got_receive) \/ v = w
        BY <2>6, <3>2
      <4>5. slot >= v + 2 <=> s >= v + 2 \/ slot = v + 2
        BY <1>4, <2>1, <4>1
      <4>6. s = v + 1 <=> slot = v + 2
        BY <1>4, <2>1, <4>1
      <4> QED BY <4>2, <4>3, <4>4, <4>5, <4>6 DEF MissedSlot
    <3>4. OneReportOfSlot'
      BY <1>5, <1>6, <3>2, <3>3 DEF OneReportOfSlot
    <3>5. OnePositionOfEach'
      <4>1. OfNow(<<>>) /\ Unreported(<<>>) /\ WhoseIn(<<>>) = {}
        BY DEF OfNow, Unreported, WhoseIn
      <4>2. tdoa_shore'.sent_reports = tdoa_shore.sent_reports \cup WhoseIn(<<>>)
        BY <2>5, <4>1
      <4>3. Posting(w, <<>>, TRUE)
        BY <2>5, <2>7
      <4> QED BY <1>2, <2>2, <4>1, <4>2, <4>3, PositionsPosted
    <3> QED BY <3>4, <3>5
  <2>8. ASSUME missed = {}, UNCHANGED record PROVE OneReportOfSlot' /\ OnePositionOfEach'
    <3>1. ASSUME NEW v \in Ids PROVE ReportedFor(v)' <=> slot >= MissedSlot(v)
      <4>1. v \in 1 .. 3
        BY <1>2
      <4>2. ReportedFor(v)' <=> s >= v + 2 \/ (s = v + 1 /\ tdoa_shore.got_receive)
        BY <2>6, <2>8 DEF ReportedFor
      <4>3. slot = v + 2 => tdoa_shore.got_receive
        BY <2>4, <2>8 DEF MissedSlot
      <4>4. slot >= v + 2 <=> s >= v + 2 \/ slot = v + 2
        BY <1>4, <2>1, <4>1
      <4>5. s = v + 1 <=> slot = v + 2
        BY <1>4, <2>1, <4>1
      <4> QED BY <4>2, <4>3, <4>4, <4>5 DEF MissedSlot
    <3>2. OneReportOfSlot'
      BY <1>5, <1>6, <2>2, <2>8, <3>1 DEF OneReportOfSlot
    <3>3. OnePositionOfEach'
      BY <2>2, <2>5, <2>8 DEF OnePositionOfEach
    <3> QED BY <3>2, <3>3
  <2>9. OneReportOfSlot' /\ OnePositionOfEach'
    <3>1. CASE slot = 1 /\ Posting(0, <<>>, begun.now)
      BY <2>7, <3>1
    <3>2. ASSUME NEW v \in missed, Posting(v, <<>>, begun.now)
          PROVE  OneReportOfSlot' /\ OnePositionOfEach'
      BY <2>7, <3>2
    <3>3. \/ slot = 1 /\ Posting(0, <<>>, begun.now)
          \/ \E v \in missed : Posting(v, <<>>, begun.now)
          \/ missed = {} /\ UNCHANGED record
      BY <1>1
    <3> QED BY <2>8, <3>1, <3>2, <3>3
  <2>10. tdoa_shore'.now
    BY <1>5, <2>5
  <2> QED BY <1>6, <1>7, <2>9, <2>10 DEF Serving
<1> QED BY <1>8, <1>9

\* A sound that arrives is that of the vehicle whose slot the shore has; when a cycle ends
\* nothing of it is left.
LEMMA ServingTicks ==
  ASSUME Tracking, TdoaTyped', IsRunning(tdma_engine[ShoreId]), TdoaTick, ~record'.ran
  PROVE  Serving'
<1>1. /\ TdoaTyped /\ EnginesTyped /\ Prompt /\ SentInSlot /\ ShoreId \in Stations
  BY TdoaNumbers DEF Tracking, TdoaTyped
<1>2. /\ ~MustAdvance(ShoreId) /\ WaterCarries /\ tdma_engine' = tdma_engine
  BY <1>1 DEF TdoaTick
<1>3. tdma_engine[ShoreId].cycle = time.cycle
  BY <1>1, <1>2, RestsInItsSlot DEF HasSlot
<1>4. CASE time.pos + 1 < SlotsOf(ShoreId).period
  <2>1. /\ time'.cycle = time.cycle /\ time'.pos = time.pos + 1 /\ UNCHANGED <<tdoa_shore, record>>
        /\ time.pos \in Nat
    <3>1. SlotsOf(ShoreId).period \in Nat /\ time.pos \in 0 .. SlotsOf(ShoreId).period - 1
      BY <1>1, TdoaClock, TdoaSchedules DEF IsSchedule, EnginesTyped
    <3> QED BY <1>1, <1>4, <3>1 DEF TdoaTick, EnginesTyped
  <2>2. Serving
    BY <2>1 DEF Tracking
  <2>3. tdoa_shore.now /\ HeardInSlot /\ OneReportOfSlot /\ OnePositionOfEach
    BY <1>3, <2>2 DEF Serving
  <2>4. HeardInSlot'
    <3> SUFFICES ASSUME tdoa_shore.got_receive
                 PROVE  /\ heard'[ShoreId] = <<>>
                        /\ \E v \in Afloat : tdma_engine[ShoreId].slot = v + 1 /\ time'.pos > SendsAt(v)
      BY <1>2, <2>1 DEF HeardInSlot
    <3>1. PICK v \in Afloat : tdma_engine[ShoreId].slot = v + 1 /\ time.pos > SendsAt(v)
      BY <2>3 DEF HeardInSlot
    <3>2. SendsAt(v) \in Nat /\ v \in 1 .. 3
      BY AwaitedTimes
    <3>3. ASSUME heard'[ShoreId] # <<>> PROVE FALSE
      <4> DEFINE sound == Head(heard'[ShoreId])
                 u == sound.from
      <4>1. sound \in sounds /\ u # ShoreId
        BY <1>1, <1>2, <3>3, HeardFromWater DEF TdoaTyped
      <4>2. u \in Afloat /\ time.pos = SendsAt(u)
        BY <1>1, <4>1 DEF TdoaTyped, IsSound, Stations, SentInSlot
      <4> HIDE DEF u
      <4>3. tdma_engine[ShoreId].slot = u + 1 /\ u \in 1 .. 3 /\ SendsAt(u) \in Nat
        BY <1>1, <1>2, <4>2, ShoreAwaits, AwaitedTimes
      <4>4. u = v
        BY <3>1, <3>2, <4>3
      <4> QED BY <3>1, <3>2, <4>2, <4>4
    <3>4. time'.pos > SendsAt(v)
      BY <2>1, <3>1, <3>2
    <3> QED BY <3>1, <3>3, <3>4
  <2>5. OneReportOfSlot'
    BY <1>2, <2>1, <2>3 DEF OneReportOfSlot, ReportedFor
  <2>6. OnePositionOfEach'
    BY <2>1, <2>3 DEF OnePositionOfEach
  <2> QED BY <1>2, <1>3, <2>1, <2>3, <2>4, <2>5, <2>6 DEF Serving
<1>5. CASE ~(time.pos + 1 < SlotsOf(ShoreId).period)
  <2>1. time' = [cycle |-> 1 - time.cycle, pos |-> 0] /\ record' = [record EXCEPT !.ran = FALSE, !.posted = <<>>]
    BY <1>5 DEF TdoaTick
  <2>2. time.cycle \in {0, 1} /\ time'.cycle = 1 - time.cycle
    BY <1>1, <2>1 DEF EnginesTyped
  <2>3. record'.posted = <<>>
    <3> DEFINE R == [slot : 0 .. 3, positions : Seq(Position), now : BOOLEAN]
               none == <<>>
    <3>1. record \in [ran : BOOLEAN, posted : Seq(R), obeyed : [Ids -> 0 .. TdoaMaxCommands]]
      BY <1>1 DEF TdoaTyped
    <3> HIDE DEF R
    <3>2. record' = [record EXCEPT !.ran = FALSE, !.posted = none]
      BY <2>1
    <3> HIDE DEF none
    <3>3. record'.posted = none
      BY <3>1, <3>2
    <3> QED BY <3>3 DEF none
  <2> QED BY <1>2, <1>3, <2>2, <2>3 DEF Serving
<1> QED BY <1>4, <1>5

LEMMA TrackingInitially == TdoaInit => Tracking
<1> SUFFICES ASSUME TdoaInit PROVE Tracking
  OBVIOUS
<1>1. TdoaTyped
  BY TdoaTypedInitially
<1>2. \A p \in Stations : ~IsRunning(tdma_engine[p])
  BY DEF TdoaInit, InitEngine, IsRunning
<1>3. ShoreId \in Stations /\ Afloat \subseteq Stations
  BY TdoaNumbers
<1>4. sounds = {} /\ \A p \in Stations : heard[p] = <<>>
  BY DEF TdoaInit
<1> QED BY <1>1, <1>2, <1>3, <1>4 DEF Tracking, Prompt, SentInSlot, PositionsOfNow, InCycle

LEMMA TrackingInductive == Tracking /\ [TdoaNext]_tdoaVars => Tracking'
<1> SUFFICES ASSUME Tracking, [TdoaNext]_tdoaVars PROVE Tracking'
  OBVIOUS
<1>1. TdoaTyped' /\ Prompt' /\ SentInSlot'
  BY TdoaTypedInductive, PromptInductive, SentInSlotInductive DEF Tracking
<1>2. ~record'.ran => PositionsOfNow'
  BY PositionsStayOfNow DEF Tracking
<1> SUFFICES ASSUME ~record'.ran, IsRunning(tdma_engine'[ShoreId]) PROVE Serving'
  BY <1>1, <1>2 DEF Tracking
<1>3. /\ TdoaTyped /\ EnginesTyped /\ DOMAIN heard = Stations /\ ShoreId \in Stations
      /\ \A v \in Afloat : v # ShoreId /\ v \in Stations
  BY TdoaNumbers DEF Tracking, TdoaTyped
<1>4. ASSUME record'.ran = record.ran, heard'[ShoreId] = heard[ShoreId],
             tdma_engine'[ShoreId] = tdma_engine[ShoreId],
             UNCHANGED <<time, record.posted, tdoa_shore.now, tdoa_shore.sent_reports, tdoa_shore.got_receive>>
      PROVE  Serving'
  <2>1. Serving
    BY <1>4 DEF Tracking
  <2> QED BY <1>4, <2>1, ServingStays
<1>5. ASSUME NEW v \in Afloat, TdoaVehicleReceives(v) PROVE Serving'
  <2>1. /\ heard' = [heard EXCEPT ![v] = <<>>] /\ UNCHANGED <<time, tdma_engine, tdoa_shore>>
        /\ record' = record \/ \E nr : record' = [record EXCEPT !.obeyed[v] = nr]
    BY <1>5 DEF TdoaVehicleReceives
  <2>2. record'.ran = record.ran /\ record'.posted = record.posted
    BY <1>3, <2>1 DEF TdoaTyped
  <2>3. heard'[ShoreId] = heard[ShoreId]
    BY <1>3, <2>1
  <2> QED BY <1>4, <2>1, <2>2, <2>3
<1>6. ASSUME NEW v \in Afloat, TdoaVehicleIterates(v) PROVE Serving'
  <2>1. /\ tdma_engine' = [tdma_engine EXCEPT ![v] = NextEngine(v)]
        /\ UNCHANGED <<time, tdoa_shore, heard, record>>
    BY <1>6 DEF TdoaVehicleIterates
  <2>2. tdma_engine'[ShoreId] = tdma_engine[ShoreId]
    BY <1>3, <2>1 DEF EnginesTyped
  <2> QED BY <1>4, <2>1, <2>2
<1>7. ASSUME NEW v \in Afloat, OnWaypoint(v) PROVE Serving'
  <2>1. /\ \E c : tdoa_shore' = [tdoa_shore EXCEPT !.dccl_command = c]
        /\ UNCHANGED <<time, tdma_engine, heard, record>>
    BY <1>7 DEF OnWaypoint
  <2>2. UNCHANGED <<tdoa_shore.now, tdoa_shore.sent_reports, tdoa_shore.got_receive>>
    BY <1>3, <2>1 DEF TdoaTyped, TdoaShoreState
  <2> QED BY <1>4, <2>1, <2>2
<1>8. CASE TdoaShoreReceives
  <2>1. ~record.ran /\ IsRunning(tdma_engine[ShoreId])
    <3>1. tdma_engine' = tdma_engine
      BY <1>8 DEF TdoaShoreReceives
    <3>2. record'.ran = record.ran
      BY <1>3, <1>8 DEF TdoaShoreReceives, Posting, TdoaTyped
    <3> QED BY <3>1, <3>2
  <2> QED BY <1>8, <2>1, ServingReceives
<1>9. CASE TdoaShoreIterates
  <2>1. record'.ran = record.ran
    BY <1>3, <1>9 DEF TdoaShoreIterates, Posting, TdoaTyped
  <2>2. IsRunning(tdma_engine[ShoreId])
    BY <1>9 DEF TdoaShoreIterates, MustAdvance, Advances
  <2> QED BY <1>9, <2>1, <2>2, ServingIterates
<1>10. ASSUME NEW P, TdoaRun(P) PROVE FALSE
  BY <1>3, <1>10 DEF TdoaRun, TdoaTyped
<1>11. ASSUME NEW P, TdoaStop(P) PROVE Serving'
  <2>1. tdma_engine'[ShoreId] = tdma_engine[ShoreId]
    BY <1>3, <1>11 DEF TdoaStop, IsRunning, EnginesTyped
  <2> QED BY <1>4, <1>11, <2>1 DEF TdoaStop
<1>12. CASE TdoaTick
  <2>1. IsRunning(tdma_engine[ShoreId])
    BY <1>12 DEF TdoaTick
  <2> QED BY <1>1, <1>12, <2>1, ServingTicks
<1>13. CASE UNCHANGED tdoaVars
  BY <1>4, <1>13 DEF tdoaVars
<1> QED BY <1>5, <1>6, <1>7, <1>8, <1>9, <1>10, <1>11, <1>12, <1>13 DEF TdoaNext

LEMMA AtMostOne ==
  ASSUME NEW S, \A x, y \in S : x = y
  PROVE  Cardinality(S) <= 1
<1>1. CASE S = {}
  <2>1. Cardinality({}) = 0
    BY FS_EmptySet
  <2> QED BY <1>1, <2>1
<1>2. ASSUME NEW x \in S PROVE Cardinality(S) <= 1
  <2>1. S = {x}
    BY <1>2
  <2>2. Cardinality({x}) = 1
    BY FS_Singleton
  <2> QED BY <2>1, <2>2
<1> QED BY <1>1, <1>2

LEMMA TrackingServes == Tracking => TrackerIsServed
<1> SUFFICES ASSUME Tracking, ~record.ran, IsRunning(tdma_engine[ShoreId]),
                    tdma_engine[ShoreId].cycle = time.cycle
             PROVE  TrackerIsServed
  BY DEF TrackerIsServed
<1>1. OneReportOfSlot /\ OnePositionOfEach
  BY DEF Tracking, Serving
<1>2. ASSUME NEW v \in Ids
      PROVE  LET ofSlot == {i \in DOMAIN record.posted : record.posted[i].slot = v} IN
               /\ Cardinality(ofSlot) <= 1
               /\ tdma_engine[ShoreId].slot >= MissedSlot(v) => ofSlot # {}
  <2> DEFINE ofSlot == {i \in DOMAIN record.posted : record.posted[i].slot = v}
  <2>1. \A i, j \in ofSlot : i = j
    BY <1>1 DEF OneReportOfSlot
  <2>2. tdma_engine[ShoreId].slot >= MissedSlot(v) => ofSlot # {}
    BY <1>1 DEF OneReportOfSlot, ReportedFor
  <2> HIDE DEF ofSlot
  <2>3. Cardinality(ofSlot) <= 1
    BY <2>1, AtMostOne
  <2> QED BY <2>2, <2>3 DEF ofSlot
<1>3. \A i \in DOMAIN record.posted :
        LET positions == record.posted[i].positions IN
          /\ record.posted[i].now
          /\ \A k \in DOMAIN positions :
               /\ positions[k].now
               /\ \A j \in DOMAIN record.posted :
                    \A l \in DOMAIN record.posted[j].positions :
                      record.posted[j].positions[l].id = positions[k].id => <<j, l>> = <<i, k>>
  BY <1>1 DEF OnePositionOfEach, OfNow
<1> QED BY <1>2, <1>3 DEF TrackerIsServed

\* In a cycle in which nobody is told to run the tracker gets exactly one report for the slot of
\* each vehicle by its end, and in them the position of this cycle of each vehicle once at most,
\* whatever is missed, whoever passed it on and whoever is stopped.
THEOREM TrackerGetsReports == TdoaSpec => []TrackerIsServed
BY TrackingInitially, TrackingInductive, TrackingServes, PTL DEF TdoaSpec
=============================================================================
