-------------------------------- MODULE TDMA --------------------------------
(***************************************************************************)
(* JoshUtil::TDMAEngine, the slots of a cycle that several programs follow  *)
(* by the time of day, as operators.                                       *)
(*                                                                         *)
(* The clock shows the cycle and the whole units of time within it; code   *)
(* runs strictly between two units, so that "time within slot > length" is *)
(* "units within slot >= length".  Slots are numbered from 0.              *)
(***************************************************************************)
EXTENDS Integers, SequencesExt

-----------------------------------------------------------------------------
(* Schedules *)

EmptySchedule == [lengths |-> <<>>, times |-> <<>>, period |-> 0]

\* m_slot_times.back() + m_slot_lengths.back() is the period so far.
AppendSlot(sched, length) ==
  [lengths |-> Append(sched.lengths, length), times |-> Append(sched.times, sched.period),
   period |-> sched.period + length]

\* parseConfig: the slots of the configuration in their order.
Schedule(lengths) == FoldLeft(AppendSlot, EmptySchedule, lengths)

Slots(sched) == 0 .. Len(sched.lengths) - 1
StartOf(s, sched) == sched.times[s + 1]
EndOf(s, sched) == sched.times[s + 1] + sched.lengths[s + 1]

\* The slots fill the period without gaps.
IsSchedule(sched) ==
  /\ sched.lengths \in Seq(Nat \ {0}) /\ Slots(sched) # {}
  /\ sched.times \in Seq(Nat) /\ Len(sched.times) = Len(sched.lengths)
  /\ StartOf(0, sched) = 0
  /\ sched.period \in Nat
  /\ \A s \in Slots(sched) :
       /\ EndOf(s, sched) = IF s + 1 \in Slots(sched) THEN StartOf(s + 1, sched) ELSE sched.period
       /\ EndOf(s, sched) <= sched.period
  /\ \A pos \in 0 .. sched.period - 1 :
       \E s \in Slots(sched) : StartOf(s, sched) <= pos /\ pos < EndOf(s, sched)

\* The clock is within slot s.
Shows(s, sched, clock) == StartOf(s, sched) <= clock.pos /\ clock.pos < EndOf(s, sched)
-----------------------------------------------------------------------------
(* Engines *)

Stopped == -1

\* m_run_state is STOPPED exactly if the slot is -1.  The count of cycles is
\* left out: it is only printed.
InitEngine == [slot |-> Stopped, cycle |-> 0]

IsRunning(e) == e.slot # Stopped

TimeWithinSlot(e, sched, clock) ==
  LET start == StartOf(e.slot, sched) IN
    IF clock.pos < start THEN clock.pos + sched.period - start ELSE clock.pos - start

SlotIsOver(e, sched, clock) == TimeWithinSlot(e, sched, clock) >= sched.lengths[e.slot + 1]

\* Fault: a cycle that ends while the program sleeps is not noticed.
AdvancesBySlot(e, sched, clock) == IsRunning(e) /\ SlotIsOver(e, sched, clock)

\* Whether testAdvance returns true.
Advances(e, sched, clock) ==
  /\ IsRunning(e)
  /\ SlotIsOver(e, sched, clock) \/ e.cycle # clock.cycle

\* Fault: the engine counts the cycles itself.
AdvancedByCounting(e, sched, clock) ==
  IF SlotIsOver(e, sched, clock) /\ e.slot + 1 \in Slots(sched)
  THEN [e EXCEPT !.slot = @ + 1]
  ELSE [slot |-> 0, cycle |-> e.cycle + 1]

\* What testAdvance then makes of the engine: one slot on, or to the beginning of a new cycle.
Advanced(e, sched, clock) ==
  IF SlotIsOver(e, sched, clock) /\ e.slot + 1 \in Slots(sched)
  THEN [e EXCEPT !.slot = @ + 1]
  ELSE [slot |-> 0, cycle |-> clock.cycle]

TestAdvance(e, sched, clock) ==
  IF Advances(e, sched, clock) THEN Advanced(e, sched, clock) ELSE e

\* testAdvance, once for every slot in order.
TestAdvances(e, slots, sched, clock) == FoldLeft(LAMBDA f, s : TestAdvance(f, sched, clock), e, slots)

\* run, as it is coded.
RunLoop(sched, clock) ==
  TestAdvances([slot |-> 0, cycle |-> clock.cycle], sched.lengths, sched, clock)

\* Fault: the slots that are over are left to the program's Iterate.
RunFromStart(sched, clock) == [slot |-> 0, cycle |-> clock.cycle]

\* What run comes to: the slot of the clock.  The program is not told of those before it.
Run(sched, clock) ==
  [slot |-> CHOOSE s \in Slots(sched) : Shows(s, sched, clock), cycle |-> clock.cycle]

\* The engine has nothing to catch up with.
InStep(e, sched, clock) == IsRunning(e) /\ ~Advances(e, sched, clock)
=============================================================================
