----------------------------- MODULE KayakRadio -----------------------------
(***************************************************************************)
(* The switch between the kayak's two radios, the bullet and the freewave.  *)
(*                                                                         *)
(* A switch that cuts off the operator must undo itself: after a command    *)
(* iHoverKayak waits for it to be repeated, and switches back if it is not. *)
(* The Arduino holds the switch.  It reports which radio has power, and     *)
(* iHoverKayak takes over what is reported if it differs for two seconds.  *)
(*                                                                         *)
(* iHoverKayak has two threads, which share m_usingFreewave and             *)
(* m_radioSetTime without a lock: one for mail and Iterate, one that reads  *)
(* the serial port.  What a thread has to write is written one by one.     *)
(***************************************************************************)
EXTENDS Kestrel

CONSTANTS
  SwitchTime,        \* 2 seconds, after which a different report is believed
  RadioWaitTime,     \* m_radioWaitTime
  MaxLag,            \* bound: reports not read at the end of a unit of time
  MaxSwitches        \* bound: commands, and switches at the console

ASSUME RadioParameters ==
  /\ SwitchTime \in Nat \ {0} /\ RadioWaitTime \in Nat \ {0}
  /\ SwitchTime < RadioWaitTime
  /\ MaxLag \in Nat /\ MaxSwitches \in Nat

Radio == {"bullet", "freewave"}
Other(radio) == IF radio = "bullet" THEN "freewave" ELSE "bullet"

VARIABLES
  radio,       \* the radio that has power
  using,       \* m_usingFreewave
  setAge,      \* since m_radioSetTime; Never is -1
  first,       \* first_radio_message
  todo,        \* what each thread has still to write, in the order of the code
  lines,       \* radio commands on their way to the Arduino
  reports,     \* reports on their way to iHoverKayak
  reported,    \* a report was made in this unit of time
  posted,      \* RADIO_POWER
  switches,    \* how much of the bound is used up
  memory       \* what properties refer to, no handler reads it

radioVars == <<radio, using, setAge, first, todo, lines, reports, reported, posted,
               switches, memory>>

\* A write gives `using' a value or flips it, posts it as unlocked or locked, or starts or
\* ends the wait for a confirmation.
Writes == Radio \cup {"flip", "unlocked", "locked", "wait", "settle"}

RadioInit ==
  /\ radio = "bullet" /\ using = "bullet"
  /\ setAge = Never
  /\ first = TRUE
  /\ todo = [main |-> <<>>, serial |-> <<>>]
  /\ lines = <<>> /\ reports = <<>> /\ reported = FALSE
  /\ posted = <<>>
  /\ switches = 0
  /\ memory = [before |-> "bullet",    \* the radio before the last command
               asked |-> Never,        \* since the last command that was not repeated
               clean |-> TRUE]         \* no race, no line lost, no command before the first report

Idle(thread) == todo[thread] = <<>>

\* Both threads are then in the middle of their work on the shared variables.
Races(thread) == \A other \in DOMAIN todo \ {thread} : ~Idle(other)

\* A thread begins to write.
Begins(thread, writes) == Idle(thread) /\ todo' = [todo EXCEPT ![thread] = writes]

\* The next write of a thread.
Write(thread) ==
  LET write == Head(todo[thread]) IN
    /\ ~Idle(thread)
    /\ todo' = [todo EXCEPT ![thread] = Tail(@)]
    /\ using' = CASE write \in Radio -> write [] write = "flip" -> Other(using) [] OTHER -> using
    /\ setAge' = CASE write = "wait" -> 0 [] write = "settle" -> Never [] OTHER -> setAge
    /\ posted' = IF write \in {"locked", "unlocked"} THEN <<using, write>> ELSE posted
    /\ first' = (first /\ ~(thread = "serial" /\ write = "locked"))
    /\ UNCHANGED <<radio, lines, reports, reported, switches, memory>>
-----------------------------------------------------------------------------
(* iHoverKayak, the thread for mail and Iterate *)

Switches == switches < MaxSwitches /\ switches' = switches + 1

\* RADIO_POWER_COMMAND: a change ...
OnChange(to) ==
  /\ Switches
  /\ to # using
  /\ Begins("main", <<to, "unlocked", "wait">>)
  /\ lines' = Append(lines, to)
  /\ memory' = [before |-> using, asked |-> 0,
                clean |-> memory.clean /\ ~first /\ ~Races("main")]
  /\ UNCHANGED <<radio, using, setAge, first, reports, reported, posted>>

AfterConfirmation == <<"settle", "locked">>

\* ... or the confirmation, or a command for what is locked already.
OnConfirmation(to) ==
  /\ Switches
  /\ to = using
  /\ Begins("main", AfterConfirmation)
  /\ memory' = [memory EXCEPT !.asked = Never, !.clean = @ /\ ~Races("main")]
  /\ UNCHANGED <<radio, using, setAge, first, lines, reports, reported, posted>>

\* Fault: the confirmation is awaited for ever.
WaitsForEver == FALSE

\* The code reads m_radioSetTime twice here; that the serial thread ends the wait in between, and
\* the wait then seems too long, is left out.
WaitedTooLong == setAge # Never /\ setAge > RadioWaitTime

\* Iterate: no confirmation came.
OnRevert ==
  /\ WaitedTooLong
  /\ Begins("main", <<"flip", "settle", "locked">>)
  /\ lines' = Append(lines, Other(using))
  /\ memory' = [memory EXCEPT !.clean = @ /\ ~Races("main")]
  /\ UNCHANGED <<radio, using, setAge, first, reports, reported, posted, switches>>
-----------------------------------------------------------------------------
(* iHoverKayak, the serial thread *)

\* Fault: what is reported is believed at once.
BelievedAtOnce(report) == report # using \/ first

\* Whether a report is taken over: it is the first, or the switch had time to happen.
Believed(report) ==
  \/ report # using /\ (setAge = Never \/ setAge > SwitchTime)
  \/ first

\* parseSlow
ParseSlow ==
  /\ reports # <<>>
  /\ reports' = Tail(reports)
  /\ IF Believed(Head(reports))
     THEN /\ Begins("serial", <<Head(reports), "settle", "locked">>)
          /\ memory' = [memory EXCEPT !.clean = @ /\ ~Races("serial")]
     ELSE Idle("serial") /\ UNCHANGED <<todo, memory>>
  /\ UNCHANGED <<radio, using, setAge, first, lines, reported, posted, switches>>
-----------------------------------------------------------------------------
(* The Arduino *)

\* parseRadioCommand, for each line that has come.
ParseRadioCommand ==
  /\ lines # <<>>
  /\ radio' = Head(lines)
  /\ lines' = Tail(lines)
  /\ UNCHANGED <<using, setAge, first, todo, reports, reported, posted, switches, memory>>

\* A line is garbled, and nothing of it is repeated.
LoseRadioCommand ==
  /\ lines # <<>>
  /\ lines' = Tail(lines)
  /\ memory' = [memory EXCEPT !.clean = FALSE]
  /\ UNCHANGED <<radio, using, setAge, first, todo, reports, reported, posted, switches>>

\* Fault: the time of the last report is not noted.
PublishSlowAgain ==
  /\ reports' = Append(reports, radio)
  /\ UNCHANGED <<radio, using, setAge, first, todo, lines, reported, posted, switches, memory>>

PublishSlow ==
  /\ ~reported
  /\ reported' = TRUE
  /\ reports' = Append(reports, radio)
  /\ UNCHANGED <<radio, using, setAge, first, todo, lines, posted, switches, memory>>

\* A switch at the console.  Whoever does it is not cut off: nothing is to be undone.
AtConsole(key) ==
  /\ HandleRadioMenu(key, radio) # radio
  /\ Switches
  /\ radio' = HandleRadioMenu(key, radio)
  /\ memory' = [memory EXCEPT !.asked = Never]
  /\ UNCHANGED <<using, setAge, first, todo, lines, reports, reported, posted>>
-----------------------------------------------------------------------------
\* Threads and lines are prompt: at the end of a unit of time no step is left to do, except
\* that the serial thread may lag behind.
RadioTick ==
  /\ Idle("main") /\ Idle("serial") /\ ~WaitedTooLong
  /\ lines = <<>> /\ reported /\ Len(reports) <= MaxLag
  /\ setAge' = Aged(setAge, RadioWaitTime + 1)
  /\ memory' = [memory EXCEPT !.asked = Aged(@, RadioWaitTime + 3)]
  /\ reported' = FALSE
  /\ UNCHANGED <<radio, using, first, todo, lines, reports, posted, switches>>

MainThread == Write("main") \/ OnRevert
SerialThread == Write("serial") \/ ParseSlow

RadioNext ==
  \/ \E to \in Radio : OnChange(to) \/ OnConfirmation(to)
  \/ MainThread \/ SerialThread
  \/ ParseRadioCommand \/ LoseRadioCommand \/ PublishSlow
  \/ \E key \in {"1", "2"} : AtConsole(key)
  \/ RadioTick

\* The programs run and time goes on.
RadioFairness ==
  /\ WF_radioVars(MainThread) /\ WF_radioVars(SerialThread)
  /\ WF_radioVars(ParseRadioCommand) /\ WF_radioVars(PublishSlow)
  /\ WF_radioVars(RadioTick)

RadioSpec == RadioInit /\ [][RadioNext]_radioVars /\ RadioFairness
-----------------------------------------------------------------------------
(* Properties *)

\* The state keeps its shape.
RadioTypeOK ==
  /\ radio \in Radio /\ using \in Radio
  /\ setAge \in {Never} \cup 0 .. RadioWaitTime + 1
  /\ first \in BOOLEAN
  /\ \A thread \in {"main", "serial"} : Len(todo[thread]) <= 3 /\ Range(todo[thread]) \subseteq Writes
  /\ Len(lines) <= MaxSwitches + 1 /\ Range(lines) \subseteq Radio
  /\ Len(reports) <= MaxLag + 1 /\ Range(reports) \subseteq Radio
  /\ posted \in {<<>>} \cup (Radio \X {"locked", "unlocked"})

\* A switch that nobody repeats is undone, and stays undone.  This fails only if the threads
\* raced, a line was lost, the switch was asked for before the Arduino's first report, or the
\* serial thread lags behind by more than SwitchTime and believes what is out of date.
UnconfirmedReverts ==
  memory.clean /\ memory.asked > RadioWaitTime + 2 => radio = memory.before

\* Once the Arduino has reported, iHoverKayak comes to know the radio that has power and says
\* so, whatever was switched where, however the threads raced and whatever was lost.
RadioIsKnown == <>[](~first => using = radio /\ posted = <<radio, "locked">>)
=============================================================================
