------------------------------- MODULE Scheduler ------------------------------
(***************************************************************************)
(* The daily tasks of Scheduler.  A thread looks at the clock, fires what  *)
(* is due, and waits 60 s; load may make the wait longer.  A task is due   *)
(* when the clock is within a minute of its time TODAY and it has not been *)
(* fired today, as far as this process remembers.                          *)
(*                                                                         *)
(* Time is counted in steps of 15 s; a day has DayLength of them, which is *)
(* all that matters about its length as long as it is many waits long.     *)
(***************************************************************************)
EXTENDS Naturals

CONSTANTS
  Tasks,
  Schedule,     \* [Tasks -> 0 .. DayLength - 1]: the HH:MM of each task
  DayLength,
  Wait,         \* _stop.wait(60)
  Tolerance,    \* _TOLERANCE_MINUTES
  MaxDelay,     \* bound: how late a tick may be
  Restarts      \* whether the process may be restarted

ASSUME SchedulerAssumption ==
  /\ DayLength \in Nat \ {0}
  /\ Schedule \in [Tasks -> 0 .. DayLength - 1]
  /\ Wait \in Nat \ {0} /\ Tolerance \in Nat /\ MaxDelay \in Nat
  /\ Wait + MaxDelay < DayLength
  /\ Restarts \in BOOLEAN

VARIABLES
  now,        \* time of day of the last tick
  ranToday,   \* _last_run: the tasks whose last run, in this process, is today
  runs,       \* ghost: how often each task was fired today, up to 2
  whole,      \* ghost: the agent has been up since before midnight
  restarted,  \* ghost: it was restarted since midnight
  longest     \* ghost: the longest time between two ticks, from the last before midnight

vars == <<now, ranToday, runs, whole, restarted, longest>>

\* mutant: a task is on time only after its time.
OnTimeLate(t, time) == Schedule[t] <= time /\ time <= Schedule[t] + Tolerance

OnTime(t, time) ==
  /\ time <= Schedule[t] + Tolerance
  /\ Schedule[t] <= time + Tolerance

\* mutant: what already ran today is not looked at.
DueAgain(ran, time) == {t \in Tasks : OnTime(t, time)}

Due(ran, time) == {t \in Tasks \ ran : OnTime(t, time)}

Count(n) == IF n < 2 THEN n + 1 ELSE n

LongerOf(a, b) == IF a < b THEN b ELSE a

\* _tick, `gap' after the last one, with what `remembered' holds from before.
TickAfter(gap, remembered) ==
  LET midnight == now + gap >= DayLength
      time     == IF midnight THEN now + gap - DayLength ELSE now + gap
      ran      == IF midnight THEN {} ELSE remembered
      due      == Due(ran, time)
  IN
  /\ now' = time
  /\ ranToday' = ran \union due
  /\ runs' = [t \in Tasks |->
       LET before == IF midnight THEN 0 ELSE runs[t]
       IN  IF t \in due THEN Count(before) ELSE before]
  /\ whole' = (whole \/ midnight)
  /\ longest' = IF midnight THEN gap ELSE LongerOf(longest, gap)

Tick ==
  /\ \E gap \in Wait .. Wait + MaxDelay : TickAfter(gap, ranToday)
  /\ restarted' = (restarted /\ now' >= now)

\* The agent is stopped and comes up again within the time of a late tick;
\* start() ticks at once, and _last_run starts empty.
Restart ==
  /\ Restarts
  /\ \E gap \in 0 .. Wait + MaxDelay : TickAfter(gap, {})
  /\ restarted' = TRUE

Init ==
  /\ now \in 0 .. DayLength - 1
  /\ ranToday = Due({}, now)
  /\ runs = [t \in Tasks |-> IF t \in ranToday THEN 1 ELSE 0]
  /\ whole = FALSE
  /\ restarted = FALSE
  /\ longest = 0

Next ==
  \/ Tick
  \/ Restart

Spec == Init /\ [][Next]_vars

\* A process fires a task at most once per calendar day; one that is started
\* while a task is due does not know that another has fired it.
AtMostOncePerDay == ~restarted => \A t \in Tasks : runs[t] <= 1

\* How long the clock of a day shows a time at which the task may fire.  A tick compares
\* with the time of ITS day: the minute before 00:00 belongs to the day before, and is lost.
Begin(t)  == IF Schedule[t] > Tolerance THEN Schedule[t] - Tolerance ELSE 0
End(t)    == IF Schedule[t] + Tolerance < DayLength THEN Schedule[t] + Tolerance ELSE DayLength
Window(t) == End(t) - Begin(t)

\* The ticks around a day that ends with this step were never further apart than that.
InStep(t) ==
  /\ longest <= Window(t)
  /\ now' + DayLength - now <= Window(t)

\* A day on which the agent was up all day does not end without a task having run, as long
\* as its ticks were never further apart than its window is long: two minutes, but one
\* minute, which is no delay at all, for a task of 00:00.  Restarts do not matter.
NoDayIsSkipped ==
  [][now' < now /\ whole => \A t \in Tasks : InStep(t) => runs[t] > 0]_vars

\* The module's promise: a tick that is delayed, here by less than the tolerance, skips
\* no task for the entire day.
LateTicksSkipNothing ==
  [][now' < now /\ whole /\ longest < Wait + Tolerance /\ now' + DayLength - now < Wait + Tolerance
       => \A t \in Tasks : runs[t] > 0]_vars
===============================================================================
