------------------------------ MODULE ClockProofs ------------------------------
(***************************************************************************)
(* What the agent promises about time: jobs once a day, and mails about an *)
(* outage within a latency and a dedup window.                             *)
(***************************************************************************)
EXTENDS Scheduler, AlertPipeline, Integers, TLAPS

(***************************************************************************)
(* How far apart ticks may be before a daily task is skipped.              *)
(***************************************************************************)
TypeOK ==
  /\ now \in 0 .. DayLength - 1
  /\ ranToday \subseteq Tasks
  /\ runs \in [Tasks -> 0 .. 2]
  /\ whole \in BOOLEAN
  /\ restarted \in BOOLEAN
  /\ longest \in Nat

\* Once its window has begun, a task has been fired, if no two ticks were further apart.
FiredInTime ==
  \A t \in Tasks :
    /\ t \in ranToday => runs[t] > 0
    /\ whole /\ longest <= Window(t) /\ Begin(t) <= now => runs[t] > 0

\* What this process remembers is what it fired today, and all that was fired
\* today if it was not started today.
RememberedToday ==
  ~restarted => \A t \in Tasks : runs[t] = IF t \in ranToday THEN 1 ELSE 0

Inv == TypeOK /\ FiredInTime

LEMMA WindowsAreOfADay ==
  ASSUME NEW t \in Tasks
  PROVE  /\ Begin(t) \in Nat /\ End(t) \in Nat /\ Window(t) = End(t) - Begin(t)
         /\ Begin(t) <= End(t) /\ End(t) <= DayLength
         /\ \A time \in Nat : Begin(t) <= time /\ time <= End(t) => OnTime(t, time)
<1>1. Schedule[t] \in 0 .. DayLength - 1 /\ Tolerance \in Nat /\ DayLength \in Nat
  BY SchedulerAssumption
<1>2. QED
  BY <1>1 DEF Begin, End, Window, OnTime

LEMMA InvInit == Init => Inv
<1> SUFFICES ASSUME Init PROVE Inv
  OBVIOUS
<1>1. ranToday \subseteq Tasks
  BY DEF Init, Due
<1>2. runs \in [Tasks -> 0 .. 2]
  BY DEF Init
<1>3. TypeOK
  BY <1>1, <1>2 DEF Init, TypeOK
<1>4. \A t \in Tasks : t \in ranToday => runs[t] > 0
  BY <1>1 DEF Init
<1>5. QED
  BY <1>3, <1>4 DEF Init, Inv, FiredInTime

LEMMA TickFires ==
  ASSUME Inv, NEW gap \in 0 .. Wait + MaxDelay,
         NEW remembered \in SUBSET ranToday, TickAfter(gap, remembered),
         restarted' \in BOOLEAN
  PROVE  Inv'
<1> DEFINE midnight == now + gap >= DayLength
           time == IF midnight THEN now + gap - DayLength ELSE now + gap
           ran == IF midnight THEN {} ELSE remembered
           due == Due(ran, time)
           before(t) == IF midnight THEN 0 ELSE runs[t]
<1>1. /\ now' = time
      /\ ranToday' = ran \union due
      /\ runs' = [t \in Tasks |-> IF t \in due THEN Count(before(t)) ELSE before(t)]
      /\ whole' = (whole \/ midnight)
      /\ longest' = IF midnight THEN gap ELSE LongerOf(longest, gap)
  BY DEF TickAfter
<1>2. now \in 0 .. DayLength - 1 /\ gap \in Nat /\ gap < DayLength /\ DayLength \in Nat
  BY SchedulerAssumption DEF Inv, TypeOK
<1>3. time \in 0 .. DayLength - 1
  BY <1>2
<1>4. ran \subseteq Tasks /\ due \subseteq Tasks \ ran
  BY DEF Inv, TypeOK, Due
<1>5. \A t \in Tasks : before(t) \in 0 .. 2 /\ Count(before(t)) \in 1 .. 2
  BY DEF Inv, TypeOK, Count
<1>6. TypeOK'
  <2>1. runs' \in [Tasks -> 0 .. 2]
    BY <1>1, <1>5
  <2>2. whole' \in BOOLEAN
    BY <1>1 DEF Inv, TypeOK
  <2>3. longest' \in Nat
    BY <1>1, <1>2 DEF LongerOf, Inv, TypeOK
  <2>4. QED
    BY <1>1, <1>3, <1>4, <2>1, <2>2, <2>3 DEF TypeOK
<1>7. ASSUME NEW t \in Tasks PROVE t \in ranToday' => runs'[t] > 0
  <2>1. CASE t \in due
    BY <2>1, <1>1, <1>5
  <2>2. CASE t \in ran
    BY <2>2, <1>1, <1>4 DEF Inv, FiredInTime
  <2>3. QED
    BY <1>1, <2>1, <2>2
<1>8. ASSUME NEW t \in Tasks, whole', longest' <= Window(t), Begin(t) <= now'
      PROVE  runs'[t] > 0
  <2>1. gap <= Window(t)
    <3>1. gap <= longest' /\ longest' \in Nat /\ Window(t) \in Int
      BY <1>1, <1>2, WindowsAreOfADay DEF LongerOf, Inv, TypeOK
    <3>2. QED
      BY <1>2, <1>8, <3>1
  <2>2. CASE t \in ran \union due
    BY <2>2, <1>7, <1>1
  <2>3. CASE t \notin ran \union due
    <3>1. ~OnTime(t, time)
      BY <2>3 DEF Due
    <3>2. time > End(t)
      BY <3>1, <1>1, <1>3, <1>8, WindowsAreOfADay
    <3>3. ~midnight
      BY <3>2, <2>1, <1>2, WindowsAreOfADay
    <3>4. Begin(t) <= now
      BY <3>2, <3>3, <2>1, <1>2, WindowsAreOfADay
    <3>5. longest <= Window(t)
      BY <1>1, <1>2, <1>8, <3>3, WindowsAreOfADay DEF LongerOf, Inv, TypeOK
    <3>6. runs[t] > 0
      BY <3>3, <3>4, <3>5, <1>1, <1>8 DEF Inv, FiredInTime
    <3>7. QED
      BY <1>1, <2>3, <3>3, <3>6
  <2>4. QED
    BY <2>2, <2>3
<1>9. FiredInTime'
  BY <1>7, <1>8 DEF FiredInTime
<1>10. QED
  BY <1>6, <1>9 DEF Inv

LEMMA InvStep == Inv /\ [Next]_vars => Inv'
<1> SUFFICES ASSUME Inv, [Next]_vars PROVE Inv'
  OBVIOUS
<1>1. CASE Tick
  <2>1. PICK gap \in Wait .. Wait + MaxDelay : TickAfter(gap, ranToday)
    BY <1>1 DEF Tick
  <2>2. gap \in 0 .. Wait + MaxDelay
    BY SchedulerAssumption
  <2>3. ranToday \in SUBSET ranToday /\ restarted' \in BOOLEAN
    BY <1>1 DEF Tick, Inv, TypeOK
  <2>4. QED
    BY <2>1, <2>2, <2>3, TickFires
<1>2. CASE Restart
  <2>1. PICK gap \in 0 .. Wait + MaxDelay : TickAfter(gap, {})
    BY <1>2 DEF Restart
  <2>2. {} \in SUBSET ranToday /\ restarted' \in BOOLEAN
    BY <1>2 DEF Restart
  <2>3. QED
    BY <2>1, <2>2, TickFires
<1>3. CASE UNCHANGED vars
  BY <1>3 DEF vars, Inv, TypeOK, FiredInTime
<1>4. QED
  BY <1>1, <1>2, <1>3 DEF Next

\* When the clock passes midnight without a gap as long as the window of a task, the last
\* tick was inside or after it.
LEMMA MidnightIsLate ==
  ASSUME Inv, NEW t \in Tasks, NEW time \in Nat, time + DayLength - now <= Window(t)
  PROVE  Begin(t) <= now
<1>1. now \in Nat /\ DayLength \in Nat
  BY SchedulerAssumption DEF Inv, TypeOK
<1>2. QED
  BY <1>1, WindowsAreOfADay

LEMMA DayEnds ==
  Inv /\ [Next]_vars
    => (now' < now /\ whole => \A t \in Tasks : InStep(t) => runs[t] > 0)
<1> SUFFICES ASSUME Inv, [Next]_vars, now' < now, whole, NEW t \in Tasks, InStep(t)
             PROVE  runs[t] > 0
  OBVIOUS
<1>1. now' \in Nat
  BY InvStep DEF Inv, TypeOK
<1>2. longest <= Window(t) /\ now' + DayLength - now <= Window(t)
  BY DEF InStep
<1>3. Begin(t) <= now
  BY <1>1, <1>2, MidnightIsLate
<1>4. QED
  BY <1>2, <1>3 DEF Inv, FiredInTime

\* A day does not end without a task having run, unless two ticks were further apart than
\* the task's window is long, for any schedule, tolerance and delays, restarts included.
THEOREM DailyTasksRunDaily == Spec => NoDayIsSkipped
<1>1. Spec => []Inv
  BY InvInit, InvStep, PTL DEF Spec
<1>2. Inv /\ [Next]_vars
        => [now' < now /\ whole => \A t \in Tasks : InStep(t) => runs[t] > 0]_vars
  BY DayEnds
<1>3. QED
  BY <1>1, <1>2, PTL DEF Spec, NoDayIsSkipped

(***************************************************************************)
(* At most once: this needs no assumption on the delay of ticks.           *)
(***************************************************************************)
Once ==
  /\ ranToday \subseteq Tasks
  /\ now \in 0 .. DayLength - 1
  /\ restarted \in BOOLEAN
  /\ RememberedToday

LEMMA OnceInit == Init => Once
<1> SUFFICES ASSUME Init PROVE Once
  OBVIOUS
<1>1. ranToday \subseteq Tasks
  BY DEF Init, Due
<1>2. QED
  BY <1>1 DEF Init, Once, RememberedToday

\* A tick of the process that has been up since midnight.
LEMMA TickOnce ==
  ASSUME Once, NEW gap \in 0 .. Wait + MaxDelay, TickAfter(gap, ranToday),
         restarted' = (restarted /\ now' >= now), gap > 0
  PROVE  Once'
<1> DEFINE midnight == now + gap >= DayLength
           time == IF midnight THEN now + gap - DayLength ELSE now + gap
           ran == IF midnight THEN {} ELSE ranToday
           due == Due(ran, time)
           before(t) == IF midnight THEN 0 ELSE runs[t]
<1>1. /\ now' = time
      /\ ranToday' = ran \union due
      /\ runs' = [t \in Tasks |-> IF t \in due THEN Count(before(t)) ELSE before(t)]
  BY DEF TickAfter
<1>2. now \in 0 .. DayLength - 1 /\ gap \in Nat /\ gap < DayLength /\ DayLength \in Nat
  BY SchedulerAssumption DEF Once
<1>3. ran \subseteq Tasks /\ due \subseteq Tasks \ ran
  BY DEF Once, Due
<1>4. ASSUME ~restarted', NEW t \in Tasks
      PROVE  runs'[t] = IF t \in ranToday' THEN 1 ELSE 0
  <2>1. midnight \/ ~restarted
    BY <1>1, <1>2, <1>4 DEF Once
  <2>2. before(t) = IF t \in ran THEN 1 ELSE 0
    BY <2>1 DEF Once, RememberedToday
  <2>3. QED
    BY <1>1, <1>3, <2>2 DEF Count
<1>5. QED
  BY <1>1, <1>2, <1>3, <1>4 DEF Once, RememberedToday

LEMMA OnceStep == Once /\ [Next]_vars => Once'
<1> SUFFICES ASSUME Once, [Next]_vars PROVE Once'
  OBVIOUS
<1>1. CASE Tick
  <2>1. PICK gap \in Wait .. Wait + MaxDelay : TickAfter(gap, ranToday)
    BY <1>1 DEF Tick
  <2>2. gap \in 0 .. Wait + MaxDelay /\ gap > 0
    BY SchedulerAssumption
  <2>3. QED
    BY <1>1, <2>1, <2>2, TickOnce DEF Tick
<1>2. CASE Restart
  <2>1. PICK gap \in 0 .. Wait + MaxDelay : TickAfter(gap, {})
    BY <1>2 DEF Restart
  <2>2. now' \in 0 .. DayLength - 1
    BY <2>1, SchedulerAssumption DEF TickAfter, Once
  <2>3. ranToday' \subseteq Tasks
    BY <2>1 DEF TickAfter, Due
  <2>4. QED
    BY <1>2, <2>2, <2>3 DEF Restart, Once, RememberedToday
<1>3. CASE UNCHANGED vars
  BY <1>3 DEF vars, Once, RememberedToday
<1>4. QED
  BY <1>1, <1>2, <1>3 DEF Next

\* A process that has been up since midnight has fired no task twice today,
\* however late its ticks were and wherever the scheduled times are.
THEOREM DailyTasksRunOnce == Spec => []AtMostOncePerDay
<1>1. Once => AtMostOncePerDay
  <2> SUFFICES ASSUME Once, ~restarted, NEW t \in Tasks PROVE runs[t] <= 1
    BY DEF AtMostOncePerDay
  <2>1. runs[t] = IF t \in ranToday THEN 1 ELSE 0
    BY DEF Once, RememberedToday
  <2>2. QED
    BY <2>1
<1>2. QED
  BY OnceInit, OnceStep, <1>1, PTL DEF Spec

(***************************************************************************)
(* The alert pipeline: counted in ticks, no later than promised.           *)
(***************************************************************************)
PipelineTypeOK ==
  /\ dedup \in Nat
  /\ reachable \in [Switches -> BOOLEAN]
  /\ wait \in [Switches -> 0 .. PollTicks]
  /\ failures \in [Switches -> 0 .. Threshold]
  /\ isDown \in [Switches -> BOOLEAN]
  /\ cool \in [Switches -> [Kinds -> Nat]]
  /\ batch \in [Kinds -> SUBSET Switches]
  /\ left \in [Kinds -> 0 .. Off]
  /\ inbox \in [Switches -> Kinds \union {"none"}]
  /\ outage \in [Switches -> Nat]
  /\ since \in [Switches -> [Kinds -> Nat]]

\* The window and what has gone since the last alert make up at least alert_dedup_seconds;
\* more, where an alert was suppressed and started the window again.
WindowsAreLong == \A s \in Switches, k \in Kinds : cool[s][k] <= dedup /\ cool[s][k] + since[s][k] >= dedup

\* A batch that is collecting is flushed when its window ends.
BatchesEnd == \A k \in Kinds : batch[k] # {} => left[k] <= BatchTicks

\* Ticks to the poll that finds the switch down for the Threshold-th time, if it does
\* not answer until then.
ToDown(s) == wait[s] + PollTicks * (Threshold - failures[s] - 1)

\* Of a switch that is not down yet: its outage has not lasted for Threshold polls, and a
\* RESTORED that is still collecting goes out before it can be found down.
UpIsInTime(s) ==
  ~isDown[s] =>
    /\ failures[s] < Threshold
    /\ ~reachable[s] => outage[s] + ToDown(s) <= PollTicks * Threshold
    /\ s \in batch["restored"] => left["restored"] < ToDown(s)

\* Of one that is down: no RESTORED is collecting, and DOWN is mailed or goes out in time.
DownIsInTime(s) ==
  isDown[s] =>
    /\ s \notin batch["restored"]
    /\ \/ inbox[s] = "down"
       \/ s \in batch["down"] /\ (~reachable[s] => outage[s] + left["down"] <= Latency)

InTime(s) == /\ reachable[s] => outage[s] = 0
             /\ UpIsInTime(s) /\ DownIsInTime(s)

PipelineInv ==
  /\ PipelineTypeOK /\ WindowsAreLong /\ BatchesEnd
  /\ PollTicks * Threshold > BatchTicks /\ dedup = 0 => \A s \in Switches : InTime(s)

\* Multiples of the poll interval.
LEMMA PollsAddUp ==
  /\ PollTicks \in Nat \ {0} /\ Threshold \in Nat \ {0} /\ BatchTicks \in Nat /\ Off = BatchTicks + 1
  /\ PollTicks * Threshold \in Nat
  /\ Latency = PollTicks * Threshold + BatchTicks
  /\ \A n \in Nat : n < Threshold =>
       /\ PollTicks * (Threshold - n - 1) \in Nat
       /\ PollTicks * (Threshold - n - 1) <= PollTicks * Threshold - PollTicks
       /\ PollTicks * (Threshold - (n + 1) - 1) = PollTicks * (Threshold - n - 1) - PollTicks
       /\ n + 1 = Threshold => PollTicks * (Threshold - n - 1) = 0
  /\ PollTicks * (Threshold - 0 - 1) = PollTicks * Threshold - PollTicks
<1>1. /\ PollTicks \in Nat \ {0} /\ Threshold \in Nat \ {0} /\ BatchTicks \in Nat
      /\ Off = BatchTicks + 1 /\ Latency = PollTicks * Threshold + BatchTicks
  BY PipelineAssumption DEF Off, Latency
<1>2. PollTicks * Threshold \in Nat
  BY <1>1
<1>3. PollTicks * (Threshold - 0 - 1) = PollTicks * Threshold - PollTicks
  BY <1>1
<1>4. ASSUME NEW n \in Nat, n < Threshold
      PROVE  /\ PollTicks * (Threshold - n - 1) \in Nat
             /\ PollTicks * (Threshold - n - 1) <= PollTicks * Threshold - PollTicks
             /\ PollTicks * (Threshold - (n + 1) - 1) = PollTicks * (Threshold - n - 1) - PollTicks
             /\ n + 1 = Threshold => PollTicks * (Threshold - n - 1) = 0
  <2>1. Threshold - n - 1 \in Nat /\ PollTicks * n \in Nat
    BY <1>1, <1>4
  <2>2. PollTicks * (Threshold - n - 1) = PollTicks * Threshold - PollTicks * n - PollTicks
    BY <1>1
  <2>3. PollTicks * (Threshold - (n + 1) - 1) = PollTicks * (Threshold - n - 1) - PollTicks
    BY <1>1
  <2>4. n + 1 = Threshold => PollTicks * (Threshold - n - 1) = 0
    BY <1>1
  <2>5. PollTicks * (Threshold - n - 1) \in Nat
    BY <1>1, <2>1
  <2>6. QED
    BY <1>1, <1>2, <2>1, <2>2, <2>3, <2>4, <2>5
<1>5. QED
  BY <1>1, <1>2, <1>3, <1>4

LEMMA PipelineInvInit == PipelineInit => PipelineInv
<1> SUFFICES ASSUME PipelineInit PROVE PipelineInv
  OBVIOUS
<1> USE DEF PipelineInit
<1>1. PipelineTypeOK
  BY PollsAddUp, PipelineAssumption DEF PipelineTypeOK
<1>2. WindowsAreLong /\ BatchesEnd
  BY <1>1 DEF PipelineTypeOK, WindowsAreLong, BatchesEnd
<1>3. ASSUME NEW s \in Switches PROVE InTime(s)
  <2>1. reachable[s] = TRUE /\ isDown[s] = FALSE /\ outage[s] = 0 /\ failures[s] = 0
        /\ batch["restored"] = {}
    BY DEF Kinds
  <2>2. UpIsInTime(s)
    <3>1. failures[s] < Threshold
      BY <2>1, PipelineAssumption
    <3>2. reachable[s] /\ s \notin batch["restored"]
      BY <2>1
    <3>3. QED
      BY <3>1, <3>2 DEF UpIsInTime
  <2>3. DownIsInTime(s)
    BY <2>1 DEF DownIsInTime
  <2>4. QED
    BY <2>1, <2>2, <2>3 DEF InTime
<1>4. QED
  BY <1>1, <1>2, <1>3 DEF PipelineInv

(***************************************************************************)
(* An alert                                                                *)
(***************************************************************************)
\* What handing an alert over does to its batch, or to the inbox.
LEMMA AlertDoes ==
  ASSUME PipelineInv, NEW s \in Switches, NEW k \in Kinds, Alert(s, k)
  PROVE  /\ cool' \in [Switches -> [Kinds -> Nat]] /\ since' \in [Switches -> [Kinds -> Nat]]
         /\ batch' \in [Kinds -> SUBSET Switches] /\ left' \in [Kinds -> 0 .. Off]
         /\ inbox' \in [Switches -> Kinds \union {"none"}]
         /\ \A t \in Switches, j \in Kinds :
              /\ cool'[t][j] = IF t = s /\ j = k THEN dedup ELSE cool[t][j]
              /\ \/ since'[t][j] = since[t][j]
                 \/ t = s /\ j = k /\ since'[t][j] = 0 /\ cool[s][k] = 0
         /\ \A j \in Kinds : batch'[j] # {} /\ batch[j] = {} => left'[j] <= BatchTicks
         /\ \A j \in Kinds : batch[j] # {} => left'[j] = left[j]
         /\ \A j \in Kinds \ {k} : batch'[j] = batch[j] /\ left'[j] = left[j]
         /\ batch'[k] = batch[k] \/ batch'[k] = batch[k] \union {s}
         /\ \A t \in Switches \ {s} : inbox'[t] = inbox[t]
         /\ inbox'[s] \in {inbox[s], k}
         /\ cool[s][k] = 0 => (BatchTicks = 0 /\ inbox'[s] = k) \/ (s \in batch'[k] /\ BatchTicks # 0)
<1>1. PipelineTypeOK /\ BatchesEnd /\ BatchTicks \in Nat /\ Off = BatchTicks + 1
  BY PollsAddUp DEF PipelineInv
<1>2. /\ cool' = [cool EXCEPT ![s] = [cool[s] EXCEPT ![k] = dedup]]
      /\ IF cool[s][k] > 0
         THEN UNCHANGED <<batch, left, inbox, since>>
         ELSE HandOver(s, k) /\ since' = [since EXCEPT ![s][k] = 0]
  BY DEF Alert, WindowAfter
<1>3. /\ cool' \in [Switches -> [Kinds -> Nat]]
      /\ \A t \in Switches, j \in Kinds :
           cool'[t][j] = IF t = s /\ j = k THEN dedup ELSE cool[t][j]
  BY <1>1, <1>2 DEF PipelineTypeOK
<1>4. CASE cool[s][k] > 0
  <2>1. cool[s][k] # 0
    BY <1>1, <1>4 DEF PipelineTypeOK
  <2>2. UNCHANGED <<batch, left, inbox, since>>
    BY <1>2, <1>4
  <2>3. QED
    BY <1>1, <1>3, <2>1, <2>2 DEF PipelineTypeOK
<1>5. CASE ~(cool[s][k] > 0)
  <2>1. cool[s][k] = 0
    BY <1>1, <1>5 DEF PipelineTypeOK
  <2>2. HandOver(s, k) /\ since' = [since EXCEPT ![s][k] = 0]
    BY <1>2, <1>5
  <2>3. /\ since' \in [Switches -> [Kinds -> Nat]]
        /\ \A t \in Switches, j \in Kinds :
             since'[t][j] = IF t = s /\ j = k THEN 0 ELSE since[t][j]
    BY <1>1, <2>2 DEF PipelineTypeOK
  <2>4. CASE BatchTicks = 0
    <3>1. inbox' = [inbox EXCEPT ![s] = k] /\ batch' = batch /\ left' = left
      BY <2>2, <2>4 DEF HandOver
    <3>2. inbox' \in [Switches -> Kinds \union {"none"}] /\ inbox'[s] = k
          /\ \A t \in Switches \ {s} : inbox'[t] = inbox[t]
      BY <1>1, <3>1 DEF PipelineTypeOK
    <3>3. QED
      BY <1>1, <1>3, <2>1, <2>3, <2>4, <3>1, <3>2 DEF PipelineTypeOK
  <2>5. CASE BatchTicks # 0
    <3>1. /\ batch' = [batch EXCEPT ![k] = batch[k] \union {s}]
          /\ left' = IF left[k] = Off THEN [left EXCEPT ![k] = BatchTicks] ELSE left
          /\ inbox' = inbox
      BY <1>1, <2>2, <2>5 DEF HandOver, PipelineTypeOK
    <3>2. /\ batch' \in [Kinds -> SUBSET Switches] /\ left' \in [Kinds -> 0 .. Off]
          /\ batch'[k] = batch[k] \union {s}
          /\ \A j \in Kinds \ {k} : batch'[j] = batch[j] /\ left'[j] = left[j]
          /\ left'[k] = IF left[k] = Off THEN BatchTicks ELSE left[k]
      BY <1>1, <3>1 DEF PipelineTypeOK
    <3>3. left'[k] <= BatchTicks
      BY <1>1, <3>2 DEF PipelineTypeOK
    <3>4. batch[k] # {} => left'[k] = left[k]
      <4>1. batch[k] # {} => left[k] <= BatchTicks
        BY <1>1 DEF BatchesEnd
      <4>2. left[k] <= BatchTicks => left[k] # Off
        BY <1>1
      <4>3. QED
        BY <3>2, <4>1, <4>2
    <3>5. QED
      BY <1>1, <1>3, <2>1, <2>3, <2>5, <3>1, <3>2, <3>3, <3>4 DEF PipelineTypeOK
  <2>6. QED
    BY <2>4, <2>5
<1>6. QED
  BY <1>4, <1>5, <1>1 DEF PipelineTypeOK

LEMMA AlertKeepsWindows ==
  ASSUME PipelineInv, NEW s \in Switches, NEW k \in Kinds, Alert(s, k), UNCHANGED dedup
  PROVE  /\ WindowsAreLong'
         /\ \A t \in Switches, j \in Kinds :
              since[t][j] # 0 /\ since'[t][j] = 0 => since[t][j] >= dedup
<1>1. \A t \in Switches, j \in Kinds :
        /\ cool[t][j] \in Nat /\ since[t][j] \in Nat /\ dedup \in Nat
        /\ cool[t][j] <= dedup /\ cool[t][j] + since[t][j] >= dedup
        /\ cool'[t][j] \in Nat /\ since'[t][j] \in Nat
        /\ cool'[t][j] = IF t = s /\ j = k THEN dedup ELSE cool[t][j]
        /\ \/ since'[t][j] = since[t][j]
           \/ t = s /\ j = k /\ since'[t][j] = 0 /\ cool[s][k] = 0
  BY AlertDoes DEF PipelineInv, PipelineTypeOK, WindowsAreLong
<1>2. QED
  BY <1>1 DEF WindowsAreLong

\* With no dedup window every alert is handed over.
LEMMA NoneIsSuppressed ==
  ASSUME PipelineInv, dedup = 0, NEW s \in Switches, NEW k \in Kinds
  PROVE  cool[s][k] = 0
  BY DEF PipelineInv, PipelineTypeOK, WindowsAreLong

\* An alert about one switch leaves the others in time.
LEMMA AlertLeavesOthers ==
  ASSUME PipelineInv, NEW s \in Switches, NEW k \in Kinds, Alert(s, k),
         NEW t \in Switches \ {s}, InTime(t),
         reachable'[t] = reachable[t], wait'[t] = wait[t], failures'[t] = failures[t],
         isDown'[t] = isDown[t], outage'[t] = outage[t]
  PROVE  InTime(t)'
<1>1. {"down", "restored"} \subseteq Kinds
  BY DEF Kinds
<1>2. /\ \A j \in Kinds : /\ t \in batch'[j] <=> t \in batch[j]
                          /\ t \in batch[j] => left'[j] = left[j]
      /\ inbox'[t] = inbox[t]
  <2>1. ASSUME NEW j \in Kinds PROVE t \in batch'[j] <=> t \in batch[j]
    BY AlertDoes
  <2>2. ASSUME NEW j \in Kinds, t \in batch[j] PROVE left'[j] = left[j]
    BY <2>2, AlertDoes
  <2>3. inbox'[t] = inbox[t]
    BY AlertDoes
  <2>4. QED
    BY <2>1, <2>2, <2>3
<1>3. QED
  BY <1>1, <1>2 DEF InTime, UpIsInTime, DownIsInTime, ToDown

\* Nothing but the alert, and the state of the switch polled.
LEMMA PollDoes ==
  ASSUME PipelineInv, NEW s \in Switches, Poll(s)
  PROVE  /\ wait[s] = 0
         /\ wait' = [wait EXCEPT ![s] = PollTicks]
         /\ failures' = [failures EXCEPT ![s] =
              IF reachable[s] THEN 0 ELSE IF failures[s] < Threshold THEN failures[s] + 1 ELSE Threshold]
         /\ UNCHANGED <<dedup, reachable, outage>>
         /\ \/ /\ ~reachable[s] /\ ~isDown[s] /\ failures[s] + 1 >= Threshold
               /\ Alert(s, "down") /\ isDown' = [isDown EXCEPT ![s] = TRUE]
            \/ /\ reachable[s] /\ isDown[s]
               /\ Alert(s, "restored") /\ isDown' = [isDown EXCEPT ![s] = FALSE]
            \/ /\ ~(~reachable[s] /\ ~isDown[s] /\ failures[s] + 1 >= Threshold)
               /\ ~(reachable[s] /\ isDown[s])
               /\ UNCHANGED <<cool, batch, left, inbox, since>> /\ isDown' = isDown
<1> DEFINE n == IF failures[s] < Threshold THEN failures[s] + 1 ELSE Threshold
           goesDown == ~reachable[s] /\ n >= Threshold /\ ~isDown[s]
           comesUp  == reachable[s] /\ isDown[s]
<1>1. /\ failures[s] \in 0 .. Threshold /\ Threshold \in Nat /\ isDown \in [Switches -> BOOLEAN]
      /\ isDown[s] \in BOOLEAN /\ reachable[s] \in BOOLEAN
  BY PollsAddUp DEF PipelineInv, PipelineTypeOK
<1>2. n >= Threshold <=> failures[s] + 1 >= Threshold
  BY <1>1
<1>3. /\ wait[s] = 0 /\ wait' = [wait EXCEPT ![s] = PollTicks]
      /\ failures' = [failures EXCEPT ![s] = IF reachable[s] THEN 0 ELSE n]
      /\ isDown' = [isDown EXCEPT ![s] = (isDown[s] \/ goesDown) /\ ~comesUp]
      /\ IF goesDown THEN Alert(s, "down")
         ELSE IF comesUp THEN Alert(s, "restored")
         ELSE UNCHANGED <<cool, batch, left, inbox, since>>
      /\ UNCHANGED <<dedup, reachable, outage>>
  BY <1>1 DEF Poll
<1>4. CASE goesDown
  <2>1. (isDown[s] \/ goesDown) /\ ~comesUp <=> TRUE
    BY <1>4
  <2>2. isDown' = [isDown EXCEPT ![s] = TRUE]
    BY <1>3, <2>1
  <2>3. QED
    BY <1>2, <1>3, <1>4, <2>2
<1>5. CASE comesUp
  <2>1. ((isDown[s] \/ goesDown) /\ ~comesUp) = FALSE /\ ~goesDown
    BY <1>5
  <2>2. isDown' = [isDown EXCEPT ![s] = FALSE]
    BY <1>3, <2>1
  <2>3. QED
    BY <1>3, <1>5, <2>1, <2>2
<1>6. CASE ~goesDown /\ ~comesUp
  <2>1. ((isDown[s] \/ goesDown) /\ ~comesUp) = isDown[s]
    BY <1>1, <1>6
  <2>2. isDown' = [isDown EXCEPT ![s] = isDown[s]]
    BY <1>3, <2>1
  <2>3. isDown' = isDown
    BY <1>1, <2>2
  <2>4. QED
    BY <1>2, <1>3, <1>6, <2>3
<1>7. QED
  BY <1>4, <1>5, <1>6

\* A poll keeps its own switch in time: not a poll too late is it found down, by when no
\* RESTORED is collecting; and found up, it is Threshold polls from being found down.
LEMMA PollKeepsOwn ==
  ASSUME PipelineInv, PollTicks * Threshold > BatchTicks, dedup = 0,
         NEW s \in Switches, Poll(s), BatchesEnd'
  PROVE  InTime(s)'
<1>1. /\ InTime(s) /\ failures[s] \in Nat /\ outage[s] \in Nat /\ Threshold \in Nat /\ BatchTicks \in Nat
      /\ PollTicks \in Nat /\ PollTicks * Threshold \in Nat
      /\ {"down", "restored"} \subseteq Kinds
      /\ \A k \in Kinds : left[k] \in Nat
      /\ Latency = PollTicks * Threshold + BatchTicks
  BY PollsAddUp DEF PipelineInv, PipelineTypeOK, Kinds
<1>2. /\ wait[s] = 0 /\ wait'[s] = PollTicks /\ outage' = outage /\ reachable' = reachable
      /\ failures'[s] = IF reachable[s] THEN 0
                        ELSE IF failures[s] < Threshold THEN failures[s] + 1 ELSE Threshold
  BY PollDoes DEF PipelineInv, PipelineTypeOK
<1>3. reachable'[s] => outage'[s] = 0
  BY <1>1, <1>2 DEF InTime
<1>4. \A k \in Kinds : s \in batch'[k] => left'[k] <= BatchTicks
  BY DEF BatchesEnd
<1>5. CASE /\ ~reachable[s] /\ ~isDown[s] /\ failures[s] + 1 >= Threshold
           /\ Alert(s, "down") /\ isDown' = [isDown EXCEPT ![s] = TRUE]
  <2>1. isDown'[s]
    BY <1>5 DEF PipelineInv, PipelineTypeOK
  <2>2. failures[s] < Threshold /\ failures[s] + 1 = Threshold
    BY <1>1, <1>5 DEF InTime, UpIsInTime
  <2>3. ToDown(s) = 0
    BY <1>1, <1>2, <2>2, PollsAddUp DEF ToDown
  <2>4. outage[s] <= PollTicks * Threshold
    BY <1>1, <1>5, <2>3 DEF InTime, UpIsInTime
  <2>5. s \notin batch["restored"]
    BY <1>1, <1>5, <2>3 DEF InTime, UpIsInTime
  <2>6. batch'["restored"] = batch["restored"]
    BY <1>5, AlertDoes DEF Kinds
  <2>7. \/ inbox'[s] = "down"
        \/ s \in batch'["down"]
    BY <1>1, <1>5, AlertDoes, NoneIsSuppressed
  <2>8. s \in batch'["down"] => outage[s] + left'["down"] <= Latency
    <3>1. left'["down"] \in Nat
      BY <1>1, <1>5, AlertDoes DEF Off
    <3>2. QED
      BY <1>1, <1>4, <2>4, <3>1
  <2>9. DownIsInTime(s)'
    BY <1>2, <2>5, <2>6, <2>7, <2>8 DEF DownIsInTime
  <2>10. QED
    BY <1>3, <2>1, <2>9 DEF InTime, UpIsInTime
<1>6. CASE reachable[s]
  <2>1. failures'[s] = 0 /\ ToDown(s)' = PollTicks * Threshold
    BY <1>1, <1>2, <1>6, PollsAddUp DEF ToDown
  <2>2. s \in batch'["restored"] => left'["restored"] < PollTicks * Threshold
    <3>1. left'["restored"] \in Nat
      BY <1>1, <1>6, PollDoes, AlertDoes DEF Off
    <3>2. QED
      BY <1>1, <1>4, <3>1
  <2>3. failures'[s] < Threshold
    BY <2>1, PollsAddUp
  <2>4. UpIsInTime(s)'
    BY <1>2, <1>6, <2>1, <2>2, <2>3 DEF UpIsInTime
  <2>5. ~isDown'[s]
    BY <1>6, PollDoes DEF PipelineInv, PipelineTypeOK
  <2>6. QED
    BY <1>3, <2>4, <2>5 DEF InTime, DownIsInTime
<1>7. CASE /\ ~reachable[s] /\ UNCHANGED <<cool, batch, left, inbox, since>> /\ isDown' = isDown
           /\ ~(~isDown[s] /\ failures[s] + 1 >= Threshold)
  <2>1. CASE isDown[s]
    BY <1>1, <1>2, <1>3, <1>7, <2>1 DEF InTime, UpIsInTime, DownIsInTime
  <2>2. CASE ~isDown[s]
    <3>1. failures[s] + 1 < Threshold
      BY <1>1, <1>7, <2>2
    <3>2. failures'[s] = failures[s] + 1
      BY <1>1, <1>2, <1>7, <3>1
    <3>3. ToDown(s)' = ToDown(s)
      <4>1. PollTicks * (Threshold - (failures[s] + 1) - 1) = PollTicks * (Threshold - failures[s] - 1) - PollTicks
            /\ PollTicks * (Threshold - failures[s] - 1) \in Nat
        BY <1>1, <3>1, PollsAddUp
      <4>2. QED
        BY <1>1, <1>2, <3>2, <4>1 DEF ToDown
    <3>4. UpIsInTime(s)'
      BY <1>1, <1>2, <1>7, <2>2, <3>1, <3>2, <3>3 DEF InTime, UpIsInTime
    <3>5. QED
      BY <1>3, <1>7, <2>2, <3>4 DEF InTime, DownIsInTime
  <2>3. QED
    BY <2>1, <2>2
<1>8. QED
  BY <1>5, <1>6, <1>7, PollDoes

LEMMA PollKeepsInv ==
  ASSUME PipelineInv, NEW s \in Switches, Poll(s)
  PROVE  /\ PipelineInv'
         /\ \A t \in Switches, j \in Kinds :
              since[t][j] # 0 /\ since'[t][j] = 0 => since[t][j] >= dedup
<1> DEFINE Spaced == \A t \in Switches, j \in Kinds :
                       since[t][j] # 0 /\ since'[t][j] = 0 => since[t][j] >= dedup
<1>1. PollTicks \in Nat /\ Threshold \in Nat \ {0} /\ PipelineTypeOK /\ WindowsAreLong /\ BatchesEnd
  BY PollsAddUp DEF PipelineInv
<1>2. /\ wait' = [wait EXCEPT ![s] = PollTicks] /\ UNCHANGED <<dedup, reachable, outage>>
      /\ failures' = [failures EXCEPT ![s] =
           IF reachable[s] THEN 0 ELSE IF failures[s] < Threshold THEN failures[s] + 1 ELSE Threshold]
  BY PollDoes
<1>3. wait' \in [Switches -> 0 .. PollTicks] /\ failures' \in [Switches -> 0 .. Threshold]
  BY <1>1, <1>2 DEF PipelineTypeOK
<1>4. isDown' \in [Switches -> BOOLEAN] /\ \A t \in Switches \ {s} : isDown'[t] = isDown[t]
  <2>1. isDown \in [Switches -> BOOLEAN]
    BY <1>1 DEF PipelineTypeOK
  <2>2. \/ isDown' = [isDown EXCEPT ![s] = TRUE]
        \/ isDown' = [isDown EXCEPT ![s] = FALSE]
        \/ isDown' = isDown
    BY PollDoes
  <2>3. QED
    BY <2>1, <2>2
<1>5. CASE UNCHANGED <<cool, batch, left, inbox, since>>
  <2>1. PipelineTypeOK'
    BY <1>1, <1>2, <1>3, <1>4, <1>5 DEF PipelineTypeOK
  <2>2. WindowsAreLong' /\ BatchesEnd' /\ Spaced
    BY <1>1, <1>2, <1>5 DEF WindowsAreLong, BatchesEnd
  <2>3. ASSUME PollTicks * Threshold > BatchTicks, dedup = 0, NEW t \in Switches PROVE InTime(t)'
    <3>1. CASE t = s
      BY <2>2, <2>3, <3>1, PollKeepsOwn
    <3>2. CASE t # s
      <4>1. InTime(t)
        BY <2>3 DEF PipelineInv
      <4>2. /\ wait'[t] = wait[t] /\ failures'[t] = failures[t] /\ isDown'[t] = isDown[t]
            /\ reachable' = reachable /\ outage' = outage
        BY <1>1, <1>2, <1>4, <3>2 DEF PipelineTypeOK
      <4>3. QED
        BY <1>5, <4>1, <4>2 DEF InTime, UpIsInTime, DownIsInTime, ToDown
    <3>3. QED
      BY <3>1, <3>2
  <2>4. QED
    BY <1>2, <2>1, <2>2, <2>3 DEF PipelineInv
<1>6. ASSUME NEW k \in Kinds, Alert(s, k) PROVE PipelineInv' /\ Spaced
  <2>1. PipelineTypeOK'
    BY <1>1, <1>2, <1>3, <1>4, <1>6, AlertDoes DEF PipelineTypeOK
  <2>2. WindowsAreLong' /\ Spaced
    BY <1>2, <1>6, AlertKeepsWindows
  <2>3. BatchesEnd'
    <3> SUFFICES ASSUME NEW j \in Kinds, batch'[j] # {} PROVE left'[j] <= BatchTicks
      BY DEF BatchesEnd
    <3>1. batch[j] # {} => left[j] <= BatchTicks /\ left'[j] = left[j]
      BY <1>1, <1>6, AlertDoes DEF BatchesEnd
    <3>2. batch[j] = {} => left'[j] <= BatchTicks
      BY <1>6, AlertDoes
    <3>3. QED
      BY <3>1, <3>2
  <2>4. ASSUME PollTicks * Threshold > BatchTicks, dedup = 0, NEW t \in Switches PROVE InTime(t)'
    <3>1. CASE t = s
      BY <2>3, <2>4, <3>1, PollKeepsOwn
    <3>2. CASE t # s
      <4>1. InTime(t)
        BY <2>4 DEF PipelineInv
      <4>2. /\ wait'[t] = wait[t] /\ failures'[t] = failures[t] /\ isDown'[t] = isDown[t]
            /\ reachable'[t] = reachable[t] /\ outage'[t] = outage[t]
        BY <1>1, <1>2, <1>4, <3>2 DEF PipelineTypeOK
      <4>3. QED
        BY <1>6, <3>2, <4>1, <4>2, AlertLeavesOthers
    <3>3. QED
      BY <3>1, <3>2
  <2>5. QED
    BY <1>2, <2>1, <2>2, <2>3, <2>4 DEF PipelineInv
<1>7. "down" \in Kinds /\ "restored" \in Kinds
  BY DEF Kinds
<1>8. QED
  BY <1>5, <1>6, <1>7, PollDoes

(***************************************************************************)
(* Flushes, time and outages                                               *)
(***************************************************************************)
LEMMA FlushKeepsInv == ASSUME PipelineInv, NEW k \in Kinds, Flush(k) PROVE PipelineInv'
<1>1. /\ left[k] = 0 /\ batch' = [batch EXCEPT ![k] = {}] /\ left' = [left EXCEPT ![k] = Off]
      /\ inbox' = [s \in Switches |-> IF s \in batch[k] THEN k ELSE inbox[s]]
      /\ UNCHANGED <<dedup, reachable, wait, failures, isDown, cool, outage, since>>
  BY DEF Flush
<1>2. PipelineTypeOK /\ Off \in 0 .. Off
  BY PollsAddUp DEF PipelineInv
<1>3. PipelineTypeOK'
  BY <1>1, <1>2 DEF PipelineTypeOK
<1>4. \A j \in Kinds : /\ j # k => batch'[j] = batch[j] /\ left'[j] = left[j]
                       /\ j = k => batch'[j] = {}
  BY <1>1, <1>2 DEF PipelineTypeOK
<1>5. WindowsAreLong' /\ BatchesEnd'
  BY <1>1, <1>4 DEF PipelineInv, WindowsAreLong, BatchesEnd
<1>6. ASSUME PollTicks * Threshold > BatchTicks, dedup = 0, NEW s \in Switches PROVE InTime(s)'
  <2>1. InTime(s) /\ k \in {"down", "restored"} /\ "down" \in Kinds /\ "restored" \in Kinds
    BY <1>6 DEF PipelineInv, Kinds
  <2>2. UpIsInTime(s)'
    BY <1>1, <1>4, <2>1 DEF InTime, UpIsInTime, ToDown
  <2>3. DownIsInTime(s)'
    <3> SUFFICES ASSUME isDown[s]
                 PROVE  /\ s \notin batch'["restored"]
                        /\ \/ inbox'[s] = "down"
                           \/ s \in batch'["down"]
                              /\ (~reachable[s] => outage[s] + left'["down"] <= Latency)
      BY <1>1 DEF DownIsInTime
    <3>1. /\ s \notin batch["restored"]
          /\ \/ inbox[s] = "down"
             \/ s \in batch["down"] /\ (~reachable[s] => outage[s] + left["down"] <= Latency)
      BY <2>1 DEF InTime, DownIsInTime
    <3>2. s \notin batch'["restored"]
      BY <1>4, <2>1, <3>1
    <3>3. inbox'[s] = IF s \in batch[k] THEN k ELSE inbox[s]
      BY <1>1
    <3>4. CASE k = "down"
      BY <3>1, <3>2, <3>3, <3>4
    <3>5. CASE k = "restored"
      BY <1>4, <2>1, <3>1, <3>2, <3>3, <3>5
    <3>6. QED
      BY <2>1, <3>4, <3>5
  <2>4. QED
    BY <1>1, <2>1, <2>2, <2>3 DEF InTime
<1>7. QED
  BY <1>1, <1>3, <1>5, <1>6 DEF PipelineInv

LEMMA TickKeepsInv ==
  ASSUME PipelineInv, PipelineTick
  PROVE  /\ PipelineInv'
         /\ \A t \in Switches, j \in Kinds :
              since[t][j] # 0 /\ since'[t][j] = 0 => since[t][j] >= dedup
<1>1. /\ \A s \in Switches : wait[s] > 0
      /\ \A k \in Kinds : left[k] > 0
      /\ wait' = [s \in Switches |-> wait[s] - 1]
      /\ left' = [k \in Kinds |-> IF left[k] = Off THEN Off ELSE left[k] - 1]
      /\ cool' = [s \in Switches |-> [k \in Kinds |-> Down1(cool[s][k])]]
      /\ outage' = [s \in Switches |->
           IF reachable[s] THEN 0
           ELSE IF outage[s] < Latency THEN outage[s] + 1 ELSE Latency]
      /\ since' = [s \in Switches |-> [k \in Kinds |->
           IF since[s][k] < dedup THEN since[s][k] + 1 ELSE dedup]]
      /\ UNCHANGED <<dedup, reachable, failures, isDown, batch, inbox>>
  BY DEF PipelineTick
<1>2. /\ PipelineTypeOK /\ Latency \in Nat /\ Off \in Nat /\ BatchTicks \in Nat /\ PollTicks \in Nat
      /\ Off = BatchTicks + 1
  BY PollsAddUp DEF PipelineInv
<1>3. PipelineTypeOK'
  <2>1. wait' \in [Switches -> 0 .. PollTicks] /\ left' \in [Kinds -> 0 .. Off]
    BY <1>1, <1>2 DEF PipelineTypeOK
  <2>2. outage' \in [Switches -> Nat]
    BY <1>1, <1>2 DEF PipelineTypeOK
  <2>3. cool' \in [Switches -> [Kinds -> Nat]] /\ since' \in [Switches -> [Kinds -> Nat]]
    BY <1>1, <1>2 DEF PipelineTypeOK, Down1
  <2>4. QED
    BY <1>1, <1>2, <2>1, <2>2, <2>3 DEF PipelineTypeOK
<1>4. ASSUME NEW s \in Switches, NEW k \in Kinds
      PROVE  /\ cool'[s][k] <= dedup /\ cool'[s][k] + since'[s][k] >= dedup
             /\ since[s][k] # 0 /\ since'[s][k] = 0 => since[s][k] >= dedup
  <2>1. /\ cool'[s][k] = IF cool[s][k] > 0 THEN cool[s][k] - 1 ELSE 0
        /\ since'[s][k] = IF since[s][k] < dedup THEN since[s][k] + 1 ELSE dedup
    BY <1>1 DEF Down1
  <2>2. /\ cool[s][k] \in Nat /\ since[s][k] \in Nat /\ dedup \in Nat
        /\ cool[s][k] <= dedup /\ cool[s][k] + since[s][k] >= dedup
    BY <1>2 DEF PipelineInv, PipelineTypeOK, WindowsAreLong
  <2>3. QED
    BY <2>1, <2>2
<1>5. WindowsAreLong'
  BY <1>1, <1>4 DEF WindowsAreLong
<1>6. ASSUME NEW k \in Kinds, batch[k] # {}
      PROVE  left'[k] = left[k] - 1 /\ left[k] <= BatchTicks /\ left[k] \in Nat
  <2>1. left[k] <= BatchTicks /\ left[k] \in Nat
    BY <1>2, <1>6 DEF PipelineInv, BatchesEnd, PipelineTypeOK
  <2>2. left[k] # Off
    BY <1>2, <2>1
  <2>3. QED
    BY <1>1, <2>1, <2>2
<1>7. BatchesEnd'
  <2> SUFFICES ASSUME NEW k \in Kinds, batch[k] # {} PROVE left'[k] <= BatchTicks
    BY <1>1 DEF BatchesEnd
  <2>1. QED
    BY <1>2, <1>6
<1>8. ASSUME PollTicks * Threshold > BatchTicks, dedup = 0, NEW s \in Switches PROVE InTime(s)'
  <2>1. /\ InTime(s) /\ "down" \in Kinds /\ "restored" \in Kinds
        /\ wait[s] \in Nat /\ outage[s] \in Nat /\ failures[s] \in Nat
        /\ PollTicks * Threshold \in Nat
    BY <1>2, <1>8, PollsAddUp DEF PipelineInv, PipelineTypeOK, Kinds
  <2>2. /\ wait'[s] = wait[s] - 1
        /\ outage'[s] \in Nat /\ outage'[s] <= outage[s] + 1
        /\ reachable[s] => outage'[s] = 0
    BY <1>1, <1>2, <2>1
  <2>3. ~isDown[s] => ToDown(s)' = ToDown(s) - 1 /\ ToDown(s) \in Nat
    <3>1. ~isDown[s] => PollTicks * (Threshold - failures[s] - 1) \in Nat
      BY <2>1, PollsAddUp DEF InTime, UpIsInTime
    <3>2. QED
      BY <1>1, <2>1, <2>2, <3>1 DEF ToDown
  <2>4. UpIsInTime(s)'
    <3> SUFFICES ASSUME ~isDown[s] PROVE UpIsInTime(s)'
      BY <1>1 DEF UpIsInTime
    <3>1. /\ failures[s] < Threshold
          /\ ~reachable[s] => outage[s] + ToDown(s) <= PollTicks * Threshold
          /\ s \in batch["restored"] => left["restored"] < ToDown(s)
      BY <2>1 DEF InTime, UpIsInTime
    <3>2. s \in batch["restored"] => left'["restored"] < ToDown(s) - 1
      BY <1>6, <2>1, <2>3, <3>1
    <3>3. ~reachable[s] => outage'[s] + (ToDown(s) - 1) <= PollTicks * Threshold
      BY <2>1, <2>2, <2>3, <3>1
    <3>4. QED
      BY <1>1, <2>3, <3>1, <3>2, <3>3 DEF UpIsInTime
  <2>5. DownIsInTime(s)'
    <3>1. s \in batch["down"] /\ outage[s] + left["down"] <= Latency
          => outage'[s] + left'["down"] <= Latency
      BY <1>2, <1>6, <2>1, <2>2
    <3>2. QED
      BY <1>1, <2>1, <3>1 DEF InTime, DownIsInTime
  <2>6. QED
    BY <1>1, <2>2, <2>4, <2>5 DEF InTime
<1>9. QED
  BY <1>1, <1>3, <1>4, <1>5, <1>7, <1>8 DEF PipelineInv

LEMMA ChangeKeepsInv == ASSUME PipelineInv, NEW s \in Switches, Change(s) PROVE PipelineInv'
<1>1. /\ reachable' = [reachable EXCEPT ![s] = ~reachable[s]]
      /\ outage' = [outage EXCEPT ![s] = 0]
      /\ UNCHANGED <<dedup, wait, failures, isDown, cool, batch, left, inbox, since>>
  BY DEF Change, PipelineInv, PipelineTypeOK
<1>2. PipelineTypeOK /\ PipelineTypeOK' /\ WindowsAreLong' /\ BatchesEnd'
  BY <1>1 DEF PipelineInv, PipelineTypeOK, WindowsAreLong, BatchesEnd
<1>3. ASSUME PollTicks * Threshold > BatchTicks, dedup = 0, NEW t \in Switches PROVE InTime(t)'
  <2>1. InTime(t) /\ "down" \in Kinds
    BY <1>3 DEF PipelineInv, Kinds
  <2>2. CASE t # s
    <3>1. reachable'[t] = reachable[t] /\ outage'[t] = outage[t]
      BY <1>1, <1>2, <2>2 DEF PipelineTypeOK
    <3>2. QED
      BY <1>1, <2>1, <3>1 DEF InTime, UpIsInTime, DownIsInTime, ToDown
  <2>3. CASE t = s
    <3>1. outage'[t] = 0
      BY <1>1, <1>2, <2>3 DEF PipelineTypeOK
    <3>2. ToDown(t)' = ToDown(t)
      BY <1>1 DEF ToDown
    <3>3. ~isDown[t] => 0 + ToDown(t) <= PollTicks * Threshold
      <4> SUFFICES ASSUME ~isDown[t] PROVE 0 + ToDown(t) <= PollTicks * Threshold
        OBVIOUS
      <4>1. failures[t] \in Nat /\ failures[t] < Threshold /\ wait[t] \in 0 .. PollTicks
        BY <1>2, <2>1, PollsAddUp DEF PipelineTypeOK, InTime, UpIsInTime
      <4>2. PollTicks * (Threshold - failures[t] - 1) \in Nat
            /\ PollTicks * (Threshold - failures[t] - 1) <= PollTicks * Threshold - PollTicks
        BY <4>1, PollsAddUp
      <4>3. PollTicks \in Nat /\ PollTicks * Threshold \in Nat
        BY PollsAddUp
      <4>4. QED
        BY <4>1, <4>2, <4>3 DEF ToDown
    <3>4. UpIsInTime(t)'
      BY <1>1, <2>1, <3>1, <3>2, <3>3 DEF InTime, UpIsInTime
    <3>5. t \in batch["down"] => 0 + left["down"] <= Latency
      <4>1. t \in batch["down"] => left["down"] <= BatchTicks
        BY <2>1 DEF PipelineInv, BatchesEnd
      <4>2. left["down"] \in Nat /\ BatchTicks \in Nat /\ PollTicks * Threshold \in Nat
            /\ Latency = PollTicks * Threshold + BatchTicks
        BY <1>2, <2>1, PollsAddUp DEF PipelineTypeOK
      <4>3. QED
        BY <4>1, <4>2
    <3>6. DownIsInTime(t)'
      BY <1>1, <2>1, <3>1, <3>5 DEF InTime, DownIsInTime
    <3>7. QED
      BY <3>1, <3>4, <3>6 DEF InTime
  <2>4. QED
    BY <2>2, <2>3
<1>4. QED
  BY <1>1, <1>2, <1>3 DEF PipelineInv

LEMMA PipelineInvStep ==
  ASSUME PipelineInv, [PipelineNext]_pipelineVars
  PROVE  /\ PipelineInv'
         /\ \A s \in Switches, k \in Kinds :
              since[s][k] # 0 /\ since'[s][k] = 0 => since[s][k] >= dedup
<1>1. ASSUME NEW s \in Switches, Poll(s) \/ Change(s)
      PROVE  PipelineInv' /\ \A t \in Switches, k \in Kinds :
               since[t][k] # 0 /\ since'[t][k] = 0 => since[t][k] >= dedup
  <2>1. Change(s) => since' = since
    BY DEF Change
  <2>2. QED
    BY <1>1, <2>1, PollKeepsInv, ChangeKeepsInv
<1>2. ASSUME NEW k \in Kinds, Flush(k) PROVE PipelineInv' /\ since' = since
  BY <1>2, FlushKeepsInv DEF Flush
<1>3. CASE UNCHANGED pipelineVars
  BY <1>3
  DEF pipelineVars, PipelineInv, PipelineTypeOK, WindowsAreLong, BatchesEnd, InTime, UpIsInTime,
      DownIsInTime, ToDown
<1>4. QED
  BY <1>1, <1>2, <1>3, TickKeepsInv DEF PipelineNext

\* Without a dedup window, a switch that has not answered for the failed polls and the
\* batching window has been mailed DOWN and nothing after it, for any number of switches
\* and any intervals such that a batch is over before the polls of an outage are.
THEOREM OutagesAreMailed ==
  ASSUME PollTicks * Threshold > BatchTicks
  PROVE  PipelineSpec => []OutageIsMailedInTime
<1>1. PipelineInv => OutageIsMailedInTime
  <2> SUFFICES ASSUME PipelineInv, NEW s \in Switches, dedup = 0, outage[s] >= Latency,
                      wait[s] > 0, \A k \in Kinds : left[k] > 0
               PROVE  inbox[s] = "down"
    BY DEF OutageIsMailedInTime
  <2>1. /\ InTime(s) /\ outage[s] \in Nat /\ wait[s] \in Nat /\ failures[s] \in Nat
        /\ "down" \in Kinds /\ left["down"] \in Nat /\ left["down"] > 0
    BY PollsAddUp DEF PipelineInv, PipelineTypeOK, Kinds
  <2>2. PollTicks * Threshold \in Nat /\ BatchTicks \in Nat /\ Latency = PollTicks * Threshold + BatchTicks
    BY PollsAddUp
  <2>3. ~reachable[s]
    BY <2>1, <2>2 DEF InTime
  <2>4. CASE ~isDown[s]
    <3>1. failures[s] < Threshold /\ outage[s] + ToDown(s) <= PollTicks * Threshold
      BY <2>1, <2>3, <2>4 DEF InTime, UpIsInTime
    <3>2. PollTicks * (Threshold - failures[s] - 1) \in Nat
      BY <2>1, <3>1, PollsAddUp
    <3>3. QED
      BY <2>1, <2>2, <3>1, <3>2 DEF ToDown
  <2>5. CASE isDown[s]
    BY <2>1, <2>2, <2>3, <2>5 DEF InTime, DownIsInTime
  <2>6. QED
    BY <2>4, <2>5
<1>2. PipelineInv /\ [PipelineNext]_pipelineVars => PipelineInv'
  BY PipelineInvStep
<1>3. QED
  BY <1>1, <1>2, PipelineInvInit, PTL DEF PipelineSpec

\* Two alerts of a kind about a switch that are not suppressed are a dedup window apart,
\* for any number of switches, any intervals and any length of the window.
THEOREM AlertsStaySpaced == PipelineSpec => AlertsAreSpaced
<1>1. PipelineInv /\ [PipelineNext]_pipelineVars => PipelineInv'
  BY PipelineInvStep
<1>2. PipelineInv /\ [PipelineNext]_pipelineVars
      => [\A s \in Switches, k \in Kinds :
            since[s][k] # 0 /\ since'[s][k] = 0 => since[s][k] >= dedup]_pipelineVars
  BY PipelineInvStep
<1>3. QED
  BY <1>1, <1>2, PipelineInvInit, PTL DEF PipelineSpec, AlertsAreSpaced
(***************************************************************************)
(* RESTORED after DOWN, where a batch is over before the next poll         *)
(***************************************************************************)
\* An alert that is collecting is the status of its switch, and goes out before the poll
\* that could change it; so a DOWN is not the last mail about a switch that is up, unless its
\* RESTORED is collecting.
KindsTakeTurns(s) ==
  /\ s \in batch["down"] => isDown[s] /\ left["down"] < wait[s]
  /\ s \in batch["restored"] => ~isDown[s] /\ left["restored"] < wait[s]
  /\ ~isDown[s] /\ inbox[s] = "down" => s \in batch["restored"]

TurnsInv == PipelineInv /\ dedup = 0 /\ \A s \in Switches : KindsTakeTurns(s)

\* A switch that is polled has nothing collecting, and what the poll tells of it is all
\* there is.
LEMMA PollKeepsTurns ==
  ASSUME PollTicks > BatchTicks, TurnsInv, NEW s \in Switches, Poll(s)
  PROVE  \A t \in Switches : KindsTakeTurns(t)'
<1>1. /\ PipelineInv /\ PipelineTypeOK /\ BatchesEnd /\ BatchesEnd'
      /\ dedup = 0 /\ "down" \in Kinds /\ "restored" \in Kinds /\ PollTicks \in Nat /\ BatchTicks \in Nat
  BY PollKeepsInv, PollsAddUp DEF TurnsInv, PipelineInv, Kinds
<1>2. s \notin batch["down"] /\ s \notin batch["restored"]
  <2>1. left["down"] >= 0 /\ left["restored"] >= 0 /\ wait[s] = 0
    BY <1>1, PollDoes DEF PipelineTypeOK
  <2>2. QED
    BY <1>1, <2>1 DEF TurnsInv, KindsTakeTurns, PipelineTypeOK
<1>3. wait' = [wait EXCEPT ![s] = PollTicks]
  BY <1>1, PollDoes
<1>4. ASSUME NEW k \in Kinds, s \in batch'[k] PROVE left'[k] < wait'[s]
  <2>1. left'[k] <= BatchTicks /\ left'[k] \in Nat
    <3>1. left'[k] <= BatchTicks
      BY <1>1, <1>4 DEF BatchesEnd
    <3>2. left' \in [Kinds -> 0 .. Off]
      BY <1>1, PollKeepsInv DEF PipelineInv, PipelineTypeOK
    <3>3. QED
      BY <1>1, <3>1, <3>2 DEF Off
  <2>2. wait'[s] = PollTicks
    BY <1>1, <1>3 DEF PipelineTypeOK
  <2>3. QED
    BY <1>1, <2>1, <2>2
<1>5. ASSUME NEW t \in Switches, t # s PROVE KindsTakeTurns(t)'
  <2>1. wait'[t] = wait[t] /\ isDown'[t] = isDown[t]
    BY <1>1, <1>3, <1>5, PollDoes DEF PipelineTypeOK
  <2>2. /\ \A j \in Kinds : /\ t \in batch'[j] <=> t \in batch[j]
                            /\ t \in batch[j] => left'[j] = left[j]
        /\ inbox'[t] = inbox[t]
    <3>1. ASSUME NEW k \in Kinds, Alert(s, k)
          PROVE  /\ \A j \in Kinds : /\ t \in batch'[j] <=> t \in batch[j]
                                     /\ t \in batch[j] => left'[j] = left[j]
                 /\ inbox'[t] = inbox[t]
      <4>1. ASSUME NEW j \in Kinds PROVE t \in batch'[j] <=> t \in batch[j]
        BY <1>1, <1>5, <3>1, AlertDoes
      <4>2. ASSUME NEW j \in Kinds, t \in batch[j] PROVE left'[j] = left[j]
        BY <1>1, <3>1, <4>2, AlertDoes
      <4>3. inbox'[t] = inbox[t]
        BY <1>1, <1>5, <3>1, AlertDoes
      <4>4. QED
        BY <4>1, <4>2, <4>3
    <3>2. QED
      BY <1>1, <3>1, PollDoes
  <2>3. KindsTakeTurns(t)
    BY DEF TurnsInv
  <2>4. QED
    BY <1>1, <2>1, <2>2, <2>3 DEF KindsTakeTurns
<1>6. KindsTakeTurns(s)'
  <2>1. CASE Alert(s, "down") /\ isDown' = [isDown EXCEPT ![s] = TRUE]
    <3>1. isDown'[s] /\ batch'["restored"] = batch["restored"]
      BY <1>1, <2>1, AlertDoes DEF PipelineTypeOK
    <3>2. QED
      BY <1>1, <1>2, <1>4, <3>1 DEF KindsTakeTurns
  <2>2. CASE Alert(s, "restored") /\ isDown' = [isDown EXCEPT ![s] = FALSE]
    <3>1. ~isDown'[s] /\ batch'["down"] = batch["down"]
      BY <1>1, <2>2, AlertDoes DEF PipelineTypeOK
    <3>2. inbox'[s] = "restored" \/ s \in batch'["restored"]
      BY <1>1, <2>2, AlertDoes, NoneIsSuppressed
    <3>3. QED
      BY <1>1, <1>2, <1>4, <3>1, <3>2 DEF KindsTakeTurns
  <2>3. CASE UNCHANGED <<cool, batch, left, inbox, since>> /\ isDown' = isDown
    BY <1>1, <1>2, <1>4, <2>3 DEF TurnsInv, KindsTakeTurns
  <2>4. QED
    BY <1>1, <2>1, <2>2, <2>3, PollDoes
<1>7. QED
  BY <1>5, <1>6

LEMMA FlushKeepsTurns ==
  ASSUME TurnsInv, NEW k \in Kinds, Flush(k), NEW s \in Switches
  PROVE  KindsTakeTurns(s)'
<1>1. /\ batch' = [batch EXCEPT ![k] = {}] /\ left' = [left EXCEPT ![k] = Off]
      /\ inbox'[s] = IF s \in batch[k] THEN k ELSE inbox[s]
      /\ wait' = wait /\ isDown' = isDown
  BY DEF Flush
<1>2. PipelineTypeOK /\ KindsTakeTurns(s) /\ "down" \in Kinds /\ "restored" \in Kinds
      /\ k \in {"down", "restored"}
  BY DEF TurnsInv, PipelineInv, Kinds
<1>3. \A j \in Kinds : /\ j # k => batch'[j] = batch[j] /\ left'[j] = left[j]
                       /\ j = k => batch'[j] = {}
  BY <1>1, <1>2 DEF PipelineTypeOK
<1>4. CASE k = "down"
  BY <1>1, <1>2, <1>3, <1>4 DEF KindsTakeTurns
<1>5. CASE k = "restored"
  BY <1>1, <1>2, <1>3, <1>5 DEF KindsTakeTurns
<1>6. QED
  BY <1>2, <1>4, <1>5

\* Timer and poll come closer by the same step.
LEMMA TickKeepsTurns ==
  ASSUME TurnsInv, PipelineTick, NEW s \in Switches
  PROVE  KindsTakeTurns(s)'
<1>1. /\ wait' = [t \in Switches |-> wait[t] - 1]
      /\ left' = [k \in Kinds |-> IF left[k] = Off THEN Off ELSE left[k] - 1]
      /\ UNCHANGED <<isDown, batch, inbox>>
  BY DEF PipelineTick
<1>2. /\ PipelineTypeOK /\ BatchesEnd /\ KindsTakeTurns(s) /\ "down" \in Kinds /\ "restored" \in Kinds
      /\ BatchTicks \in Nat /\ Off = BatchTicks + 1 /\ PollTicks \in Nat
  BY PollsAddUp DEF TurnsInv, PipelineInv, Kinds
<1>3. ASSUME NEW k \in Kinds, s \in batch[k], left[k] < wait[s] PROVE left'[k] < wait'[s]
  <2>1. left[k] <= BatchTicks /\ left[k] \in Nat /\ wait[s] \in Nat
    BY <1>2, <1>3 DEF BatchesEnd, PipelineTypeOK
  <2>2. left[k] # Off
    BY <1>2, <2>1
  <2>3. left'[k] = left[k] - 1 /\ wait'[s] = wait[s] - 1
    BY <1>1, <2>2
  <2>4. QED
    BY <1>3, <2>1, <2>3
<1>4. QED
  BY <1>1, <1>2, <1>3 DEF KindsTakeTurns

\* RESTORED is the last mail about a switch that is up again, for any number of switches and
\* any threshold, where no alert is collecting any more when its switch is polled next and no
\* dedup window suppresses one.  With the longer batches of the defaults RESTORED may be
\* mailed before its DOWN.
THEOREM RestoredIsMailedLast ==
  ASSUME PollTicks > BatchTicks
  PROVE  PipelineSpec /\ dedup = 0 => []RestoredFollowsDown
<1>1. PipelineInit /\ dedup = 0 => TurnsInv
  <2> SUFFICES ASSUME PipelineInit, dedup = 0, NEW s \in Switches PROVE KindsTakeTurns(s)
    BY PipelineInvInit DEF TurnsInv
  <2>1. "down" \in Kinds /\ "restored" \in Kinds
    BY DEF Kinds
  <2>2. QED
    BY <2>1 DEF PipelineInit, KindsTakeTurns
<1>2. TurnsInv /\ [PipelineNext]_pipelineVars => TurnsInv'
  <2> SUFFICES ASSUME TurnsInv, [PipelineNext]_pipelineVars PROVE TurnsInv'
    OBVIOUS
  <2>1. PipelineInv /\ PipelineInv'
    BY PipelineInvStep DEF TurnsInv
  <2>2. ASSUME NEW s \in Switches, Poll(s) PROVE TurnsInv'
    BY <2>1, <2>2, PollDoes, PollKeepsTurns DEF TurnsInv
  <2>3. ASSUME NEW s \in Switches, Change(s) PROVE TurnsInv'
    BY <2>1, <2>3 DEF TurnsInv, KindsTakeTurns, Change
  <2>4. ASSUME NEW k \in Kinds, Flush(k) PROVE TurnsInv'
    <3>1. dedup' = 0
      BY <2>4 DEF TurnsInv, Flush
    <3>2. QED
      BY <2>1, <2>4, <3>1, FlushKeepsTurns DEF TurnsInv
  <2>5. CASE PipelineTick
    <3>1. dedup' = 0
      BY <2>5 DEF TurnsInv, PipelineTick
    <3>2. QED
      BY <2>1, <2>5, <3>1, TickKeepsTurns DEF TurnsInv
  <2>6. CASE UNCHANGED pipelineVars
    BY <2>1, <2>6 DEF TurnsInv, KindsTakeTurns, pipelineVars
  <2>7. QED
    BY <2>2, <2>3, <2>4, <2>5, <2>6 DEF PipelineNext
<1>3. TurnsInv => RestoredFollowsDown
  <2>1. "restored" \in Kinds
    BY DEF Kinds
  <2>2. QED
    BY <2>1 DEF TurnsInv, KindsTakeTurns, RestoredFollowsDown
<1>4. QED
  BY <1>1, <1>2, <1>3, PTL DEF PipelineSpec
================================================================================
