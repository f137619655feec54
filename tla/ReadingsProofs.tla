----------------------------- MODULE ReadingsProofs ----------------------------
(***************************************************************************)
(* From the readings to the mails: sweeps, threshold alerts, the nightly   *)
(* check of the subnets, and the batching of events into mails.            *)
(***************************************************************************)
EXTENDS AlertBatcher, Sweeps, ThresholdAlerting, SubnetHealth, FiniteSetTheorems, TLAPS

(***************************************************************************)
(* AlertBatcher implements AlertDelivery and strands no event, for any     *)
(* number of events, kinds, Timers and threads.                            *)
(***************************************************************************)
\* Where an event can be: waiting in one _pending list of its own kind, or
\* taken out by one thread, or mailed or failed; and never twice.
KindsApart ==
  /\ \A k \in Kinds : \A e \in pending[k] : KindOf[e] = k
  /\ \A x \in Threads : \A e, d \in sending[x] : KindOf[e] = KindOf[d]

InOnePlace ==
  /\ \A k \in Kinds, x \in Threads : pending[k] \intersect sending[x] = {}
  /\ \A x, y \in Threads : x # y => sending[x] \intersect sending[y] = {}
  /\ Queued \intersect ((UNION mails) \union failed) = {}
  /\ Queued \union (UNION mails) \union failed \subseteq added
  /\ \A t \in Timers : timer[t] # "sending" => sending[t] = {}

Inv == TypeOK /\ RegisteredIsComing /\ NothingStranded /\ KindsApart /\ InOnePlace

USE DEF Threads

LEMMA InitInv == Init => Inv
<1> SUFFICES ASSUME Init PROVE Inv
  OBVIOUS
<1>1. TypeOK
  BY BatcherAssumption DEF Init, TypeOK
<1>2. RegisteredIsComing /\ NothingStranded
  BY DEF Init, RegisteredIsComing, NothingStranded
<1>3. KindsApart
  BY DEF Init, KindsApart
<1>4. InOnePlace
  BY DEF Init, InOnePlace, Queued
<1>5. QED
  BY <1>1, <1>2, <1>3, <1>4 DEF Inv

(***************************************************************************)
(* Types                                                                   *)
(***************************************************************************)
LEMMA TypeStep == TypeOK /\ [Next]_vars => TypeOK'
<1> SUFFICES ASSUME TypeOK, [Next]_vars PROVE TypeOK'
  OBVIOUS
<1> USE DEF TypeOK
<1>1. ASSUME NEW c \in Callers, NEW e \in Alerts, Add(c, e) PROVE TypeOK'
  <2>1. KindOf[e] \in Kinds
    BY BatcherAssumption
  <2>2. CASE batching
    BY <1>1, <2>1, <2>2 DEF Add, Arm, timers
  <2>3. CASE ~batching
    BY <1>1, <2>3 DEF Add, timers
  <2>4. QED
    BY <2>2, <2>3
<1>2. ASSUME NEW t \in Timers, Expire(t) PROVE TypeOK'
  BY <1>2 DEF Expire
<1>3. ASSUME NEW t \in Timers, TimerFlush(t) PROVE TypeOK'
  BY <1>3 DEF TimerFlush, Take
<1>4. ASSUME NEW t \in Timers, TimerSend(t) PROVE TypeOK'
  BY <1>4 DEF TimerSend, SendTaken, Deliver
<1>5. ASSUME NEW f \in Flushers, FlushAllBegin(f) PROVE TypeOK'
  BY <1>5 DEF FlushAllBegin
<1>6. ASSUME NEW f \in Flushers, NEW k \in Kinds, FlushAllTake(f, k) PROVE TypeOK'
  BY <1>6 DEF FlushAllTake, Take
<1>7. ASSUME NEW x \in Threads, SendNow(x) PROVE TypeOK'
  BY <1>7 DEF SendNow, SendTaken, Deliver, timers
<1>8. CASE Stop
  BY <1>8 DEF Stop, timers
<1>9. CASE UNCHANGED vars
  BY <1>9 DEF vars, timers
<1>10. QED
  BY <1>1, <1>2, <1>3, <1>4, <1>5, <1>6, <1>7, <1>8, <1>9
     DEF Next, TimerStep, FlusherStep

(***************************************************************************)
(* Somebody is always coming for what waits.                               *)
(***************************************************************************)
LEMMA ComingStep ==
  TypeOK /\ RegisteredIsComing /\ NothingStranded /\ [Next]_vars
    => RegisteredIsComing' /\ NothingStranded'
<1> SUFFICES ASSUME TypeOK, RegisteredIsComing, NothingStranded, [Next]_vars
             PROVE  RegisteredIsComing' /\ NothingStranded'
  OBVIOUS
<1> USE DEF TypeOK, RegisteredIsComing, NothingStranded, Coming
<1>1. ASSUME NEW c \in Callers, NEW e \in Alerts, Add(c, e)
      PROVE  RegisteredIsComing' /\ NothingStranded'
  <2>1. KindOf[e] \in Kinds
    BY BatcherAssumption
  <2>2. CASE batching /\ registered[KindOf[e]] # NoTimer
    BY <1>1, <2>1, <2>2, BatcherAssumption DEF Add, Arm, timers
  <2>3. CASE batching /\ registered[KindOf[e]] = NoTimer
    <3>1. PICK t \in Timers :
            /\ timer[t] = "free"
            /\ registered' = [registered EXCEPT ![KindOf[e]] = t]
            /\ timer' = [timer EXCEPT ![t] = "armed"]
            /\ timerKind' = [timerKind EXCEPT ![t] = KindOf[e]]
      BY <1>1, <2>3 DEF Add, Arm
    <3>2. /\ pending' = [pending EXCEPT ![KindOf[e]] = @ \union {e}]
          /\ UNCHANGED todo
      BY <1>1, <2>3 DEF Add
    <3>3. \A u \in Timers, k \in Kinds : Coming(u, k) => Coming(u, k)'
      BY <3>1
    <3>4. Coming(t, KindOf[e])'
      BY <2>1, <3>1
    <3>5. RegisteredIsComing'
      BY <2>1, <3>1, <3>3, <3>4, BatcherAssumption
    <3>6. NothingStranded'
      BY <2>1, <3>2, <3>3, <3>4
    <3>7. QED
      BY <3>5, <3>6
  <2>4. CASE ~batching
    BY <1>1, <2>4 DEF Add, timers
  <2>5. QED
    BY <2>2, <2>3, <2>4
<1>2. ASSUME NEW t \in Timers, Expire(t) PROVE RegisteredIsComing' /\ NothingStranded'
  <2>1. \A u \in Timers, k \in Kinds : Coming(u, k)' <=> Coming(u, k)
    BY <1>2 DEF Expire
  <2>2. QED
    BY <1>2, <2>1 DEF Expire
<1>3. ASSUME NEW t \in Timers, TimerFlush(t) PROVE RegisteredIsComing' /\ NothingStranded'
  <2>1. \A u \in Timers, k \in Kinds : k # timerKind[t] => (Coming(u, k)' <=> Coming(u, k))
    BY <1>3 DEF TimerFlush
  <2>2. timerKind[t] \in Kinds
    OBVIOUS
  <2>3. QED
    BY <1>3, <2>1, <2>2 DEF TimerFlush, Take
<1>4. ASSUME NEW t \in Timers, TimerSend(t) PROVE RegisteredIsComing' /\ NothingStranded'
  <2>1. \A u \in Timers, k \in Kinds : Coming(u, k)' <=> Coming(u, k)
    BY <1>4 DEF TimerSend
  <2>2. QED
    BY <1>4, <2>1 DEF TimerSend
<1>5. ASSUME NEW f \in Flushers, FlushAllBegin(f)
      PROVE  RegisteredIsComing' /\ NothingStranded'
  BY <1>5 DEF FlushAllBegin
<1>6. ASSUME NEW f \in Flushers, NEW k \in Kinds, FlushAllTake(f, k)
      PROVE  RegisteredIsComing' /\ NothingStranded'
  BY <1>6 DEF FlushAllTake, Take
<1>7. ASSUME NEW x \in Threads, SendNow(x) PROVE RegisteredIsComing' /\ NothingStranded'
  BY <1>7 DEF SendNow, SendTaken, timers
<1>8. CASE Stop
  BY <1>8 DEF Stop, timers
<1>9. CASE UNCHANGED vars
  BY <1>9 DEF vars, timers
<1>10. QED
  BY <1>1, <1>2, <1>3, <1>4, <1>5, <1>6, <1>7, <1>8, <1>9
     DEF Next, TimerStep, FlusherStep

(***************************************************************************)
(* An event is in one place only.                                          *)
(***************************************************************************)
LEMMA UnionOfOneMore ==
  ASSUME NEW S, NEW b PROVE UNION (S \union {b}) = (UNION S) \union b
  OBVIOUS

LEMMA ApartStep ==
  TypeOK /\ KindsApart /\ InOnePlace /\ [Next]_vars => KindsApart' /\ InOnePlace'
<1> SUFFICES ASSUME TypeOK, KindsApart, InOnePlace, [Next]_vars
             PROVE  KindsApart' /\ InOnePlace'
  OBVIOUS
<1> USE DEF TypeOK, KindsApart, InOnePlace, Queued
<1>1. ASSUME NEW c \in Callers, NEW e \in Alerts, Add(c, e)
      PROVE  KindsApart' /\ InOnePlace'
  <2>1. KindOf[e] \in Kinds /\ c \notin Timers
    BY BatcherAssumption
  <2>2. CASE batching
    <3>1. /\ pending' = [pending EXCEPT ![KindOf[e]] = @ \union {e}]
          /\ added' = added \union {e} /\ e \notin added
          /\ UNCHANGED <<sending, mails, failed>>
      BY <1>1, <2>2 DEF Add
    <3>2. \A t \in Timers : timer'[t] = "sending" <=> timer[t] = "sending"
      BY <1>1, <2>2 DEF Add, Arm, timers
    <3>3. KindsApart'
      BY <2>1, <3>1
    <3>4. InOnePlace'
      BY <2>1, <3>1, <3>2
    <3>5. QED
      BY <3>3, <3>4
  <2>3. CASE ~batching
    <3>1. /\ sending' = [sending EXCEPT ![c] = {e}] /\ sending[c] = {}
          /\ added' = added \union {e} /\ e \notin added
          /\ UNCHANGED <<pending, timer, mails, failed>>
      BY <1>1, <2>3 DEF Add, timers
    <3>2. KindsApart'
      BY <3>1
    <3>3. InOnePlace'
      BY <2>1, <3>1
    <3>4. QED
      BY <3>2, <3>3
  <2>4. QED
    BY <2>2, <2>3
<1>2. ASSUME NEW t \in Timers, Expire(t) PROVE KindsApart' /\ InOnePlace'
  BY <1>2 DEF Expire
<1>3. ASSUME NEW x \in Threads, NEW k \in Kinds, Take(x, k), sending[x] = {},
             UNCHANGED <<added, mails, failed>>,
             \A t \in Timers : timer'[t] = IF t = x THEN "sending" ELSE timer[t]
      PROVE  KindsApart' /\ InOnePlace'
  <2>1. /\ sending' = [sending EXCEPT ![x] = pending[k]]
        /\ pending' = [pending EXCEPT ![k] = {}]
    BY <1>3 DEF Take
  <2>2. KindsApart'
    BY <2>1
  <2>3. Queued' = Queued
    BY <1>3, <2>1
  <2>4. /\ \A j \in Kinds, y \in Threads : pending'[j] \intersect sending'[y] = {}
        /\ \A y, z \in Threads : y # z => sending'[y] \intersect sending'[z] = {}
    BY <1>3, <2>1
  <2>5. \A t \in Timers : timer'[t] # "sending" => sending'[t] = {}
    BY <1>3, <2>1
  <2>6. InOnePlace'
    BY <1>3, <2>3, <2>4, <2>5
  <2>7. QED
    BY <2>2, <2>6
<1>4. ASSUME NEW t \in Timers, TimerFlush(t) PROVE KindsApart' /\ InOnePlace'
  <2>1. /\ t \in Threads /\ timerKind[t] \in Kinds /\ sending[t] = {}
        /\ Take(t, timerKind[t])
        /\ UNCHANGED <<added, mails, failed>>
        /\ timer' = [timer EXCEPT ![t] = "sending"]
    BY <1>4 DEF TimerFlush
  <2>2. QED
    BY <1>3, <2>1
<1>5. ASSUME NEW x \in Threads, SendTaken(x), UNCHANGED <<pending, added>>,
             \A t \in Timers : timer'[t] = timer[t] \/ (t = x /\ timer'[t] = "free")
      PROVE  KindsApart' /\ InOnePlace'
  <2> DEFINE Done == (UNION mails) \union failed
  <2>1. sending' = [sending EXCEPT ![x] = {}]
    BY <1>5 DEF SendTaken
  <2>2. UNION (mails \union {sending[x]}) = (UNION mails) \union sending[x]
    BY UnionOfOneMore
  <2>3. Done' = Done \/ Done' = Done \union sending[x]
    BY <1>5, <2>2 DEF SendTaken, Deliver
  <2>4. KindsApart'
    BY <1>5, <2>1
  <2>5. Queued' = Queued \ sending[x]
    BY <1>5, <2>1
  <2>6. sending[x] \subseteq Queued
    OBVIOUS
  <2>7. Queued \intersect Done = {} /\ Queued \union Done \subseteq added
    OBVIOUS
  <2> HIDE DEF Queued, Done
  <2>8. Queued' \intersect Done' = {} /\ Queued' \union Done' \subseteq added'
    BY <1>5, <2>3, <2>5, <2>6, <2>7
  <2>9. InOnePlace'
    BY <1>5, <2>1, <2>8 DEF Done
  <2>10. QED
    BY <2>4, <2>9
<1>6. ASSUME NEW t \in Timers, TimerSend(t) PROVE KindsApart' /\ InOnePlace'
  BY <1>5, <1>6 DEF TimerSend
<1>7. ASSUME NEW f \in Flushers, FlushAllBegin(f) PROVE KindsApart' /\ InOnePlace'
  BY <1>7 DEF FlushAllBegin
<1>8. ASSUME NEW f \in Flushers, NEW k \in Kinds, FlushAllTake(f, k)
      PROVE  KindsApart' /\ InOnePlace'
  <2>1. /\ f \in Threads /\ f \notin Timers /\ sending[f] = {}
        /\ Take(f, k)
        /\ UNCHANGED <<timer, added, mails, failed>>
    BY <1>8, BatcherAssumption DEF FlushAllTake
  <2>2. QED
    BY <1>3, <2>1
<1>9. ASSUME NEW x \in Threads, SendNow(x) PROVE KindsApart' /\ InOnePlace'
  BY <1>5, <1>9 DEF SendNow, timers
<1>10. CASE Stop
  BY <1>10 DEF Stop, timers
<1>11. CASE UNCHANGED vars
  BY <1>11 DEF vars, timers
<1>12. QED
  BY <1>1, <1>2, <1>4, <1>6, <1>7, <1>8, <1>9, <1>10, <1>11
     DEF Next, TimerStep, FlusherStep

LEMMA InvHolds == Spec => []Inv
<1>1. Inv /\ [Next]_vars => Inv'
  BY TypeStep, ComingStep, ApartStep DEF Inv
<1>2. QED
  BY <1>1, InitInv, PTL DEF Spec

\* The lists, the Timer registrations and the sending threads stay well formed.
THEOREM TypeCorrect == Spec => []TypeOK
<1>1. Inv => TypeOK
  BY DEF Inv
<1>2. QED
  BY <1>1, InvHolds, PTL

\* No interleaving of monitors, Timers and flush_all leaves an event queued
\* with nobody on the way to flush it.
THEOREM NoEventStranded == Spec => []NothingStranded
<1>1. Inv => NothingStranded
  BY DEF Inv
<1>2. QED
  BY <1>1, InvHolds, PTL

(***************************************************************************)
(* Every step is a step of AlertDelivery or leaves it unchanged.           *)
(***************************************************************************)
\* Nothing AlertDelivery sees changes if no event moves between its three
\* sets.
LEMMA NoMove ==
  ASSUME TypeOK, UNCHANGED <<mails, failed, running>>, Queued' = Queued
  PROVE  UNCHANGED Delivery!delivery
  BY DEF Delivery!delivery, Lost

\* Sending what a thread took out of _pending is one Mail, or one Lose.
LEMMA SendIsDelivery ==
  ASSUME Inv, NEW x \in Threads, running, SendTaken(x),
         UNCHANGED <<pending, running>>
  PROVE  Delivery!Next \/ UNCHANGED Delivery!delivery
<1> USE DEF Inv
<1>1. sending' = [sending EXCEPT ![x] = {}]
  BY DEF SendTaken
<1>2. Queued' = Queued \ sending[x]
  BY <1>1 DEF TypeOK, InOnePlace, Queued
<1>3. sending[x] \in SUBSET Alerts /\ sending[x] \subseteq Queued
  BY DEF TypeOK, Queued
<1>4. CASE sending[x] = {}
  BY <1>2, <1>4, NoMove DEF SendTaken
<1>5. CASE sending[x] # {} /\ mails' = mails \union {sending[x]} /\ UNCHANGED failed
  <2>1. \E k \in Kinds : \A e \in sending[x] : KindOf[e] = k
    BY <1>3, <1>5, BatcherAssumption DEF KindsApart
  <2>2. Delivery!Mail(sending[x])
    BY <1>2, <1>3, <1>5, <2>1 DEF Delivery!Mail, Delivery!Batch, Lost
  <2>3. QED
    BY <1>3, <2>2 DEF Delivery!Next
<1>6. CASE sending[x] # {} /\ failed' = failed \union sending[x] /\ UNCHANGED mails
  <2>1. Delivery!Lose(sending[x])
    BY <1>2, <1>3, <1>6 DEF Delivery!Lose, Lost
  <2>2. QED
    BY <1>3, <2>1 DEF Delivery!Next
<1>7. QED
  BY <1>4, <1>5, <1>6 DEF SendTaken, Deliver

LEMMA StepIsDelivery == Inv /\ [Next]_vars => [Delivery!Next]_(Delivery!delivery)
<1> SUFFICES ASSUME Inv, [Next]_vars
             PROVE  Delivery!Next \/ UNCHANGED Delivery!delivery
  OBVIOUS
<1>0. TypeOK /\ InOnePlace
  BY DEF Inv
<1>1. ASSUME NEW c \in Callers, NEW e \in Alerts, Add(c, e)
      PROVE  Delivery!Next
  <2>1. KindOf[e] \in Kinds
    BY BatcherAssumption
  <2>2. e \notin Queued \union (UNION mails) \union failed
    BY <1>0, <1>1 DEF Add, InOnePlace
  <2>3. Queued' = Queued \union {e}
    <3>1. CASE batching
      BY <1>0, <1>1, <2>1, <3>1 DEF Add, Queued, TypeOK
    <3>2. CASE ~batching
      BY <1>0, <1>1, <3>2 DEF Add, Queued, TypeOK
    <3>3. QED
      BY <3>1, <3>2
  <2>4. Delivery!Accept(e)
    BY <1>1, <2>2, <2>3 DEF Add, Delivery!Accept, Delivery!Mailed, Lost
  <2>5. QED
    BY <2>4 DEF Delivery!Next
<1>2. ASSUME NEW t \in Timers, Expire(t) PROVE UNCHANGED Delivery!delivery
  BY <1>0, <1>2, NoMove DEF Expire, Queued
<1>3. ASSUME NEW x \in Threads, NEW k \in Kinds, Take(x, k), sending[x] = {},
             UNCHANGED <<mails, failed, running>>
      PROVE  UNCHANGED Delivery!delivery
  <2>1. Queued' = Queued
    BY <1>0, <1>3 DEF Take, Queued, TypeOK
  <2>2. QED
    BY <1>0, <1>3, <2>1, NoMove
<1>4. ASSUME NEW t \in Timers, TimerFlush(t) PROVE UNCHANGED Delivery!delivery
  <2>1. t \in Threads /\ timerKind[t] \in Kinds /\ sending[t] = {}
    BY <1>0, <1>4 DEF TimerFlush, TypeOK, InOnePlace
  <2>2. QED
    BY <1>3, <1>4, <2>1 DEF TimerFlush
<1>5. ASSUME NEW t \in Timers, TimerSend(t)
      PROVE  Delivery!Next \/ UNCHANGED Delivery!delivery
  BY <1>5, SendIsDelivery DEF TimerSend
<1>6. ASSUME NEW f \in Flushers, FlushAllBegin(f) PROVE UNCHANGED Delivery!delivery
  BY <1>0, <1>6, NoMove DEF FlushAllBegin, Queued
<1>7. ASSUME NEW f \in Flushers, NEW k \in Kinds, FlushAllTake(f, k)
      PROVE  UNCHANGED Delivery!delivery
  BY <1>3, <1>7 DEF FlushAllTake
<1>8. ASSUME NEW x \in Threads, SendNow(x)
      PROVE  Delivery!Next \/ UNCHANGED Delivery!delivery
  BY <1>8, SendIsDelivery DEF SendNow
<1>9. CASE Stop
  <2>1. Queued' = Queued /\ Queued \in SUBSET Alerts
    BY <1>9 DEF Stop, Queued
  <2>2. Delivery!Lose(Queued)
    BY <1>9, <2>1 DEF Stop, Delivery!Lose, Lost
  <2>3. QED
    BY <2>1, <2>2 DEF Delivery!Next
<1>10. CASE UNCHANGED vars
  BY <1>0, <1>10, NoMove DEF vars, timers, Queued
<1>11. QED
  BY <1>1, <1>2, <1>4, <1>5, <1>6, <1>7, <1>8, <1>9, <1>10
     DEF Next, TimerStep, FlusherStep

\* The batcher implements AlertDelivery: an event is mailed at most once, with
\* events of its own kind only, and is lost only to a failed mail or a stop.
THEOREM BatcherImplementsDelivery == Spec => ImplementsDelivery
<1>1. Init => Delivery!Init
  BY DEF Init, Delivery!Init, Queued, Lost
<1>2. Inv /\ [Next]_vars => [Delivery!Next]_(Delivery!delivery)
  BY StepIsDelivery
<1>3. QED
  BY <1>1, <1>2, InvHolds, PTL DEF Spec, ImplementsDelivery, Delivery!Spec

(***************************************************************************)
(* Sweeps: whoever is past the guard holds it, and an engine outlives its  *)
(* loop only in a thread that makes no get.                                *)
(***************************************************************************)
Workshop == [step : {"idle", "ask", "get", "clean", "hung"}, gets : Nat, loop : BOOLEAN,
             engine : {"none", "bound", "stale"}, calls : Nat]

\* Only the health poll asks with get, and it drops its engine with the loop.
EngineIsUsable(w) ==
  IF task = "health" THEN worker[w].engine # "stale"
  ELSE worker[w].gets = 0 /\ worker[w].step # "get"

SweepsInv ==
  /\ holder \in Firings \union {"free"}
  /\ firing \in [Firings -> {"out", "select", "pool"}]
  /\ worker \in [Workers -> Workshop]
  /\ \A w \in Workers : EngineIsUsable(w)
  /\ SweepsAreOrderly

LEMMA FreshIsUsable == Fresh \in Workshop /\ Fresh.engine = "none" /\ Fresh.gets = 0 /\ Fresh.step = "idle"
  BY DEF Fresh, Workshop

LEMMA SweepsInvInit == SweepsInit => SweepsInv
  BY FreshIsUsable
  DEF SweepsInit, SweepsInv, EngineIsUsable, SweepsAreOrderly, OneSweepAtATime, NoCallHangs

\* A step of one worker, which leaves the guard as it is.
LEMMA WorkerStep ==
  ASSUME SweepsInv, NEW w \in Workers, NEW x \in Workshop,
         worker' = [worker EXCEPT ![w] = x], UNCHANGED <<task, holder, firing>>,
         IF task = "health" THEN x.engine # "stale" ELSE x.gets = 0 /\ x.step # "get",
         x.step = "get" => x.engine = "bound"
  PROVE  SweepsInv'
<1>1. \A v \in Workers : worker'[v] = IF v = w THEN x ELSE worker[v]
  BY DEF SweepsInv
<1>2. worker' \in [Workers -> Workshop]
  BY DEF SweepsInv
<1>3. \A v \in Workers : EngineIsUsable(v)'
  BY <1>1 DEF SweepsInv, EngineIsUsable
<1>4. NoCallHangs'
  BY <1>1 DEF SweepsInv, SweepsAreOrderly, NoCallHangs
<1>5. OneSweepAtATime'
  BY DEF SweepsInv, SweepsAreOrderly, OneSweepAtATime
<1>6. QED
  BY <1>2, <1>3, <1>4, <1>5 DEF SweepsInv, SweepsAreOrderly

\* What a worker does next, from what it has.
LEMMA WorkersKeepInv ==
  ASSUME SweepsInv, NEW w \in Workers,
         TakeDevice(w) \/ Get(w) \/ Answer(w) \/ Walk(w) \/ CleanUp(w) \/ AnswerLost(w)
  PROVE  SweepsInv'
<1> DEFINE x == worker[w]
<1>1. /\ x \in Workshop /\ EngineIsUsable(w)
      /\ x.step = "get" => x.engine = "bound"
  BY DEF SweepsInv, SweepsAreOrderly, NoCallHangs
<1>2. CASE TakeDevice(w)
  <2> DEFINE y == [x EXCEPT !.step = "ask", !.gets = IF task = "health" THEN NGets ELSE 0]
  <2>1. worker' = [worker EXCEPT ![w] = y] /\ UNCHANGED <<task, holder, firing>>
    BY <1>2 DEF TakeDevice, SweepsInv
  <2>2. /\ y \in Workshop /\ y.step = "ask" /\ y.engine = x.engine
        /\ y.gets = IF task = "health" THEN NGets ELSE 0
    BY <1>1, SweepsAssumption DEF Workshop
  <2> HIDE DEF y
  <2>3. QED
    BY <1>1, <2>1, <2>2, WorkerStep DEF EngineIsUsable
<1>3. CASE Get(w)
  <2> DEFINE y == [step |-> "get", gets |-> x.gets - 1, loop |-> TRUE,
                   engine |-> IF NewEngine(w) THEN "bound" ELSE x.engine,
                   calls |-> IF NewEngine(w) THEN 1 ELSE x.calls + 1]
  <2>1. worker' = [worker EXCEPT ![w] = y] /\ UNCHANGED <<task, holder, firing>>
    BY <1>3 DEF Get, SweepsInv
  <2>2. x.gets > 0
    BY <1>3 DEF Get
  <2>3. task = "health"
    BY <1>1, <2>2 DEF EngineIsUsable, Workshop
  <2>4. y.engine = "bound"
    BY <1>1, <2>3 DEF EngineIsUsable, NewEngine, Workshop
  <2>5. y \in Workshop
    BY <1>1, <2>2, <2>4 DEF Workshop
  <2> HIDE DEF y
  <2>6. QED
    BY <2>1, <2>3, <2>4, <2>5, WorkerStep
<1>4. CASE Answer(w) \/ AnswerLost(w)
  <2> DEFINE y == [x EXCEPT !.step = "ask"]
  <2>1. x.step = "get" /\ x.engine = "bound"
    BY <1>1, <1>4 DEF Answer, AnswerLost
  <2>2. worker' = [worker EXCEPT ![w] = y] /\ UNCHANGED <<task, holder, firing>>
    BY <1>4, <2>1 DEF Answer, AnswerLost, SweepsInv
  <2>3. y \in Workshop /\ y.step = "ask" /\ y.engine = x.engine /\ y.gets = x.gets
    BY <1>1 DEF Workshop
  <2> HIDE DEF y
  <2>4. QED
    BY <1>1, <2>2, <2>3, WorkerStep DEF EngineIsUsable
<1>5. CASE Walk(w)
  <2> DEFINE y == [x EXCEPT !.step = "clean", !.loop = TRUE]
  <2>1. worker' = [worker EXCEPT ![w] = y] /\ UNCHANGED <<task, holder, firing>>
    BY <1>5 DEF Walk, SweepsInv
  <2>2. y \in Workshop /\ y.step = "clean" /\ y.engine = x.engine /\ y.gets = x.gets
    BY <1>1 DEF Workshop
  <2> HIDE DEF y
  <2>3. QED
    BY <1>1, <2>1, <2>2, WorkerStep DEF EngineIsUsable
<1>6. CASE CleanUp(w)
  <2> DEFINE y == [step |-> "idle", gets |-> 0, loop |-> FALSE, engine |-> EngineAfter(w),
                   calls |-> IF EngineAfter(w) = "none" THEN 0 ELSE x.calls]
  <2>1. worker' = [worker EXCEPT ![w] = y] /\ UNCHANGED <<task, holder, firing>>
    BY <1>6 DEF CleanUp, SweepsInv
  <2>2. EngineAfter(w) \in {"none", "stale"} /\ (task = "health" => EngineAfter(w) = "none")
    BY DEF EngineAfter
  <2>3. y \in Workshop /\ y.step = "idle" /\ y.gets = 0 /\ y.engine = EngineAfter(w)
    BY <1>1, <2>2 DEF Workshop
  <2> HIDE DEF y
  <2>4. QED
    BY <2>1, <2>2, <2>3, WorkerStep
<1>7. QED
  BY <1>2, <1>3, <1>4, <1>5, <1>6

LEMMA SweepsInvStep == SweepsInv /\ [SweepsNext]_sweepVars => SweepsInv'
<1> SUFFICES ASSUME SweepsInv, [SweepsNext]_sweepVars PROVE SweepsInv'
  OBVIOUS
<1> USE DEF SweepsInv, SweepsAreOrderly, OneSweepAtATime
<1>1. ASSUME NEW f \in Firings, Fire(f) PROVE SweepsInv'
  BY <1>1, SweepsAssumption DEF Fire, Acquires, EngineIsUsable, NoCallHangs
<1>2. ASSUME NEW f \in Firings, Select(f) PROVE SweepsInv'
  BY <1>2, FreshIsUsable DEF Select, EngineIsUsable, NoCallHangs
<1>3. ASSUME NEW f \in Firings, SelectRaises(f) \/ EndSweep(f) PROVE SweepsInv'
  BY <1>3 DEF SelectRaises, EndSweep, Release, EngineIsUsable, NoCallHangs
<1>4. ASSUME UNCHANGED sweepVars PROVE SweepsInv'
  BY <1>4 DEF sweepVars, EngineIsUsable, NoCallHangs
<1>5. QED
  BY <1>1, <1>2, <1>3, <1>4, WorkersKeepInv
  DEF SweepsNext, AnyFire, AnySelect, SweepStep, SkipTurn

\* Sweeps of a task take turns, and no worker waits for a loop that is closed, for any
\* number of threads, workers, devices and calls of a device.
THEOREM SweepsStayOrderly == SweepsSpec => []SweepsAreOrderly
<1>1. SweepsInv => SweepsAreOrderly
  BY DEF SweepsInv
<1>2. QED
  BY <1>1, SweepsInvInit, SweepsInvStep, PTL DEF SweepsSpec

(***************************************************************************)
(* Threshold alerts: what the evaluator remembers of a breach is no older  *)
(* than the breach, and no younger than it has been in force.              *)
(***************************************************************************)
Ages == (0 .. Duration) \union {NoState}

ThresholdTypeOK ==
  /\ rules \in [Rules -> {"absent", "on", "off"}]
  /\ current \in [Switches -> {"none", "normal", "high"}]
  /\ level \in [Switches -> {"normal", "high"}]
  /\ state \in [Keys -> KeyState \union {NoState}]
  /\ told \in [Keys -> {"none", "alert", "recovered"}]
  /\ held \in [Switches -> Ages]
  /\ heldOn \in [Keys -> Ages]
  /\ edits \in [Rules -> SUBSET {"toggle", "delete"}]

\* A rule that was never edited is as it was made, and one that is not there yet has
\* left nothing with the evaluator, unless one of its name was deleted.
RulesAreRemembered(k) ==
  /\ edits[k[1]] = {} => rules[k[1]] # "off"
  /\ "delete" \notin edits[k[1]] /\ rules[k[1]] = "absent" => state[k] = NoState
  /\ "delete" \notin edits[k[1]] /\ Alerted(state[k]) => told[k] = "alert"
  /\ Alerted(state[k]) => state[k].age = Duration

\* No older than the breach of the switch, while the rule was left alone.
NoOlder(k) ==
  edits[k[1]] = {} /\ state[k] # NoState => held[k[2]] # NoState /\ held[k[2]] >= state[k].age

\* No younger than the breach has been in force, and alerted if that is long enough.
NoYounger(k) ==
  heldOn[k] # NoState =>
    /\ rules[k[1]] = "on" /\ state[k] # NoState /\ state[k].age >= heldOn[k]
    /\ heldOn[k] >= Duration => Alerted(state[k])

ThresholdInv ==
  ThresholdTypeOK /\ \A k \in Keys : RulesAreRemembered(k) /\ NoOlder(k) /\ NoYounger(k)

LEMMA KeyParts == ASSUME NEW k \in Keys PROVE k[1] \in Rules /\ k[2] \in Switches
  BY DEF Keys

LEMMA ThresholdInvInit == ThresholdInit => ThresholdInv
<1> SUFFICES ASSUME ThresholdInit PROVE ThresholdInv
  OBVIOUS
<1>1. ThresholdTypeOK
  BY DEF ThresholdInit, ThresholdTypeOK, Ages
<1>2. ASSUME NEW k \in Keys PROVE RulesAreRemembered(k) /\ NoOlder(k) /\ NoYounger(k)
  BY KeyParts DEF ThresholdInit, RulesAreRemembered, NoOlder, NoYounger, Alerted
<1>3. QED
  BY <1>1, <1>2 DEF ThresholdInv

\* What an evaluation makes of the state of a key that it looks at, and of one it does not.
LEMMA EvaluatedIs ==
  ASSUME ThresholdInv, NEW k \in Keys, NEW gap \in 1 .. MaxGap
  PROVE  /\ Aged(k, gap) \in KeyState \union {NoState}
         /\ Aged(k, gap) = NoState <=> state[k] = NoState
         /\ state[k] # NoState => /\ Aged(k, gap).age = UpTo(state[k].age + gap)
                                  /\ Aged(k, gap).alerted = state[k].alerted
         /\ Evaluated(k, gap) \in KeyState \union {NoState}
         /\ current[k[2]] # "high" => Evaluated(k, gap) = NoState
         /\ current[k[2]] = "high" =>
              /\ Evaluated(k, gap) # NoState
              /\ Evaluated(k, gap).age =
                   IF state[k] = NoState THEN 0 ELSE UpTo(state[k].age + gap)
              /\ Evaluated(k, gap).alerted <=>
                   \/ state[k] # NoState /\ state[k].alerted
                   \/ Evaluated(k, gap).age >= Duration
<1>1. state[k] \in KeyState \union {NoState} /\ NoState \notin KeyState
  BY NoStateAssumption DEF ThresholdInv, ThresholdTypeOK
<1>2. Duration \in Nat /\ gap \in Nat
  BY ThresholdAssumption
<1>3. \A n \in Nat : UpTo(n) \in 0 .. Duration
  BY <1>2 DEF UpTo
<1>4. state[k] # NoState =>
        /\ [state[k] EXCEPT !.age = UpTo(@ + gap)] \in KeyState
        /\ [state[k] EXCEPT !.age = UpTo(@ + gap)].age = UpTo(state[k].age + gap)
        /\ [state[k] EXCEPT !.age = UpTo(@ + gap)].alerted = state[k].alerted
  BY <1>1, <1>2, <1>3 DEF KeyState
<1>5. Aged(k, gap) = IF state[k] = NoState THEN NoState ELSE [state[k] EXCEPT !.age = UpTo(@ + gap)]
  BY DEF Aged
<1> DEFINE st == IF state[k] = NoState THEN [age |-> 0, alerted |-> FALSE]
                 ELSE [state[k] EXCEPT !.age = UpTo(@ + gap)]
<1>6. /\ st \in KeyState
      /\ st.age = IF state[k] = NoState THEN 0 ELSE UpTo(state[k].age + gap)
      /\ st.alerted <=> state[k] # NoState /\ state[k].alerted
  <2>1. CASE state[k] = NoState
    BY <1>2, <2>1 DEF KeyState
  <2>2. CASE state[k] # NoState
    BY <1>1, <1>4, <2>2 DEF KeyState
  <2>3. QED
    BY <2>1, <2>2
<1>7. Evaluated(k, gap) = IF current[k[2]] = "high"
                          THEN [st EXCEPT !.alerted = @ \/ st.age >= Duration] ELSE NoState
  BY DEF Evaluated
<1> HIDE DEF st
<1>8. /\ [st EXCEPT !.alerted = @ \/ st.age >= Duration] \in KeyState
      /\ [st EXCEPT !.alerted = @ \/ st.age >= Duration].age = st.age
      /\ [st EXCEPT !.alerted = @ \/ st.age >= Duration].alerted = (st.alerted \/ st.age >= Duration)
  BY <1>6 DEF KeyState
<1>9. QED
  BY <1>1, <1>4, <1>5, <1>6, <1>7, <1>8

LEMMA UpToIs ==
  ASSUME NEW m \in Nat, NEW n \in Nat, m <= n
  PROVE  /\ UpTo(m) \in 0 .. Duration /\ UpTo(m) <= UpTo(n)
         /\ m >= Duration => UpTo(m) = Duration
  BY ThresholdAssumption DEF UpTo

LEMMA EvaluateKeepsInv ==
  ASSUME ThresholdInv, NEW gap \in 1 .. MaxGap, Evaluate(gap)
  PROVE  ThresholdInv'
<1>1. /\ state' = [k \in Keys |-> IF rules[k[1]] = "on" /\ current[k[2]] # "none"
                                 THEN Evaluated(k, gap) ELSE Aged(k, gap)]
      /\ told' = [k \in Keys |->
           IF Alerted(state'[k]) /\ ~Alerted(state[k]) THEN "alert"
           ELSE IF Alerted(state[k]) /\ ~Alerted(state'[k]) THEN "recovered"
           ELSE told[k]]
      /\ held' = [s \in Switches |-> HeldThrough(held[s], s, gap)]
      /\ heldOn' = [k \in Keys |-> IF rules[k[1]] = "on"
                                   THEN HeldAfter(heldOn[k], k[2], gap) ELSE NoState]
      /\ UNCHANGED <<rules, current, level, edits>>
  BY DEF Evaluate
<1>2. ThresholdTypeOK /\ Duration \in Nat /\ gap \in Nat /\ NoState \notin KeyState \union Nat
  BY ThresholdAssumption, NoStateAssumption DEF ThresholdInv
<1>3. ASSUME NEW h \in Ages
      PROVE  /\ h # NoState => h \in Nat /\ UpTo(h + gap) \in 0 .. Duration
             /\ 0 \in Ages
  BY <1>2, UpToIs DEF Ages
<1>4. ASSUME NEW h \in Ages, NEW s \in Switches
      PROVE  HeldAfter(h, s, gap) \in Ages /\ HeldThrough(h, s, gap) \in Ages
  BY <1>3 DEF HeldAfter, HeldThrough, Ages
<1>5. ThresholdTypeOK'
  <2>1. state' \in [Keys -> KeyState \union {NoState}]
    BY <1>1, EvaluatedIs
  <2>2. told' \in [Keys -> {"none", "alert", "recovered"}]
    BY <1>1, <1>2 DEF ThresholdTypeOK
  <2>3. held' \in [Switches -> Ages] /\ heldOn' \in [Keys -> Ages]
    BY <1>1, <1>2, <1>4, KeyParts DEF ThresholdTypeOK, Ages
  <2>4. QED
    BY <1>1, <1>2, <2>1, <2>2, <2>3 DEF ThresholdTypeOK
<1>6. ASSUME NEW k \in Keys PROVE RulesAreRemembered(k)' /\ NoOlder(k)' /\ NoYounger(k)'
  <2>1. /\ k[1] \in Rules /\ k[2] \in Switches
        /\ RulesAreRemembered(k) /\ NoOlder(k) /\ NoYounger(k)
        /\ state[k] \in KeyState \union {NoState}
        /\ state[k] # NoState => state[k].age \in 0 .. Duration
        /\ held[k[2]] \in Ages /\ heldOn[k] \in Ages
    BY <1>2, KeyParts DEF ThresholdInv, ThresholdTypeOK, KeyState
  <2>2. /\ rules' = rules /\ current' = current /\ edits' = edits
        /\ held'[k[2]] = HeldThrough(held[k[2]], k[2], gap)
        /\ heldOn'[k] = IF rules[k[1]] = "on" THEN HeldAfter(heldOn[k], k[2], gap) ELSE NoState
    BY <1>1, <2>1
  <2>3. \A m, n \in 0 .. Duration : m <= n => UpTo(m + gap) <= UpTo(n + gap)
    BY <1>2, UpToIs
  <2>4. \A n \in 0 .. Duration : UpTo(n + gap) \in 0 .. Duration
                                /\ (n = Duration => UpTo(n + gap) = Duration)
    BY <1>2, UpToIs
  <2>5. CASE rules[k[1]] = "on" /\ current[k[2]] = "normal"
    <3>1. state'[k] = NoState
      BY <1>1, <2>5, EvaluatedIs
    <3>2. heldOn'[k] = NoState
      BY <2>2, <2>5 DEF HeldAfter
    <3>3. QED
      BY <2>1, <2>2, <3>1, <3>2 DEF RulesAreRemembered, NoOlder, NoYounger, Alerted
  <2>6. CASE rules[k[1]] = "on" /\ current[k[2]] = "high"
    <3> DEFINE x == state[k]
               y == state'[k]
    <3>1. /\ y \in KeyState /\ y # NoState
          /\ y.age = IF x = NoState THEN 0 ELSE UpTo(x.age + gap)
          /\ y.alerted <=> (x # NoState /\ x.alerted) \/ y.age >= Duration
      BY <1>1, <1>2, <2>6, EvaluatedIs
    <3>2. y.age \in 0 .. Duration /\ y.alerted \in BOOLEAN
      BY <3>1 DEF KeyState
    <3>3. /\ held'[k[2]] = IF held[k[2]] = NoState THEN 0 ELSE UpTo(held[k[2]] + gap)
          /\ heldOn'[k] = IF heldOn[k] = NoState THEN 0 ELSE UpTo(heldOn[k] + gap)
      BY <2>2, <2>6 DEF HeldThrough, HeldAfter
    <3>4. told'[k] = IF Alerted(y) /\ ~Alerted(x) THEN "alert"
                     ELSE IF Alerted(x) /\ ~Alerted(y) THEN "recovered" ELSE told[k]
      BY <1>1
    <3>5. held'[k[2]] # NoState /\ heldOn'[k] # NoState
      BY <1>2, <1>3, <2>1, <3>3
    <3> HIDE DEF x, y
    <3>6. Alerted(y) <=> y.alerted
      BY <3>1 DEF Alerted
    <3>7. Alerted(y) => y.age = Duration
      <4>1. CASE y.age >= Duration
        BY <1>2, <3>2, <4>1
      <4>2. CASE x # NoState /\ x.alerted
        <5>1. x.age = Duration
          BY <2>1, <4>2 DEF x, RulesAreRemembered, Alerted
        <5>2. QED
          BY <1>2, <2>4, <3>1, <4>2, <5>1
      <4>3. QED
        BY <3>1, <3>6, <4>1, <4>2
    <3>8. RulesAreRemembered(k)'
      BY <2>1, <2>2, <2>6, <3>4, <3>7 DEF x, y, RulesAreRemembered
    <3>9. NoOlder(k)'
      <4> SUFFICES ASSUME edits[k[1]] = {} PROVE held'[k[2]] >= y.age
        BY <2>2, <3>5 DEF y, NoOlder
      <4>1. CASE x = NoState
        BY <1>2, <1>3, <2>1, <3>1, <3>3, <4>1
      <4>2. CASE x # NoState
        <5>1. held[k[2]] # NoState /\ held[k[2]] >= x.age /\ x.age \in 0 .. Duration
          BY <2>1, <4>2 DEF x, NoOlder
        <5>2. held[k[2]] \in 0 .. Duration
          BY <2>1, <5>1 DEF Ages
        <5>3. QED
          BY <2>3, <2>4, <3>1, <3>3, <4>2, <5>1, <5>2
      <4>3. QED
        BY <4>1, <4>2
    <3>10. NoYounger(k)'
      <4>1. y.age >= heldOn'[k]
        <5>1. CASE heldOn[k] = NoState
          BY <3>2, <3>3, <5>1
        <5>2. CASE heldOn[k] # NoState
          <6>1. x # NoState /\ x.age >= heldOn[k] /\ x.age \in 0 .. Duration
            BY <2>1, <5>2 DEF x, NoYounger
          <6>2. heldOn[k] \in 0 .. Duration
            BY <2>1, <5>2 DEF Ages
          <6>3. QED
            BY <2>3, <2>4, <3>1, <3>3, <5>2, <6>1, <6>2
        <5>3. QED
          BY <5>1, <5>2
      <4>2. heldOn'[k] \in Nat
        BY <1>3, <2>1, <3>3
      <4>3. heldOn'[k] >= Duration => Alerted(y)
        BY <1>2, <3>1, <3>2, <3>6, <4>1, <4>2
      <4>4. QED
        BY <2>2, <2>6, <3>1, <4>1, <4>3 DEF y, NoYounger
    <3>11. QED
      BY <3>8, <3>9, <3>10
  <2>7. CASE rules[k[1]] # "on" \/ current[k[2]] = "none"
    <3> DEFINE x == state[k]
               y == state'[k]
    <3>1. /\ y = NoState <=> x = NoState
          /\ x # NoState => y.age = UpTo(x.age + gap) /\ y.alerted = x.alerted
      BY <1>1, <2>7, EvaluatedIs
    <3>2. told'[k] = IF Alerted(y) /\ ~Alerted(x) THEN "alert"
                     ELSE IF Alerted(x) /\ ~Alerted(y) THEN "recovered" ELSE told[k]
      BY <1>1
    <3>3. heldOn'[k] = NoState
      BY <2>2, <2>7 DEF HeldAfter
    <3> HIDE DEF x, y
    <3>4. Alerted(y) <=> Alerted(x)
      BY <3>1 DEF Alerted
    <3>5. Alerted(y) => y.age = Duration
      <4> SUFFICES ASSUME Alerted(y) PROVE y.age = Duration
        OBVIOUS
      <4>1. x # NoState /\ x.age = Duration
        BY <2>1, <3>4 DEF x, RulesAreRemembered, Alerted
      <4>2. QED
        BY <1>2, <2>4, <3>1, <4>1
    <3>6. RulesAreRemembered(k)'
      BY <2>1, <2>2, <3>1, <3>2, <3>4, <3>5 DEF x, y, RulesAreRemembered
    <3>7. NoOlder(k)'
      <4> SUFFICES ASSUME edits[k[1]] = {}, y # NoState
                   PROVE  held'[k[2]] # NoState /\ held'[k[2]] >= y.age
        BY <2>2 DEF y, NoOlder
      <4>1. x # NoState /\ x.age \in 0 .. Duration
        BY <2>1, <3>1 DEF x
      <4>2. rules[k[1]] = "on"
        BY <1>2, <2>1, <4>1 DEF x, RulesAreRemembered, ThresholdTypeOK
      <4>3. current[k[2]] = "none"
        BY <2>7, <4>2
      <4>4. held[k[2]] # NoState /\ held[k[2]] >= x.age
        BY <2>1, <4>1 DEF x, NoOlder
      <4>5. held[k[2]] \in 0 .. Duration
        BY <2>1, <4>4 DEF Ages
      <4>6. held'[k[2]] = UpTo(held[k[2]] + gap)
        BY <2>2, <4>3, <4>4 DEF HeldThrough
      <4>7. QED
        BY <1>2, <2>3, <2>4, <3>1, <4>1, <4>4, <4>5, <4>6
    <3>8. QED
      BY <3>3, <3>6, <3>7 DEF NoYounger
  <2>8. QED
    BY <1>2, <2>1, <2>5, <2>6, <2>7 DEF ThresholdTypeOK
<1>7. QED
  BY <1>5, <1>6 DEF ThresholdInv

LEMMA ThresholdInvStep == ThresholdInv /\ [ThresholdNext]_thresholdVars => ThresholdInv'
<1> SUFFICES ASSUME ThresholdInv, [ThresholdNext]_thresholdVars PROVE ThresholdInv'
  OBVIOUS
<1> USE DEF ThresholdInv, ThresholdTypeOK, RulesAreRemembered, NoOlder, NoYounger
<1>1. ASSUME NEW r \in Rules, Create(r) PROVE ThresholdInv'
  BY <1>1, KeyParts DEF Create, Alerted
<1>2. ASSUME NEW r \in Rules, Toggle(r) PROVE ThresholdInv'
  BY <1>2, KeyParts DEF Toggle, Ages
<1>3. ASSUME NEW r \in Rules, Remove(r) PROVE ThresholdInv'
  BY <1>3, KeyParts DEF Remove, Ages
<1>4. ASSUME NEW s \in Switches,
             Poll(s) \/ PollUnanswered(s) \/ SetUnmanaged(s) \/ LevelChanges(s) \/ Silence(s)
      PROVE  ThresholdInv'
  BY <1>4 DEF Poll, PollUnanswered, SetUnmanaged, LevelChanges, Silence
<1>5. CASE UNCHANGED thresholdVars
  BY <1>5 DEF thresholdVars
<1>6. QED
  BY <1>1, <1>2, <1>3, <1>4, <1>5, EvaluateKeepsInv DEF ThresholdNext

\* A breach of a rule that was left alone is alerted only once it has lasted for the
\* duration of the rule, and one that has is the last thing mailed, for any number of
\* rules and switches, any duration and any time between two evaluations.
THEOREM BreachesAreTold == ThresholdSpec => []SustainedIffTold
<1>1. ThresholdInv => SustainedIffTold
  <2> SUFFICES ASSUME ThresholdInv PROVE SustainedIffTold
    OBVIOUS
  <2>1. ASSUME NEW k \in Keys, Alerted(state[k]), edits[k[1]] = {}
        PROVE  held[k[2]] # NoState /\ held[k[2]] >= Duration
    BY <2>1 DEF ThresholdInv, RulesAreRemembered, NoOlder, Alerted
  <2>2. ASSUME NEW k \in Keys, heldOn[k] # NoState, heldOn[k] >= Duration,
               "delete" \notin edits[k[1]]
        PROVE  told[k] = "alert"
    BY <2>2 DEF ThresholdInv, RulesAreRemembered, NoYounger
  <2>3. QED
    BY <2>1, <2>2 DEF SustainedIffTold, AlertMeansSustained, SustainedIsTold
<1>2. QED
  BY <1>1, ThresholdInvInit, ThresholdInvStep, PTL DEF ThresholdSpec

(***************************************************************************)
(* The nightly check of the subnets: between a lower bound and an upper    *)
(* one, what the run counts is what was there.                             *)
(***************************************************************************)
HealthTypeOK ==
  /\ arp \in [Clients -> SUBSET AllDistros]
  /\ asked \in 0 .. Len(Distros)
  /\ active \subseteq Clients /\ steady \subseteq Clients /\ seen \subseteq Clients
  /\ failures \subseteq 1 .. asked

\* A steady client is in an answer, or in the table of a switch that is still to be
\* asked or did not answer.
IsFound(c) ==
  \/ c \in active
  \/ \E i \in 1 .. Len(Distros) : (i \in failures \/ i > asked) /\ Distros[i] \in arp[c]

\* While the run goes on, nobody has left a table and stayed steady, or got into one
\* unseen.
RunSeesAll ==
  asked < Len(Distros) =>
    /\ \A c \in steady : IsFound(c)
    /\ \A c \in Clients : arp[c] # {} => c \in seen

\* Once it has ended, the mail is about what it has found.
MailIsOfThisRun ==
  mail.kind = "running" \/
    /\ asked = Len(Distros)
    /\ mail = Report(active, failures, LowIn(active), HighIn(active))

HealthInv ==
  /\ HealthTypeOK /\ RunSeesAll
  /\ active \subseteq seen
  /\ asked = Len(Distros) /\ failures = {} => steady \subseteq active
  /\ active # {} => \E i \in 1 .. asked : i \notin failures
  /\ mail.kind = "running" => mail = Mail("running", {}, {}, FALSE)
  /\ MailIsOfThisRun

LEMMA DistrosAre ==
  /\ Len(Distros) \in Nat
  /\ \A i \in 1 .. Len(Distros) : Distros[i] \in AllDistros
  /\ \A d \in AllDistros : \E i \in 1 .. Len(Distros) : Distros[i] = d
  /\ Distros # <<>> => Len(Distros) > 0
  BY SubnetHealthAssumption DEF AllDistros

LEMMA HealthInvInit == HealthInit => HealthInv
  BY DistrosAre
  DEF HealthInit, HealthInv, HealthTypeOK, RunSeesAll, MailIsOfThisRun, Mail

LEMMA BeginKeepsInv == ASSUME HealthInv, Begin PROVE HealthInv'
<1>1. /\ Distros # <<>> /\ asked' = 0 /\ active' = {} /\ failures' = {} /\ arp' = arp
      /\ steady' = {c \in Clients : arp[c] # {}} /\ seen' = steady'
      /\ mail' = Mail("running", {}, {}, FALSE)
  BY DEF Begin
<1>2. HealthTypeOK'
  BY <1>1, DistrosAre DEF HealthInv, HealthTypeOK
<1>3. ASSUME NEW c \in steady' PROVE IsFound(c)'
  <2>1. PICK d \in arp[c] : TRUE
    BY <1>1, <1>3
  <2>2. d \in AllDistros
    BY <1>1, <1>3, <2>1 DEF HealthInv, HealthTypeOK
  <2>3. PICK i \in 1 .. Len(Distros) : Distros[i] = d
    BY <2>2, DistrosAre
  <2>4. QED
    BY <1>1, <2>1, <2>3, DistrosAre DEF IsFound
<1>4. RunSeesAll'
  BY <1>1, <1>3 DEF RunSeesAll
<1>5. asked' # Len(Distros)
  BY <1>1, DistrosAre
<1>6. QED
  BY <1>1, <1>2, <1>4, <1>5 DEF HealthInv, MailIsOfThisRun, Mail

LEMMA ReportIsOver == ASSUME NEW ips, NEW fs, NEW l, NEW h PROVE Report(ips, fs, l, h).kind # "running"
  BY DEF Report, Mail

LEMMA AskKeepsInv == ASSUME HealthInv, NEW heard \in BOOLEAN, Ask(heard) PROVE HealthInv'
<1> DEFINE d      == Distros[asked + 1]
           ips    == IF heard THEN Collected(d) ELSE active
           unread == IF heard THEN failures ELSE failures \union {asked + 1}
<1>1. /\ asked < Len(Distros) /\ asked' = asked + 1 /\ active' = ips /\ failures' = unread
      /\ mail' = IF asked' = Len(Distros)
                 THEN Report(ips, unread, LowIn(ips), HighIn(ips)) ELSE mail
      /\ UNCHANGED <<arp, steady, seen>>
  BY DEF Ask
<1>2. HealthTypeOK /\ RunSeesAll /\ Len(Distros) \in Nat /\ asked \in Nat
  BY DistrosAre DEF HealthInv, HealthTypeOK
<1>3. /\ active \subseteq ips
      /\ heard => \A c \in Clients : d \in arp[c] => c \in ips
      /\ ips \subseteq active \union {c \in Clients : d \in arp[c]}
      /\ ~heard => ips = active
  BY DEF Collected
<1>4. failures \subseteq unread /\ unread \subseteq failures \union {asked + 1}
      /\ (asked + 1 \in unread <=> ~heard)
  BY <1>2 DEF HealthTypeOK
<1> HIDE DEF ips, unread, d
<1>5. HealthTypeOK'
  <2>1. failures \subseteq 1 .. asked /\ active \subseteq Clients
    BY <1>2 DEF HealthTypeOK
  <2>2. unread \subseteq 1 .. asked + 1
    <3>1. \A i \in 1 .. asked : i \in 1 .. asked + 1
      BY <1>2
    <3>2. asked + 1 \in 1 .. asked + 1
      BY <1>2
    <3>3. failures \union {asked + 1} \subseteq 1 .. asked + 1
      BY <2>1, <3>1, <3>2
    <3>4. QED
      BY <1>4, <3>3
  <2>3. ips \subseteq Clients
    BY <1>3, <2>1
  <2>4. asked + 1 \in 0 .. Len(Distros)
    BY <1>1, <1>2
  <2>5. QED
    BY <1>1, <1>2, <2>2, <2>3, <2>4 DEF HealthTypeOK
<1>6. ASSUME NEW c \in steady PROVE IsFound(c)'
  <2>1. IsFound(c) /\ c \in Clients
    BY <1>1, <1>2 DEF RunSeesAll, HealthTypeOK
  <2>2. CASE c \in active
    BY <1>1, <1>3, <2>2 DEF IsFound
  <2>3. CASE c \notin active
    <3>1. PICK i \in 1 .. Len(Distros) : (i \in failures \/ i > asked) /\ Distros[i] \in arp[c]
      BY <2>1, <2>3 DEF IsFound
    <3>2. CASE i = asked + 1
      <4>1. heard => c \in ips
        BY <1>3, <2>1, <3>1, <3>2 DEF d
      <4>2. QED
        BY <1>1, <1>4, <3>1, <3>2, <4>1 DEF IsFound
    <3>3. CASE i # asked + 1
      <4>1. i \in failures' \/ i > asked'
        BY <1>1, <1>2, <1>4, <3>1, <3>3
      <4>2. QED
        BY <1>1, <3>1, <4>1 DEF IsFound
    <3>4. QED
      BY <3>2, <3>3
  <2>4. QED
    BY <2>2, <2>3
<1>7. RunSeesAll'
  BY <1>1, <1>2, <1>6 DEF RunSeesAll
<1>8. active' \subseteq seen'
  BY <1>1, <1>2, <1>3 DEF RunSeesAll, HealthInv
<1>9. asked' = Len(Distros) /\ failures' = {} => steady' \subseteq active'
  <2> SUFFICES ASSUME asked' = Len(Distros), failures' = {}, NEW c \in steady PROVE c \in active'
    BY <1>1
  <2>1. IsFound(c)'
    BY <1>6
  <2>2. \A i \in 1 .. Len(Distros) : ~(i \in failures' \/ i > asked')
    BY <1>2
  <2>3. QED
    BY <2>1, <2>2 DEF IsFound
<1>10. active' # {} => \E i \in 1 .. asked' : i \notin failures'
  <2> SUFFICES ASSUME active' # {} PROVE \E i \in 1 .. asked' : i \notin failures'
    OBVIOUS
  <2>1. CASE heard
    BY <1>1, <1>2, <1>4, <2>1
  <2>2. CASE ~heard
    <3>1. PICK i \in 1 .. asked : i \notin failures
      BY <1>1, <1>3, <2>2 DEF HealthInv
    <3>2. i \notin unread /\ i \in 1 .. asked'
      BY <1>1, <1>2, <1>4, <3>1
    <3>3. QED
      BY <1>1, <3>2
  <2>3. QED
    BY <2>1, <2>2
<1>11. mail'.kind = "running" => mail' = Mail("running", {}, {}, FALSE)
  BY <1>1, ReportIsOver DEF HealthInv
<1>12. MailIsOfThisRun'
  <2>1. CASE asked' = Len(Distros)
    <3>1. mail' = Report(active', failures', LowIn(active'), HighIn(active'))
      BY <1>1, <2>1
    <3>2. QED
      BY <2>1, <3>1 DEF MailIsOfThisRun, LowIn, HighIn, In
  <2>2. CASE asked' # Len(Distros)
    BY <1>1, <1>2, <2>2 DEF MailIsOfThisRun, HealthInv
  <2>3. QED
    BY <2>1, <2>2
<1>13. QED
  BY <1>5, <1>7, <1>8, <1>9, <1>10, <1>11, <1>12 DEF HealthInv

LEMMA LearnKeepsInv ==
  ASSUME HealthInv, NEW c \in Clients, NEW d \in AllDistros, Learn(c, d)
  PROVE  HealthInv'
<1>1. /\ arp' = [arp EXCEPT ![c] = arp[c] \union {d}]
      /\ seen' = IF asked < Len(Distros) THEN seen \union {c} ELSE seen
      /\ UNCHANGED <<asked, active, failures, steady, mail>>
  BY DEF Learn, HealthInv, HealthTypeOK
<1>2. HealthTypeOK'
  BY <1>1 DEF HealthInv, HealthTypeOK
<1>3. \A e \in Clients : arp[e] \subseteq arp'[e] /\ (e # c => arp'[e] = arp[e])
  BY <1>1 DEF HealthInv, HealthTypeOK
<1>4. RunSeesAll'
  BY <1>1, <1>3 DEF HealthInv, HealthTypeOK, RunSeesAll, IsFound
<1>5. MailIsOfThisRun'
  BY <1>1 DEF HealthInv, MailIsOfThisRun, LowIn, HighIn, In
<1>6. QED
  BY <1>1, <1>2, <1>4, <1>5 DEF HealthInv

LEMMA ForgetKeepsInv ==
  ASSUME HealthInv, NEW c \in Clients, NEW d \in AllDistros, Forget(c, d)
  PROVE  HealthInv'
<1>1. /\ arp' = [arp EXCEPT ![c] = arp[c] \ {d}]
      /\ steady' = IF asked < Len(Distros) THEN steady \ {c} ELSE steady
      /\ UNCHANGED <<asked, active, failures, seen, mail>>
  BY DEF Forget, HealthInv, HealthTypeOK
<1>2. HealthTypeOK'
  BY <1>1 DEF HealthInv, HealthTypeOK
<1>3. \A e \in Clients : arp'[e] \subseteq arp[e] /\ (e # c => arp'[e] = arp[e])
  BY <1>1 DEF HealthInv, HealthTypeOK
<1>4. RunSeesAll'
  BY <1>1, <1>3 DEF HealthInv, HealthTypeOK, RunSeesAll, IsFound
<1>5. MailIsOfThisRun'
  BY <1>1 DEF HealthInv, MailIsOfThisRun, LowIn, HighIn, In
<1>6. QED
  BY <1>1, <1>2, <1>4, <1>5 DEF HealthInv

LEMMA HealthInvStep == HealthInv /\ [HealthNext]_healthVars => HealthInv'
<1>1. HealthInv /\ UNCHANGED healthVars => HealthInv'
  BY DEF healthVars, HealthInv, HealthTypeOK, RunSeesAll, IsFound, MailIsOfThisRun, LowIn, HighIn,
         In
<1>2. QED
  BY <1>1, BeginKeepsInv, AskKeepsInv, LearnKeepsInv, ForgetKeepsInv DEF HealthNext

\* Fewer addresses, fewer of them in each subnet.
LEMMA InIsMonotone ==
  ASSUME NEW a \in SUBSET Clients, NEW b \in SUBSET Clients, a \subseteq b, NEW s
  PROVE  In(a, s) \in Nat /\ In(b, s) \in Nat /\ In(a, s) <= In(b, s)
<1> DEFINE A == {c \in a : Home[c] = s}
           B == {c \in b : Home[c] = s}
<1>1. A \subseteq B /\ B \subseteq Clients
  OBVIOUS
<1>2. IsFiniteSet(B)
  BY <1>1, SubnetHealthAssumption, FS_Subset
<1>3. IsFiniteSet(A) /\ Cardinality(A) <= Cardinality(B)
  BY <1>1, <1>2, FS_Subset
<1>4. Cardinality(A) \in Nat /\ Cardinality(B) \in Nat
  BY <1>2, <1>3, FS_CardinalityType
<1>5. QED
  BY <1>3, <1>4 DEF In

\* A subnet is reported too empty or too full only if it is, or the mail says which switch
\* did not answer, and a run that says nothing hides none, for any switches, subnets,
\* clients and watermarks, and however the clients roam while the switches are asked.
THEOREM ReportsStayHonest == HealthSpec => []ReportIsHonest
<1>1. HealthInv => ReportIsHonest
  <2> SUFFICES ASSUME HealthInv PROVE ReportIsHonest
    OBVIOUS
  <2>1. CASE mail.kind = "running"
    <3>1. mail = Mail("running", {}, {}, FALSE)
      BY <2>1 DEF HealthInv
    <3>2. QED
      BY <3>1 DEF Mail, ReportIsHonest, LowIsRealOrNoted, NothingIsHidden
  <2>2. CASE mail.kind # "running"
    <3> DEFINE low == LowIn(active)
               high == HighIn(active)
    <3>1. asked = Len(Distros) /\ mail = Report(active, failures, low, high)
      BY <2>2 DEF HealthInv, MailIsOfThisRun
    <3>2. CASE active = {}
      <4>1. mail = Mail("failed", {}, {}, TRUE)
        BY <3>1, <3>2 DEF Report
      <4>2. QED
        BY <4>1 DEF Mail, ReportIsHonest, LowIsRealOrNoted, NothingIsHidden
    <3>3. CASE active # {}
      <4>1. /\ mail.low = low /\ mail.high = high /\ mail.noted = (failures # {})
            /\ mail.kind = IF low = {} /\ high = {} THEN "quiet" ELSE "alert"
        BY <3>1, <3>3 DEF Report, Mail
      <4>2. /\ \A s \in low : s \in Subnets /\ In(active, s) < Low
            /\ \A s \in Subnets \ low : ~(In(active, s) < Low)
            /\ \A s \in high : s \in Subnets /\ In(active, s) > High
            /\ \A s \in Subnets \ high : ~(In(active, s) > High)
        BY DEF LowIn, HighIn
      <4> HIDE DEF low, high
      <4>3. Low \in Nat /\ High \in Nat
        BY SubnetHealthAssumption
      <4>4. active \in SUBSET Clients /\ steady \in SUBSET Clients /\ seen \in SUBSET Clients
        BY DEF HealthInv, HealthTypeOK
      <4>5. \A s \in Subnets : /\ In(active, s) \in Nat /\ In(seen, s) \in Nat
                               /\ In(active, s) <= In(seen, s) /\ In(steady, s) \in Nat
        BY <4>4, InIsMonotone DEF HealthInv
      <4>6. failures = {} => \A s \in Subnets : In(steady, s) <= In(active, s)
        BY <3>1, <4>4, InIsMonotone DEF HealthInv
      <4>7. failures # 1 .. Len(Distros)
        BY <3>1, <3>3 DEF HealthInv
      <4>8. LowIsRealOrNoted
        <5>1. CASE failures = {}
          <6>1. \A s \in low : In(steady, s) < Low
            BY <4>2, <4>3, <4>5, <4>6, <5>1
          <6>2. QED
            BY <4>1, <6>1 DEF LowIsRealOrNoted
        <5>2. CASE failures # {}
          BY <4>1, <4>7, <5>2 DEF LowIsRealOrNoted
        <5>3. QED
          BY <5>1, <5>2
      <4>9. NothingIsHidden
        <5>1. \A s \in mail.high : In(seen, s) > High
          BY <4>1, <4>2, <4>3, <4>5
        <5>2. ASSUME mail.kind = "quiet", NEW s \in Subnets
              PROVE  In(seen, s) >= Low /\ (failures = {} => In(steady, s) <= High)
          <6>1. low = {} /\ high = {}
            BY <4>1, <5>2
          <6>2. In(active, s) >= Low /\ In(active, s) <= High
            BY <4>2, <4>3, <4>5, <6>1
          <6>3. QED
            BY <4>3, <4>5, <4>6, <6>2
        <5>3. QED
          BY <5>1, <5>2 DEF NothingIsHidden
      <4>10. QED
        BY <4>8, <4>9 DEF ReportIsHonest
    <3>4. QED
      BY <3>2, <3>3
  <2>3. QED
    BY <2>1, <2>2
<1>2. QED
  BY <1>1, HealthInvInit, HealthInvStep, PTL DEF HealthSpec
================================================================================
