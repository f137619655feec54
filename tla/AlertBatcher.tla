----------------------------- MODULE AlertBatcher -----------------------------
(***************************************************************************)
(* AlertBatcher: monitor threads add events, threading.Timer threads flush *)
(* them one kind at a time, and flush_all may run beside both.  Every      *)
(* action is one critical section of the batcher's lock, or the sending    *)
(* that happens after the lock was released.                               *)
(***************************************************************************)
EXTENDS Naturals, FiniteSets

CONSTANTS
  Alerts,     \* the events the monitors report, each reported once
  Kinds,      \* "down" and "restored"
  KindOf,     \* [Alerts -> Kinds]
  Timers,     \* bound: the Timer threads alive at the same time
  Flushers,   \* threads calling flush_all
  Callers,    \* monitor threads
  Windows,    \* whether alert_batch_seconds > 0 may be: a subset of BOOLEAN
  NoTimer

ASSUME BatcherAssumption ==
  /\ KindOf \in [Alerts -> Kinds]
  /\ Windows \subseteq BOOLEAN
  /\ NoTimer \notin Timers
  /\ Timers \intersect (Flushers \union Callers) = {}
  /\ Flushers \intersect Callers = {}

Threads == Timers \union Flushers \union Callers

VARIABLES
  batching,   \* alert_batch_seconds > 0, read once from the settings
  pending,    \* _pending: what waits for the next mail of each kind
  registered, \* _timers: the Timer of each kind, or NoTimer
  timer,      \* "free", "armed", "due" (past its wait, no longer cancellable)
              \* or "sending"
  timerKind,  \* the argument the Timer was created with
  todo,       \* kinds a flush_all still has to flush
  sending,    \* entries a thread took out under the lock, to be sent
  added,      \* events that were reported
  mails,      \* the mails that were sent
  failed,     \* events whose mail raised
  running     \* the process is up

timers == <<registered, timer, timerKind>>
vars == <<batching, pending, timers, todo, sending, added, mails, failed, running>>

\* mutant: one Timer serves all kinds.
ArmOnce(k) ==
  IF \E j \in Kinds : registered[j] # NoTimer THEN UNCHANGED timers
  ELSE \E t \in Timers :
         /\ timer[t] = "free"
         /\ registered' = [registered EXCEPT ![k] = t]
         /\ timer' = [timer EXCEPT ![t] = "armed"]
         /\ timerKind' = [timerKind EXCEPT ![t] = k]

\* add's second half: start a Timer unless this kind has one.
Arm(k) ==
  IF registered[k] # NoTimer THEN UNCHANGED timers
  ELSE \E t \in Timers :
         /\ timer[t] = "free"
         /\ registered' = [registered EXCEPT ![k] = t]
         /\ timer' = [timer EXCEPT ![t] = "armed"]
         /\ timerKind' = [timerKind EXCEPT ![t] = k]

\* _send: the notifier is called once for the batch; an exception is logged.
Deliver(b) ==
  \/ mails' = mails \union {b} /\ UNCHANGED failed
  \/ failed' = failed \union b /\ UNCHANGED mails

\* add: queue the event, or go on to send it alone when batching is off.
Add(c, e) ==
  /\ running
  /\ sending[c] = {}
  /\ e \notin added
  /\ added' = added \union {e}
  /\ IF batching
     THEN /\ pending' = [pending EXCEPT ![KindOf[e]] = @ \union {e}]
          /\ Arm(KindOf[e])
          /\ UNCHANGED sending
     ELSE /\ sending' = [sending EXCEPT ![c] = {e}]
          /\ UNCHANGED <<pending, timers>>
  /\ UNCHANGED <<todo, mails, failed, running, batching>>

\* The Timer's wait is over; from here on cancel() has no effect.
Expire(t) ==
  /\ running
  /\ timer[t] = "armed"
  /\ timer' = [timer EXCEPT ![t] = "due"]
  /\ UNCHANGED <<pending, registered, timerKind, todo, sending, added, mails,
                 failed, running, batching>>

\* mutant: the entries are copied, and left in _pending.
TakeCopy(x, k) ==
  /\ sending' = [sending EXCEPT ![x] = pending[k]]
  /\ registered' = [registered EXCEPT ![k] = NoTimer]
  /\ UNCHANGED pending

\* mutant: the Timer stays registered.
TakeKeepsTimer(x, k) ==
  /\ sending' = [sending EXCEPT ![x] = pending[k]]
  /\ pending' = [pending EXCEPT ![k] = {}]
  /\ UNCHANGED registered

\* _flush, under the lock: whatever Timer is registered by now is dropped,
\* whichever thread does the flushing.
Take(x, k) ==
  /\ sending' = [sending EXCEPT ![x] = pending[k]]
  /\ pending' = [pending EXCEPT ![k] = {}]
  /\ registered' = [registered EXCEPT ![k] = NoTimer]

TimerFlush(t) ==
  /\ running
  /\ timer[t] = "due"
  /\ Take(t, timerKind[t])
  /\ timer' = [timer EXCEPT ![t] = "sending"]
  /\ UNCHANGED <<timerKind, todo, added, mails, failed, running, batching>>

\* _flush, after the lock: an empty batch is not sent.
SendTaken(x) ==
  /\ IF sending[x] = {} THEN UNCHANGED <<mails, failed>> ELSE Deliver(sending[x])
  /\ sending' = [sending EXCEPT ![x] = {}]

TimerSend(t) ==
  /\ running
  /\ timer[t] = "sending"
  /\ SendTaken(t)
  /\ timer' = [timer EXCEPT ![t] = "free"]
  /\ UNCHANGED <<pending, registered, timerKind, todo, added, running, batching>>

\* flush_all, under the lock: cancel the registered Timers and forget them.
FlushAllBegin(f) ==
  /\ running
  /\ todo[f] = {} /\ sending[f] = {}
  /\ todo' = [todo EXCEPT ![f] = {k \in Kinds : pending[k] # {}}]
  /\ timer' = [t \in Timers |->
       IF timer[t] = "armed" /\ \E k \in Kinds : registered[k] = t
       THEN "free" ELSE timer[t]]
  /\ registered' = [k \in Kinds |-> NoTimer]
  /\ UNCHANGED <<pending, timerKind, sending, added, mails, failed, running, batching>>

FlushAllTake(f, k) ==
  /\ running
  /\ sending[f] = {}
  /\ k \in todo[f]
  /\ Take(f, k)
  /\ todo' = [todo EXCEPT ![f] = @ \ {k}]
  /\ UNCHANGED <<timer, timerKind, added, mails, failed, running, batching>>

\* A flush_all thread sends what it took; so does a monitor's unbatched add.
SendNow(x) ==
  /\ running
  /\ sending[x] # {}
  /\ SendTaken(x)
  /\ UNCHANGED <<pending, timers, todo, added, running, batching>>

\* main's _shutdown and process exit: the daemon threads just end.
Stop ==
  /\ running
  /\ running' = FALSE
  /\ UNCHANGED <<pending, timers, todo, sending, added, mails, failed, batching>>

Init ==
  /\ batching \in Windows
  /\ pending = [k \in Kinds |-> {}]
  /\ registered = [k \in Kinds |-> NoTimer]
  /\ timer = [t \in Timers |-> "free"]
  /\ timerKind \in [Timers -> Kinds]
  /\ todo = [f \in Flushers |-> {}]
  /\ sending = [x \in Threads |-> {}]
  /\ added = {}
  /\ mails = {}
  /\ failed = {}
  /\ running = TRUE

TimerStep(t) == Expire(t) \/ TimerFlush(t) \/ TimerSend(t)

FlusherStep(f) ==
  \/ \E k \in Kinds : FlushAllTake(f, k)
  \/ SendNow(f)

Next ==
  \/ \E c \in Callers, e \in Alerts : Add(c, e)
  \/ \E c \in Callers : SendNow(c)
  \/ \E t \in Timers : TimerStep(t)
  \/ \E f \in Flushers : FlushAllBegin(f) \/ FlusherStep(f)
  \/ Stop

Spec == Init /\ [][Next]_vars

\* A started Timer thread runs on its own, and a flush_all that was begun goes
\* on; nobody is obliged to call flush_all or to stop the process.
FairSpec ==
  /\ Spec
  /\ \A t \in Timers : WF_vars(TimerStep(t))
  /\ \A f \in Flushers : WF_vars(FlusherStep(f))
  /\ \A c \in Callers : WF_vars(SendNow(c))

(***************************************************************************)
(* Properties                                                              *)
(***************************************************************************)
TypeOK ==
  /\ batching \in BOOLEAN
  /\ pending \in [Kinds -> SUBSET Alerts]
  /\ registered \in [Kinds -> Timers \union {NoTimer}]
  /\ timer \in [Timers -> {"free", "armed", "due", "sending"}]
  /\ timerKind \in [Timers -> Kinds]
  /\ todo \in [Flushers -> SUBSET Kinds]
  /\ sending \in [Threads -> SUBSET Alerts]
  /\ added \subseteq Alerts
  /\ mails \subseteq SUBSET Alerts
  /\ failed \subseteq Alerts
  /\ running \in BOOLEAN

\* A Timer will flush kind k.
Coming(t, k) == timer[t] \in {"armed", "due"} /\ timerKind[t] = k

\* No event is left behind: as long as something waits in _pending, a Timer of
\* that kind is on its way or a flush_all has that kind on its list, even after
\* a late Timer dropped the registration of a newer one.
NothingStranded ==
  \A k \in Kinds :
    pending[k] # {} =>
      (\E t \in Timers : Coming(t, k)) \/ (\E f \in Flushers : k \in todo[f])

\* The registration is what add trusts: it always names a Timer on its way.
RegisteredIsComing ==
  \A k \in Kinds : registered[k] # NoTimer => Coming(registered[k], k)

Queued ==
  {e \in Alerts : \/ \E k \in Kinds : e \in pending[k]
                  \/ \E x \in Threads : e \in sending[x]}
Lost == IF running THEN failed ELSE failed \union Queued

\* What is promised: see AlertDelivery.
Delivery == INSTANCE AlertDelivery WITH
  queued <- IF running THEN Queued ELSE {}, mails <- mails, lost <- Lost

ImplementsDelivery == Delivery!Spec

\* Every reported event gets into a mail, unless sending it fails or the
\* process stops.
EventsGoOut ==
  \A e \in Alerts : e \in added ~> (e \in (UNION mails) \union failed \/ ~running)
===============================================================================
