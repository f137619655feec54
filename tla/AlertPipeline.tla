---------------------------- MODULE AlertPipeline -----------------------------
(***************************************************************************)
(* From an outage to a mail, in time: the poll of each switch, the dedup   *)
(* window of each kind of alert and the batching window of each kind of    *)
(* mail, counted in ticks.  A tick is 15 s: with the defaults of the code  *)
(* a poll every 2 ticks, 3 failed polls, a batch of 4 and a dedup window   *)
(* of 20.  Probes and mails take no time here; SwitchMonitoring and        *)
(* AlertBatcher are about what happens while they do.                      *)
(***************************************************************************)
EXTENDS Naturals

CONSTANTS
  Switches,
  PollTicks,    \* poll_interval
  Threshold,    \* failure_threshold
  DedupWindows, \* what alert_dedup_seconds may be, 0 = off
  BatchTicks    \* alert_batch_seconds, 0 = off

ASSUME PipelineAssumption ==
  /\ PollTicks \in Nat \ {0} /\ Threshold \in Nat \ {0}
  /\ DedupWindows \subseteq Nat /\ BatchTicks \in Nat

Kinds == {"down", "restored"}
Off   == BatchTicks + 1       \* no batch of this kind is open

\* Ticks from the start of an outage to the mail about it, at the latest.
Latency == PollTicks * Threshold + BatchTicks

VARIABLES
  dedup,      \* alert_dedup_seconds, read once from the settings
  reachable,  \* environment: the switch would answer
  wait,       \* ticks to the next poll
  failures,   \* SwitchState.failures, counted up to Threshold
  isDown,     \* SwitchState.is_down
  cool,       \* ticks left of the dedup window of each kind
  batch,      \* AlertBatcher._pending, as the switches it is about
  left,       \* ticks left of its Timer, or Off
  inbox,      \* the last mail about each switch
  outage,     \* ghost: ticks this switch has been unreachable, up to Latency
  since       \* ghost: ticks since the last alert of each kind, up to dedup

pipelineVars == <<dedup, reachable, wait, failures, isDown, cool, batch, left, inbox, outage,
          since>>

Down1(n) == IF n > 0 THEN n - 1 ELSE 0

\* mutant: every event starts the collection window again.
HandOverDebounced(s, k) ==
  IF BatchTicks = 0
  THEN inbox' = [inbox EXCEPT ![s] = k] /\ UNCHANGED <<batch, left>>
  ELSE /\ batch' = [batch EXCEPT ![k] = @ \union {s}]
       /\ left' = [left EXCEPT ![k] = BatchTicks]
       /\ UNCHANGED inbox

\* AlertBatcher.add: the first event of a kind opens the window.
HandOver(s, k) ==
  IF BatchTicks = 0
  THEN inbox' = [inbox EXCEPT ![s] = k] /\ UNCHANGED <<batch, left>>
  ELSE /\ batch' = [batch EXCEPT ![k] = @ \union {s}]
       /\ left' = IF left[k] = Off THEN [left EXCEPT ![k] = BatchTicks] ELSE left
       /\ UNCHANGED inbox

\* mutant: an alert of one kind closes the window of the other.
WindowClosesOther(s, k) == [j \in Kinds |-> IF j = k THEN dedup ELSE 0]

\* _maybe_send_alert: the window of this kind is restarted on send and on
\* suppress alike, the other kind's is left alone.
WindowAfter(s, k) == [cool[s] EXCEPT ![k] = dedup]

Alert(s, k) ==
  /\ cool' = [cool EXCEPT ![s] = WindowAfter(s, k)]
  /\ IF cool[s][k] > 0
     THEN UNCHANGED <<batch, left, inbox, since>>
     ELSE HandOver(s, k) /\ since' = [since EXCEPT ![s][k] = 0]

\* One poll, taken when its wait is over.
Poll(s) ==
  LET n == IF failures[s] < Threshold THEN failures[s] + 1 ELSE Threshold
      goesDown == ~reachable[s] /\ n >= Threshold /\ ~isDown[s]
      comesUp  == reachable[s] /\ isDown[s]
  IN
  /\ wait[s] = 0
  /\ wait' = [wait EXCEPT ![s] = PollTicks]
  /\ failures' = [failures EXCEPT ![s] = IF reachable[s] THEN 0 ELSE n]
  /\ isDown' = [isDown EXCEPT ![s] = (@ \/ goesDown) /\ ~comesUp]
  /\ IF goesDown THEN Alert(s, "down")
     ELSE IF comesUp THEN Alert(s, "restored")
     ELSE UNCHANGED <<cool, batch, left, inbox, since>>
  /\ UNCHANGED <<dedup, reachable, outage>>

\* _flush of the Timer of kind k: one mail about all the switches in the batch.
Flush(k) ==
  /\ left[k] = 0
  /\ inbox' = [s \in Switches |-> IF s \in batch[k] THEN k ELSE inbox[s]]
  /\ batch' = [batch EXCEPT ![k] = {}]
  /\ left' = [left EXCEPT ![k] = Off]
  /\ UNCHANGED <<dedup, reachable, wait, failures, isDown, cool, outage, since>>

\* Time passes only when everything that is due has happened.
PipelineTick ==
  /\ \A s \in Switches : wait[s] > 0
  /\ \A k \in Kinds : left[k] > 0
  /\ wait' = [s \in Switches |-> wait[s] - 1]
  /\ left' = [k \in Kinds |-> IF left[k] = Off THEN Off ELSE left[k] - 1]
  /\ cool' = [s \in Switches |-> [k \in Kinds |-> Down1(cool[s][k])]]
  /\ outage' = [s \in Switches |->
       IF reachable[s] THEN 0
       ELSE IF outage[s] < Latency THEN outage[s] + 1 ELSE Latency]
  /\ since' = [s \in Switches |-> [k \in Kinds |->
       IF since[s][k] < dedup THEN since[s][k] + 1 ELSE dedup]]
  /\ UNCHANGED <<dedup, reachable, failures, isDown, batch, inbox>>

\* A switch stops answering, or answers again.
Change(s) ==
  /\ reachable' = [reachable EXCEPT ![s] = ~@]
  /\ outage' = [outage EXCEPT ![s] = 0]
  /\ UNCHANGED <<dedup, wait, failures, isDown, cool, batch, left, inbox, since>>

\* start(): the first polls are spread over a poll interval.
PipelineInit ==
  /\ dedup \in DedupWindows
  /\ reachable = [s \in Switches |-> TRUE]
  /\ wait \in [Switches -> 0 .. PollTicks]
  /\ failures = [s \in Switches |-> 0]
  /\ isDown = [s \in Switches |-> FALSE]
  /\ cool = [s \in Switches |-> [k \in Kinds |-> 0]]
  /\ batch = [k \in Kinds |-> {}]
  /\ left = [k \in Kinds |-> Off]
  /\ inbox = [s \in Switches |-> "none"]
  /\ outage = [s \in Switches |-> 0]
  /\ since = [s \in Switches |-> [k \in Kinds |-> dedup]]

PipelineNext ==
  \/ \E s \in Switches : Poll(s) \/ Change(s)
  \/ \E k \in Kinds : Flush(k)
  \/ PipelineTick

PipelineSpec == PipelineInit /\ [][PipelineNext]_pipelineVars

\* Without a dedup window, a switch that does not answer for as long as the
\* failure threshold and the batching window take has been mailed DOWN, and
\* that is the last mail about it.  It holds while the polls of an outage take longer
\* than the batching window, PollTicks * Threshold > BatchTicks, as the defaults do;
\* below that a RESTORED that is still collecting may be mailed last.
OutageIsMailedInTime ==
  \A s \in Switches :
    dedup = 0 /\ outage[s] >= Latency /\ wait[s] > 0 /\ (\A k \in Kinds : left[k] > 0)
      => inbox[s] = "down"

\* Any two alerts of one kind about one switch that are not suppressed are a
\* whole dedup window apart, however often the switch flaps.
AlertsAreSpaced ==
  [][\A s \in Switches, k \in Kinds :
       since[s][k] # 0 /\ since'[s][k] = 0 => since[s][k] >= dedup]_pipelineVars

\* An operator who got a DOWN mail about a switch that is up again sees the
\* RESTORED follow-up, as soon as no batch about it is open any more.
RestoredFollowsDown ==
  \A s \in Switches :
    ~isDown[s] /\ (\A k \in Kinds : s \notin batch[k]) => inbox[s] # "down"
===============================================================================
