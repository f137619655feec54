--------------------------- MODULE ThresholdAlerting --------------------------
(***************************************************************************)
(* Threshold alerts: the poll tasks that keep the last reading of every    *)
(* switch, the rules the operator edits, and ThresholdEvaluator, which     *)
(* looks at both every eval_seconds and remembers, per rule and switch,    *)
(* since when the reading has breached the rule and whether it said so.    *)
(* One task and one reading per switch; a reading is normal or high, and a rule is      *)
(* breached by a high one.                                                 *)
(***************************************************************************)
EXTENDS Naturals

CONSTANTS
  Rules,      \* rule names
  Switches,
  Duration,   \* duration_s of the rules, in evaluation periods
  MaxGap,     \* bound: evaluation periods between two evaluations
  Events,     \* what else this instance lets happen (see below)
  NoState

ASSUME ThresholdAssumption ==
  /\ Duration \in Nat
  /\ MaxGap \in Nat \ {0}
  /\ Events \subseteq {"toggle", "delete", "unmanage", "silence"}

Keys == Rules \X Switches

\* The evaluator's state: `age' is now - since, counted up to Duration.
KeyState == [age : 0 .. Duration, alerted : BOOLEAN]

ASSUME NoStateAssumption == NoState \notin KeyState \union Nat

VARIABLES
  source,     \* which poll task the readings come from
  rules,      \* ThresholdStore: "absent", "on" or "off"
  managed,    \* SwitchState.unmanaged is not set
  level,      \* environment: what a poll of the switch would read
  answers,    \* environment: whether the switch answers the poll
  current,    \* _current of the poll task: the last reading, or "none"
  state,      \* ThresholdEvaluator._state
  told,       \* ghost: the last mail about this rule and switch
  held,       \* ghost: periods no evaluation of this task saw it other than high
  heldOn,     \* ghost: periods all of them saw it high, since the rule was switched on
  edits       \* ghost: per rule name, what was ever done to it

thresholdVars == <<source, rules, managed, level, answers, current, state, told, held, heldOn,
          edits>>

UpTo(n) == IF n < Duration THEN n ELSE Duration

(***************************************************************************)
(* ThresholdStore                                                          *)
(***************************************************************************)
\* save_rule for a new rule.
Create(r) ==
  /\ rules[r] = "absent"
  /\ rules' = [rules EXCEPT ![r] = "on"]
  /\ told' = [k \in Keys |-> IF k[1] = r THEN "none" ELSE told[k]]
  /\ UNCHANGED <<source, managed, level, answers, current, state, held, heldOn, edits>>

\* set_enabled
Toggle(r) ==
  /\ "toggle" \in Events
  /\ rules[r] # "absent"
  /\ rules' = [rules EXCEPT ![r] = IF @ = "on" THEN "off" ELSE "on"]
  /\ heldOn' = [k \in Keys |-> IF k[1] = r THEN NoState ELSE heldOn[k]]
  /\ edits' = [edits EXCEPT ![r] = @ \union {"toggle"}]
  /\ UNCHANGED <<source, managed, level, answers, current, state, told, held>>

\* remove: the evaluator is not told.
Remove(r) ==
  /\ "delete" \in Events
  /\ rules[r] # "absent"
  /\ rules' = [rules EXCEPT ![r] = "absent"]
  /\ heldOn' = [k \in Keys |-> IF k[1] = r THEN NoState ELSE heldOn[k]]
  /\ edits' = [edits EXCEPT ![r] = @ \union {"delete"}]
  /\ UNCHANGED <<source, managed, level, answers, current, state, told, held>>

(***************************************************************************)
(* The poll task                                                           *)
(***************************************************************************)
\* A switch that is unmanaged is not polled, and keeps its last reading.
Poll(s) ==
  /\ managed[s] /\ answers[s]
  /\ current' = [current EXCEPT ![s] = level[s]]
  /\ UNCHANGED <<source, rules, managed, level, answers, state, told, held, heldOn, edits>>

\* A switch that does not answer keeps the last reading of its health; of its
\* interfaces the walk finds none, and that is the reading.
PollUnanswered(s) ==
  /\ managed[s] /\ ~answers[s]
  /\ source = "interfaces"
  /\ current' = [current EXCEPT ![s] = "none"]
  /\ UNCHANGED <<source, rules, managed, level, answers, state, told, held, heldOn, edits>>

(***************************************************************************)
(* ThresholdEvalTask.run                                                   *)
(***************************************************************************)
\* mutant: a sample without a breach leaves the state of the key alone.
BreachNeverReset(k, gap) ==
  LET st == IF state[k] = NoState THEN [age |-> 0, alerted |-> FALSE]
            ELSE [state[k] EXCEPT !.age = UpTo(@ + gap)]
  IN  IF current[k[2]] = "high"
      THEN [st EXCEPT !.alerted = @ \/ st.age >= Duration]
      ELSE IF state[k] = NoState THEN NoState ELSE st

\* mutant: the age starts again with every sample.
SinceLastSample(k, gap) ==
  LET st == IF state[k] = NoState THEN [age |-> 0, alerted |-> FALSE]
            ELSE [state[k] EXCEPT !.age = UpTo(gap)]
  IN  IF current[k[2]] = "high"
      THEN [st EXCEPT !.alerted = @ \/ st.age >= Duration] ELSE NoState

\* The new state of a key whose rule is on and whose switch has a reading: a
\* breach starts or goes on, and is alerted once it has lasted long enough;
\* without a breach the key is forgotten.
Evaluated(k, gap) ==
  LET st == IF state[k] = NoState THEN [age |-> 0, alerted |-> FALSE]
            ELSE [state[k] EXCEPT !.age = UpTo(@ + gap)]
  IN  IF current[k[2]] = "high"
      THEN [st EXCEPT !.alerted = @ \/ st.age >= Duration] ELSE NoState

\* A key that is not looked at keeps its state, and `since' with it.
Aged(k, gap) ==
  IF state[k] = NoState THEN NoState ELSE [state[k] EXCEPT !.age = UpTo(@ + gap)]

Alerted(st) == st # NoState /\ st.alerted

HeldAfter(h, s, gap) ==
  IF current[s] # "high" THEN NoState ELSE IF h = NoState THEN 0 ELSE UpTo(h + gap)

HeldThrough(h, s, gap) ==
  IF current[s] = "none" /\ h # NoState THEN UpTo(h + gap) ELSE HeldAfter(h, s, gap)

\* One run, `gap' periods after the last, and the mails about what it found.
Evaluate(gap) ==
  LET looked == {k \in Keys : rules[k[1]] = "on" /\ current[k[2]] # "none"} IN
  /\ state' = [k \in Keys |-> IF k \in looked THEN Evaluated(k, gap) ELSE Aged(k, gap)]
  /\ told' = [k \in Keys |->
       IF Alerted(state'[k]) /\ ~Alerted(state[k]) THEN "alert"
       ELSE IF Alerted(state[k]) /\ ~Alerted(state'[k]) THEN "recovered"
       ELSE told[k]]
  /\ held' = [s \in Switches |-> HeldThrough(held[s], s, gap)]
  /\ heldOn' = [k \in Keys |-> IF rules[k[1]] = "on"
                               THEN HeldAfter(heldOn[k], k[2], gap) ELSE NoState]
  /\ UNCHANGED <<source, rules, managed, level, answers, current, edits>>

(***************************************************************************)
(* The operator and the environment                                        *)
(***************************************************************************)
SetUnmanaged(s) ==
  /\ "unmanage" \in Events
  /\ managed' = [managed EXCEPT ![s] = ~@]
  /\ UNCHANGED <<source, rules, level, answers, current, state, told, held, heldOn, edits>>

LevelChanges(s) ==
  /\ level' = [level EXCEPT ![s] = IF @ = "normal" THEN "high" ELSE "normal"]
  /\ UNCHANGED <<source, rules, managed, answers, current, state, told, held, heldOn, edits>>

Silence(s) ==
  /\ "silence" \in Events
  /\ answers' = [answers EXCEPT ![s] = ~@]
  /\ UNCHANGED <<source, rules, managed, level, current, state, told, held, heldOn, edits>>

ThresholdInit ==
  /\ source \in {"interfaces", "health"}
  /\ rules = [r \in Rules |-> "absent"]
  /\ managed = [s \in Switches |-> TRUE]
  /\ level = [s \in Switches |-> "normal"]
  /\ answers = [s \in Switches |-> TRUE]
  /\ current = [s \in Switches |-> "none"]
  /\ state = [k \in Keys |-> NoState]
  /\ told = [k \in Keys |-> "none"]
  /\ held = [s \in Switches |-> NoState]
  /\ heldOn = [k \in Keys |-> NoState]
  /\ edits = [r \in Rules |-> {}]

ThresholdNext ==
  \/ \E r \in Rules : Create(r) \/ Toggle(r) \/ Remove(r)
  \/ \E s \in Switches : Poll(s) \/ PollUnanswered(s)
                          \/ SetUnmanaged(s) \/ LevelChanges(s) \/ Silence(s)
  \/ \E gap \in 1 .. MaxGap : Evaluate(gap)

ThresholdSpec == ThresholdInit /\ [][ThresholdNext]_thresholdVars

\* The scheduler starts the poll task and the evaluation at every interval; one
\* that is still running is left to finish.
ThresholdFairSpec ==
  /\ ThresholdSpec
  /\ \A s \in Switches : WF_thresholdVars(Poll(s) \/ PollUnanswered(s))
  /\ WF_thresholdVars(\E gap \in 1 .. MaxGap : Evaluate(gap))

\* A switch is reported over the threshold of a rule only if no evaluation for
\* at least its duration has seen it anywhere else.  (Those that found no reading
\* do not interrupt the breach.  A rule that was switched off
\* or deleted meanwhile goes on from what the evaluator remembers of it.)
AlertMeansSustained ==
  \A k \in Keys :
    Alerted(state[k]) /\ edits[k[1]] = {} => held[k[2]] # NoState /\ held[k[2]] >= Duration

\* A switch that has been over the threshold of a rule for its duration, while
\* the rule was on, has been mailed, and that is the last mail about it.  (One
\* created again under the name of a deleted rule may take the breach for told.)
SustainedIsTold ==
  \A k \in Keys :
    heldOn[k] # NoState /\ heldOn[k] >= Duration /\ "delete" \notin edits[k[1]]
      => told[k] = "alert"

\* A breach is mailed if and only if it has lasted for the duration of its rule.
SustainedIffTold == AlertMeansSustained /\ SustainedIsTold

\* A rule that stays on for a switch that stays polled ends up with an active
\* alert if the reading stays high, and without one if it stays normal, however
\* the rule was edited before.
InForce(r, s) == rules[r] = "on" /\ managed[s] /\ answers[s]

AlertsFollowReadings ==
  \A r \in Rules, s \in Switches :
    /\ <>[](InForce(r, s) /\ level[s] = "high") => <>[]Alerted(state[<<r, s>>])
    /\ <>[](InForce(r, s) /\ level[s] = "normal") => <>[]~Alerted(state[<<r, s>>])
===============================================================================
