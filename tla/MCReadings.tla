------------------------------ MODULE MCReadings ------------------------------
(***************************************************************************)
(* From the readings to the mails: the sweeps that read the switches, the  *)
(* evaluation of what they read, the nightly check of the wireless subnets *)
(* and the batching of events into mails.  Instances of four modules that  *)
(* share no state, one of which moves in a behaviour.                      *)
(***************************************************************************)
EXTENDS AlertBatcher, ThresholdAlerting, Sweeps, SubnetHealth, TLC

CONSTANTS a1, a2, b1, far, d1, d2, r1, t1, t2, t3

\* Two switches, three clients in two subnets, and an address that is in neither.
TwoDistros == <<"distro 1", "distro 2">>
HomeOf == (a1 :> "A") @@ (a2 :> "A") @@ (b1 :> "B") @@ (far :> "elsewhere")

\* Two switches go down, one comes back.
KindOfAlert == (d1 :> "down") @@ (d2 :> "down") @@ (r1 :> "restored")

VARIABLE part

AllVars == <<vars, thresholdVars, sweepVars, healthVars, part>>

\* A step of one of the parts.
OfBatcher(A)    == part = "batcher" /\ A /\ UNCHANGED <<thresholdVars, sweepVars, healthVars, part>>
OfThresholds(A) == part = "thresholds" /\ A /\ UNCHANGED <<vars, sweepVars, healthVars, part>>
OfSweeps(A)     == part = "sweeps" /\ A /\ UNCHANGED <<vars, thresholdVars, healthVars, part>>
OfHealth(A)     == part = "health" /\ A /\ UNCHANGED <<vars, thresholdVars, sweepVars, part>>

AllInit ==
  /\ part \in {"batcher", "thresholds", "sweeps", "health"}
  /\ Init /\ ThresholdInit /\ SweepsInit /\ HealthInit
  /\ part # "batcher" => batching /\ \A t \in Timers : timerKind[t] = "down"
  /\ part # "thresholds" => source = "health"
  /\ part # "sweeps" => task = "l2"

AllNext ==
  OfBatcher(Next) \/ OfThresholds(ThresholdNext) \/ OfSweeps(SweepsNext) \/ OfHealth(HealthNext)

\* The fairness of the modules, for the part that moves.
AllSpec ==
  /\ AllInit /\ [][AllNext]_AllVars
  /\ \A t \in Timers : WF_AllVars(OfBatcher(TimerStep(t)))
  /\ \A f \in Flushers : WF_AllVars(OfBatcher(FlusherStep(f)))
  /\ \A c \in Callers : WF_AllVars(OfBatcher(SendNow(c)))
  /\ \A s \in Switches : WF_AllVars(OfThresholds(Poll(s) \/ PollUnanswered(s)))
  /\ WF_AllVars(OfThresholds(\E gap \in 1 .. MaxGap : Evaluate(gap)))
  /\ WF_AllVars(OfSweeps(AnyFire))
  /\ SF_AllVars(OfSweeps(AnySelect))
  /\ WF_AllVars(OfSweeps(SweepStep \/ \E w \in Workers : AnswerLost(w)))

\* Where the sweeps move, they come to their end again and again, with every
\* device asked.
SweepsEnd == part = "sweeps" => SweepsGoOn
===============================================================================
