----------------------------- MODULE SubnetHealth -----------------------------
(***************************************************************************)
(* SubnetHealthTask.run: the distribution switches are asked for their ARP *)
(* tables one after the other, which takes seconds to minutes, and the     *)
(* addresses of all answers are counted per subnet.  Clients roam from one *)
(* switch to the other in the meantime, come and go; a switch may fail to  *)
(* answer.  Runs share nothing, so one is modelled.                        *)
(***************************************************************************)
EXTENDS Naturals, FiniteSets, Sequences

CONSTANTS
  Distros,    \* the sequence of switches in [subnet_health] distros
  Subnets,    \* configured, and not on the ignore list
  Clients,    \* addresses that may turn up in an ARP table
  Home,       \* [Clients -> Subnets \union {"elsewhere"}]
  Low, High   \* the watermarks, in addresses

AllDistros == {Distros[i] : i \in 1 .. Len(Distros)}

ASSUME SubnetHealthAssumption ==
  /\ Distros \in Seq(AllDistros)
  /\ IsFiniteSet(Clients)
  /\ Home \in [Clients -> Subnets \union {"elsewhere"}]
  /\ Low \in Nat /\ High \in Nat /\ Low <= High

VARIABLES
  arp,       \* environment: per client, the switches that have an entry for it
  asked,     \* how many switches this run has asked; all of them between two runs
  active,    \* addresses in the answers of this run
  failures,  \* entries of the sequence that did not answer
  steady,    \* ghost: clients some switch has had an entry for all through the run
  seen,      \* ghost: clients any switch has had one for during the run
  mail       \* what this run has mailed in the end

healthVars == <<arp, asked, active, failures, steady, seen, mail>>

Mail(kind, low, high, noted) == [kind |-> kind, low |-> low, high |-> high, noted |-> noted]

Begin ==
  /\ Distros # <<>> /\ Subnets # {}
  /\ asked = Len(Distros)
  /\ asked' = 0
  /\ active' = {}
  /\ failures' = {}
  /\ steady' = {c \in Clients : arp[c] # {}}
  /\ seen' = steady'
  /\ mail' = Mail("running", {}, {}, FALSE)
  /\ UNCHANGED arp

\* mutant: the addresses of the last answer only.
LastAnswer(d) == {c \in Clients : d \in arp[c]}

Collected(d) == active \union {c \in Clients : d \in arp[c]}

\* mutant: no fail-safe.
ReportOf(ips, failed, low, high) ==
  Mail(IF low = {} /\ high = {} THEN "quiet" ELSE "alert", low, high, failed # {})

\* run, after the collection: without any address it reports that and no subnet, and
\* where all is well it says nothing, not even which switches failed.
Report(ips, failed, low, high) ==
  IF ips = {} THEN Mail("failed", {}, {}, TRUE)
  ELSE Mail(IF low = {} /\ high = {} THEN "quiet" ELSE "alert", low, high, failed # {})

In(ips, s) == Cardinality({c \in ips : Home[c] = s})

\* evaluate
LowIn(ips)  == {s \in Subnets : In(ips, s) < Low}
HighIn(ips) == {s \in Subnets : In(ips, s) > High}

\* _collect_active_ips goes on to the next switch, or run evaluates what came.  (That a
\* switch answers with the text of an error, which counts as an answer, is left out.)
Ask(answers) ==
  LET d      == Distros[asked + 1]
      ips    == IF answers THEN Collected(d) ELSE active
      failed == IF answers THEN failures ELSE failures \union {asked + 1}
  IN
  /\ asked < Len(Distros)
  /\ asked' = asked + 1
  /\ active' = ips
  /\ failures' = failed
  /\ mail' = IF asked' = Len(Distros) THEN Report(ips, failed, LowIn(ips), HighIn(ips)) ELSE mail
  /\ UNCHANGED <<arp, steady, seen>>

\* A client turns up at a switch, or its entry there ages out.
Learn(c, d) ==
  /\ d \notin arp[c]
  /\ arp' = [arp EXCEPT ![c] = @ \union {d}]
  /\ seen' = IF asked < Len(Distros) THEN seen \union {c} ELSE seen
  /\ UNCHANGED <<asked, active, failures, steady, mail>>

Forget(c, d) ==
  /\ d \in arp[c]
  /\ arp' = [arp EXCEPT ![c] = @ \ {d}]
  /\ steady' = IF asked < Len(Distros) THEN steady \ {c} ELSE steady
  /\ UNCHANGED <<asked, active, failures, seen, mail>>

HealthInit ==
  /\ arp = [c \in Clients |-> {}]
  /\ asked = Len(Distros)
  /\ active = {} /\ failures = {} /\ steady = {} /\ seen = {}
  /\ mail = Mail("running", {}, {}, FALSE)

HealthNext ==
  \/ Begin
  \/ \E answers \in BOOLEAN : Ask(answers)
  \/ \E c \in Clients, d \in AllDistros : Learn(c, d) \/ Forget(c, d)

HealthSpec == HealthInit /\ [][HealthNext]_healthVars

\* A subnet is reported LOW only if it is, by the clients that were there all through
\* the run, or if the mail says which switch did not answer, and then another did:
\* "so a collection failure can't masquerade as a fleet-wide outage".
LowIsRealOrNoted ==
  \A s \in mail.low :
    In(steady, s) < Low \/ (mail.noted /\ failures # 1 .. Len(Distros))

\* One is reported HIGH only if so many clients turned up; and a run that says nothing
\* has hidden no subnet below the one watermark, nor, with all switches answering, one
\* above the other.
NothingIsHidden ==
  /\ \A s \in mail.high : In(seen, s) > High
  /\ mail.kind = "quiet" =>
       \A s \in Subnets : In(seen, s) >= Low /\ (failures = {} => In(steady, s) <= High)

\* The report never cries wolf over a switch it could not read, and never keeps quiet
\* about a subnet that is too empty or too full.
ReportIsHonest == LowIsRealOrNoted /\ NothingIsHidden
===============================================================================
