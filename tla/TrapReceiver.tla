----------------------------- MODULE TrapReceiver -----------------------------
(***************************************************************************)
(* TrapReceiver, and the classification of traps it relies on: a trap is   *)
(* named, stored, and mailed if the policy says so and the same name has   *)
(* not been mailed for the same switch within alert_dedup_seconds.  One    *)
(* dispatcher thread handles the traps in turn.  A v3 trap carries the     *)
(* engine ID of its sender, which is learned from the first one that fails *)
(* to authenticate.                                                        *)
(***************************************************************************)
EXTENDS FiniteSets, Naturals

CONSTANTS
  Senders,    \* known to the state, each with an address and an engine of its own
  Policies,   \* values of alert_policy
  Dedup,      \* alert_dedup_seconds, in ticks
  MaxRecent,  \* the size from which _recent is pruned: 5000
  AddsFail    \* whether addV3User may raise

ASSUME TrapAssumption ==
  /\ Policies \subseteq {"critical", "critical+linkdown", "none"}
  /\ Dedup \in Nat \ {0}
  /\ MaxRecent \in Nat
  /\ AddsFail \in BOOLEAN

VARIABLES
  policy,
  recent,    \* _recent: per switch and name, ticks until the window ends; 0 if none
  pruned,    \* keys still held: those of _recent, lapsed ones included
  learned,   \* _learned_engines
  users,     \* engines the v3 users were registered for
  mute,      \* ghost: ticks since a mail for a key, up to Dedup
  lost,      \* ghost: v3 traps of each switch that were dropped, up to 2
  failed,    \* ghost: engines the registration has failed for
  quiet      \* ghost: a trap was kept back although none was mailed in the window

trapVars == <<policy, recent, pruned, learned, users, mute, lost, failed, quiet>>

\* What the dispatcher receives, as far as classify_trap tells traps apart: the
\* generic ones, and enterprise traps whose text hints at a fault of the hardware.
Trap(name, category, severity) == [name |-> name, category |-> category, severity |-> severity]

Traps ==
  { Trap("coldStart", "system", "warning"),
    Trap("warmStart", "system", "info"),
    Trap("linkDown", "link", "warning"),
    Trap("linkUp", "link", "info"),
    Trap("authenticationFailure", "auth", "warning"),
    Trap("enterprise-hardware", "hardware", "warning"),   \* e.g. a fan
    Trap("enterprise-hardware", "hardware", "critical"),  \* e.g. a failed PSU
    Trap("enterprise", "other", "info") }

Keys == Senders \X {t.name : t \in Traps}

\* should_alert
ShouldAlert(t) ==
  /\ policy # "none"
  /\ \/ t.category = "link" /\ policy = "critical+linkdown" /\ t.name = "linkDown"
     \/ t.category = "system" /\ t.name = "coldStart"
     \/ t.category \in {"auth", "hardware"} /\ t.severity # "info"

\* mutant: the windows of all switches are one.
WindowOfName(k) == \E s \in Senders : recent[<<s, k[2]>>] > 0

\* now - last < alert_dedup_s
InWindow(k) == recent[k] > 0

\* mutant: all but the new key are pruned.
KeptOne(held, k) == IF Cardinality(held) > MaxRecent THEN {k} ELSE held

\* _rate_ok prunes what has lapsed once there are too many keys.
Kept(held, k) ==
  IF Cardinality(held) > MaxRecent THEN {j \in held : recent[j] > 0 \/ j = k} ELSE held

\* handle_trap.  That a mail may fail makes no difference: the window is open
\* before it is sent, and send does not say.
Handle(s, t) ==
  LET k    == <<s, t.name>>
      mail == ShouldAlert(t) /\ ~InWindow(k)
      held == Kept(pruned \union {k}, k)
  IN
  /\ IF mail
     THEN /\ pruned' = held
          /\ recent' = [j \in Keys |-> IF j = k THEN Dedup ELSE IF j \in held THEN recent[j] ELSE 0]
          /\ mute' = [mute EXCEPT ![k] = 0]
     ELSE UNCHANGED <<pruned, recent, mute>>
  /\ quiet' = (quiet \/ (ShouldAlert(t) /\ ~mail /\ mute[k] >= Dedup))

\* A v2c trap of a known community, or a v3 trap that authenticates.
TrapHeard(s, t) ==
  /\ Handle(s, t)
  /\ UNCHANGED <<policy, learned, users, lost, failed>>

V3Heard(s, t) ==
  /\ s \in users
  /\ Handle(s, t)
  /\ UNCHANGED <<policy, learned, users, lost, failed>>

\* mutant: the users are registered for the receiver's own engine.
RegisterLocal(s, ok) == users

\* _register_v3_users; a failure is logged and forgotten.
Register(s, ok) == IF ok THEN users \union {s} ELSE users

\* A v3 trap that does not authenticate: _v3_learn.  The trap itself is gone.
V3Lost(s, ok) ==
  /\ s \notin users
  /\ ok \/ AddsFail
  /\ lost' = [lost EXCEPT ![s] = IF @ < 2 THEN @ + 1 ELSE 2]
  /\ IF s \in learned THEN UNCHANGED <<learned, users, failed>>
     ELSE /\ learned' = learned \union {s}
          /\ users' = Register(s, ok)
          /\ failed' = IF ok THEN failed ELSE failed \union {s}
  /\ UNCHANGED <<policy, recent, pruned, mute, quiet>>

Down(n) == IF n > 0 THEN n - 1 ELSE 0

TrapTick ==
  /\ recent' = [k \in Keys |-> Down(recent[k])]
  /\ mute' = [k \in Keys |-> IF mute[k] < Dedup THEN mute[k] + 1 ELSE Dedup]
  /\ UNCHANGED <<policy, pruned, learned, users, lost, failed, quiet>>

\* The agent is restarted: what was learned and mailed is forgotten.
TrapRestart ==
  /\ recent' = [k \in Keys |-> 0]
  /\ pruned' = {}
  /\ learned' = {} /\ users' = {}
  /\ mute' = [k \in Keys |-> Dedup]
  /\ lost' = [s \in Senders |-> 0]
  /\ failed' = {}
  /\ UNCHANGED <<policy, quiet>>

TrapInit ==
  /\ policy \in Policies
  /\ recent = [k \in Keys |-> 0]
  /\ pruned = {}
  /\ learned = {} /\ users = {}
  /\ mute = [k \in Keys |-> Dedup]
  /\ lost = [s \in Senders |-> 0]
  /\ failed = {}
  /\ quiet = FALSE

TrapNext ==
  \/ \E s \in Senders :
       \/ \E t \in Traps : TrapHeard(s, t) \/ V3Heard(s, t)
       \/ \E ok \in BOOLEAN : V3Lost(s, ok)
  \/ TrapTick
  \/ TrapRestart

TrapSpec == TrapInit /\ [][TrapNext]_trapVars

\* A trap the policy wants mailed is kept back only where the same name was mailed
\* for the same switch within the window.
NoneIsKeptBack == ~quiet

\* Two mails for a name and a switch are a window apart, also where the table of
\* windows is pruned in between: a fault that flaps does not flood the operators.
MailsAreSpaced ==
  [][\A k \in Keys : mute[k] > 0 /\ mute'[k] = 0 => mute[k] >= Dedup]_trapVars

\* _v3_learn: "learn that engine ID and register our v3 user(s) against it so
\* subsequent traps from that switch authenticate".  Only the first one is lost,
\* unless the registration failed, which is not tried again.
OnlyTheFirstIsLost == \A s \in Senders : lost[s] > 1 => s \in failed

\* A trap is mailed when it should be: the window holds back what it should and nothing
\* else, and learning an engine costs a switch one trap.
TrapsAreTold == []NoneIsKeptBack /\ []OnlyTheFirstIsLost /\ MailsAreSpaced
===============================================================================
