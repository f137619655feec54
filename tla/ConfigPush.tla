------------------------------ MODULE ConfigPush ------------------------------
(***************************************************************************)
(* api_config_push_execute and push_to_switches: an operator's commands go *)
(* to switches of one vendor, each in a thread of a pool, over a session   *)
(* that enters the commands and then saves what is running.  Requests may  *)
(* overlap, switches restart, and the vendor of a switch is what was last  *)
(* detected.  A switch answers in text, which nobody inspects: a line or a *)
(* save that it refuses in words is as good as done to the agent, and only *)
(* an exception makes a push fail.                                         *)
(*                                                                         *)
(* A configuration is the set of the pushes all of whose commands are in   *)
(* it.                                                                     *)
(***************************************************************************)
EXTENDS Naturals, Nothing

CONSTANTS
  Pushes,     \* requests
  Targets,    \* switches
  Vendors

VARIABLES
  vendor,     \* per switch: SwitchState.vendor
  running,    \* per switch: the running configuration
  startup,    \* per switch: the one it starts with
  pushed,     \* per request: the vendor it is for
  session,    \* per request and switch: where _push_one is, and its result
  refused     \* ghost: per request and switch, that it refused a line or the save in its
              \* answer

pushVars == <<vendor, running, startup, pushed, session, refused>>

AllOfVendor(v, targets) == \A s \in targets : vendor[s] = v

\* push_to_switches: a _push_one for every switch of the request.
PushTo(targets) == [s \in Targets |-> IF s \in targets THEN "connect" ELSE "none"]

\* The request is refused unless all of its switches are of the vendor.
Execute(p, v, targets) ==
  /\ pushed[p] = None
  /\ targets # {} /\ AllOfVendor(v, targets)
  /\ pushed' = [pushed EXCEPT ![p] = v]
  /\ session' = [session EXCEPT ![p] = PushTo(targets)]
  /\ UNCHANGED <<vendor, running, startup, refused>>

Connect(p, s, ok) ==
  /\ session[p][s] = "connect"
  /\ session' = [session EXCEPT ![p][s] = IF ok THEN "send" ELSE "failed"]
  /\ UNCHANGED <<vendor, running, startup, pushed, refused>>

\* send_config_set returns what the switch said to the lines, or raises; either way
\* the switch may have taken all of them, or not.
Send(p, s, all, returns) ==
  /\ session[p][s] = "send"
  /\ running' = IF all THEN [running EXCEPT ![s] = @ \union {p}] ELSE running
  /\ session' = [session EXCEPT ![p][s] = IF returns THEN "save" ELSE "failed"]
  /\ refused' = [refused EXCEPT ![p][s] = returns /\ ~all]
  /\ UNCHANGED <<vendor, startup, pushed>>

\* mutant: the fallback's exception is swallowed as well.
SavedAnyway(first, second) == TRUE

\* _save_config: save_config, or the vendor's own command when that raises.
SaveReported(first, second) == first.returns \/ second.returns

\* What a call that saves does: whether it returns, and whether the switch has saved.
SaveCall == [returns : BOOLEAN, saves : BOOLEAN]

Save(p, s, first, second) ==
  LET calls == IF first.returns THEN {first} ELSE {first, second} IN
  /\ session[p][s] = "save"
  /\ startup' = IF \E c \in calls : c.saves
       THEN [startup EXCEPT ![s] = running[s]] ELSE startup
  /\ session' = [session EXCEPT ![p][s] = IF SaveReported(first, second) THEN "ok" ELSE "failed"]
  /\ refused' = [refused EXCEPT ![p][s] = @ \/ \E c \in calls : c.returns /\ ~c.saves]
  /\ UNCHANGED <<vendor, running, pushed>>

\* A switch restarts: what was not saved is gone, and the sessions break.
SwitchRestart(s) ==
  /\ running' = [running EXCEPT ![s] = startup[s]]
  /\ session' = [p \in Pushes |->
       [session[p] EXCEPT ![s] = IF @ \in {"send", "save"} THEN "failed" ELSE @]]
  /\ UNCHANGED <<vendor, startup, pushed, refused>>

\* The detector finds another vendor at the address.
VendorChanges(s, v) ==
  /\ vendor[s] # v
  /\ vendor' = [vendor EXCEPT ![s] = v]
  /\ UNCHANGED <<running, startup, pushed, session, refused>>

PushInit ==
  /\ vendor \in [Targets -> Vendors]
  /\ running = [s \in Targets |-> {}]
  /\ startup = running
  /\ pushed = [p \in Pushes |-> None]
  /\ session = [p \in Pushes |-> [s \in Targets |-> "none"]]
  /\ refused = [p \in Pushes |-> [s \in Targets |-> FALSE]]

PushNext ==
  \/ \E p \in Pushes, v \in Vendors, targets \in SUBSET Targets : Execute(p, v, targets)
  \/ \E p \in Pushes, s \in Targets :
       \/ \E ok \in BOOLEAN : Connect(p, s, ok)
       \/ \E all, returns \in BOOLEAN : Send(p, s, all, returns)
       \/ \E first, second \in SaveCall : Save(p, s, first, second)
  \/ \E s \in Targets : SwitchRestart(s) \/ \E v \in Vendors : VendorChanges(s, v)

PushSpec == PushInit /\ [][PushNext]_pushVars

\* What is reported as done is in the configuration the switch will start with, all of it,
\* whatever other pushes and restarts it met - unless the switch refused a line or the
\* save in the text of its answer, which is reported as done all the same.
OkIsSaved ==
  \A p \in Pushes, s \in Targets :
    session[p][s] = "ok" /\ ~refused[p][s] => p \in startup[s]
===============================================================================
