---------------------------- MODULE SnapshotStore -----------------------------
(***************************************************************************)
(* The contract of a Store backend as AgentState relies on it: a save      *)
(* replaces the whole snapshot in one step or not at all.  A process that  *)
(* dies loses nothing that was committed; a power failure may bring back   *)
(* an earlier snapshot, but always a whole one.                            *)
(***************************************************************************)
CONSTANTS Payloads, NoPayload

VARIABLES
  stored,   \* what load() returns
  recent,   \* what a power failure may leave in its place
  saving    \* the payload of the save under way, or NoPayload

snapshot == <<stored, recent, saving>>

Init ==
  /\ stored = NoPayload
  /\ recent = {NoPayload}
  /\ saving = NoPayload

Begin(p) ==
  /\ saving = NoPayload
  /\ saving' = p
  /\ UNCHANGED <<stored, recent>>

\* A backend may promise more than the contract asks for: that what is saved
\* survives a power failure at once.
Commit ==
  /\ saving # NoPayload
  /\ stored' = saving
  /\ recent' \in {recent \union {saving}, {saving}}
  /\ saving' = NoPayload

\* The save failed, or the process died during it.
Abort ==
  /\ saving' = NoPayload
  /\ UNCHANGED <<stored, recent>>

\* The operating system has written everything out.
Settle ==
  /\ recent' = {stored}
  /\ UNCHANGED <<stored, saving>>

PowerFailure ==
  /\ stored' \in recent
  /\ recent' = {stored'}
  /\ saving' = NoPayload

Next ==
  \/ \E p \in Payloads : Begin(p)
  \/ Commit
  \/ Abort
  \/ Settle
  \/ PowerFailure

Spec == Init /\ [][Next]_snapshot
===============================================================================
