------------------------------ MODULE MongoStore ------------------------------
(***************************************************************************)
(* MongoStore.save: the snapshot of AgentState is spread over one document *)
(* per switch and one runtime document.  save upserts the switches in one  *)
(* unordered bulk write, deletes the documents of all other switches and   *)
(* then replaces the runtime document.  There is no transaction: the       *)
(* server applies documents one by one, and the connection may break or    *)
(* the process die after any of them.                                      *)
(***************************************************************************)
CONSTANTS
  Devices,      \* switch names, the _id of their documents
  Docs,         \* what a switch document may hold
  Runtimes,     \* what the runtime document may hold
  NoDoc, NoPayload

ASSUME DocAssumption == NoDoc \notin Docs \union Runtimes

\* A snapshot: the switches it has, and the runtime singletons.
Payloads == [switches : [Devices -> Docs \union {NoDoc}], runtime : Runtimes]

ASSUME PayloadAssumption == NoPayload \notin Payloads

VARIABLES
  devices,    \* the devices collection
  runtime,    \* the runtime document, or NoDoc before the first one
  pc,         \* where save is
  payload,    \* its argument, or NoPayload
  todo,       \* documents the server has still to write, or to delete
  before,     \* ghost: what load returned when this save began
  versions,   \* ghost: what each switch document should have been according to
              \* the last save that completed, and to every save since
  runtimes    \* ghost: the same for the runtime document

mongoVars == <<devices, runtime, pc, payload, todo, before, versions, runtimes>>

\* load: the documents as they are; nothing at all counts as no snapshot.
Load ==
  IF runtime = NoDoc /\ \A d \in Devices : devices[d] = NoDoc THEN NoPayload
  ELSE [switches |-> devices, runtime |-> runtime]

WantedDoc(p) == {d \in Devices : p.switches[d] # NoDoc}

\* save(payload): the bulk write is sent, unless there is no switch at all.
MongoSave(p) ==
  /\ pc = "idle"
  /\ pc' = "upsert"
  /\ payload' = p
  /\ todo' = WantedDoc(p)
  /\ before' = Load
  /\ versions' = [d \in Devices |-> versions[d] \union {p.switches[d]}]
  /\ runtimes' = runtimes \union {p.runtime}
  /\ UNCHANGED <<devices, runtime>>

Upsert(d) ==
  /\ pc = "upsert"
  /\ d \in todo
  /\ devices' = [devices EXCEPT ![d] = payload.switches[d]]
  /\ todo' = todo \ {d}
  /\ UNCHANGED <<runtime, pc, payload, before, versions,
                 runtimes>>

\* mutant: documents of switches that are gone are kept.
UpsertedKeepsGone ==
  /\ pc = "upsert"
  /\ todo = {}
  /\ pc' = "runtime"
  /\ UNCHANGED <<devices, runtime, payload, todo, before, versions,
                 runtimes>>

\* The bulk write is acknowledged; delete_many({_id: $nin names}) is sent.
Upserted ==
  /\ pc = "upsert"
  /\ todo = {}
  /\ pc' = "delete"
  /\ todo' = Devices \ WantedDoc(payload)
  /\ UNCHANGED <<devices, runtime, payload, before, versions,
                 runtimes>>

Delete(d) ==
  /\ pc = "delete"
  /\ d \in todo
  /\ devices' = [devices EXCEPT ![d] = NoDoc]
  /\ todo' = todo \ {d}
  /\ UNCHANGED <<runtime, pc, payload, before, versions,
                 runtimes>>

Deleted ==
  /\ pc = "delete"
  /\ todo = {}
  /\ pc' = "runtime"
  /\ UNCHANGED <<devices, runtime, payload, todo, before, versions,
                 runtimes>>

\* replace_one of the runtime document, with which save is over.
ReplaceRuntime ==
  /\ pc = "runtime"
  /\ runtime' = payload.runtime
  /\ pc' = "idle"
  /\ payload' = NoPayload
  /\ versions' = [d \in Devices |-> {payload.switches[d]}]
  /\ runtimes' = {payload.runtime}
  /\ before' = NoPayload
  /\ UNCHANGED <<devices, todo>>

\* The call in flight raises and the exception is logged, or the process dies:
\* what the server has applied stays.
Abandon ==
  /\ pc # "idle"
  /\ pc' = "idle"
  /\ payload' = NoPayload
  /\ todo' = {}
  /\ before' = NoPayload
  /\ UNCHANGED <<devices, runtime, versions, runtimes>>

MongoInit ==
  /\ devices = [d \in Devices |-> NoDoc]
  /\ runtime = NoDoc
  /\ pc = "idle"
  /\ payload = NoPayload
  /\ todo = {}
  /\ before = NoPayload
  /\ versions = [d \in Devices |-> {NoDoc}]
  /\ runtimes = {NoDoc}

MongoNext ==
  \/ \E p \in Payloads : MongoSave(p)
  \/ \E d \in Devices : Upsert(d) \/ Delete(d)
  \/ Upserted
  \/ Deleted
  \/ ReplaceRuntime
  \/ Abandon

MongoSpec == MongoInit /\ [][MongoNext]_mongoVars

MongoTypeOK ==
  /\ devices \in [Devices -> Docs \union {NoDoc}]
  /\ runtime \in Runtimes \union {NoDoc}
  /\ pc \in {"idle", "upsert", "delete", "runtime"}
  /\ payload \in Payloads \union {NoPayload}
  /\ todo \subseteq Devices
  /\ before \in [switches : [Devices -> Docs \union {NoDoc}],
                 runtime : Runtimes \union {NoDoc}] \union {NoPayload}
  /\ versions \in [Devices -> SUBSET (Docs \union {NoDoc})]
  /\ runtimes \subseteq Runtimes \union {NoDoc}

\* Every document is as some save since the last completed one wanted it.  So a
\* save that completes leaves exactly its payload, however the saves before it
\* ended, and no document is older than the last completed save.
DocumentsAreRecent ==
  /\ \A d \in Devices : devices[d] \in versions[d]
  /\ runtime \in runtimes

\* The contract of Store.save, see SnapshotStore.  load is only called when the
\* agent starts, so what a save leaves behind counts, not what it goes through.
Contract == INSTANCE SnapshotStore WITH
  stored <- IF pc = "idle" THEN Load ELSE before,
  recent <- {IF pc = "idle" THEN Load ELSE before},
  saving <- payload

ImplementsStore == Contract!Spec
===============================================================================
