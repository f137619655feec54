------------------------------ MODULE JsonStore -------------------------------
(***************************************************************************)
(* JsonStore.save step by step: a temporary file in the directory of the   *)
(* snapshot is written, flushed, fsynced and renamed over the snapshot.    *)
(* AgentState holds its lock around save, so saves do not overlap.  Any    *)
(* step may fail, the process may be killed between any two, and the power *)
(* may fail: then data that was not fsynced is torn, and the directory,    *)
(* which is never fsynced, may still point to an earlier file.             *)
(***************************************************************************)
CONSTANTS
  Payloads,     \* the snapshots AgentState may ask to persist
  NoPayload, Torn, NoFile

ASSUME StoreAssumption ==
  /\ NoPayload \notin Payloads
  /\ Torn \notin Payloads /\ Torn # NoPayload

\* A file is its data, and whether it was fsynced.
Files == [data : Payloads \union {Torn}, synced : BOOLEAN]

ASSUME NoFileAssumption == NoFile \notin Files

VARIABLES
  file,     \* the snapshot file the path names, or NoFile
  entries,  \* the files the directory on disk may name after a power failure
  tmp,      \* the temporary file of this save, or NoFile
  pc,       \* where save is
  payload   \* its argument, or NoPayload

vars == <<file, entries, tmp, pc, payload>>

\* save(payload), up to mkdir.
Save(p) ==
  /\ pc = "idle"
  /\ pc' = "mkstemp"
  /\ payload' = p
  /\ UNCHANGED <<file, entries, tmp>>

MkTemp ==
  /\ pc = "mkstemp"
  /\ tmp' = [data |-> Torn, synced |-> FALSE]
  /\ pc' = "dump"
  /\ UNCHANGED <<file, entries, payload>>

\* json.dump and flush.
Dump ==
  /\ pc = "dump"
  /\ tmp' = [tmp EXCEPT !.data = payload]
  /\ pc' = "fsync"
  /\ UNCHANGED <<file, entries, payload>>

\* mutant: the data is only flushed.
FsyncSkipped ==
  /\ pc = "fsync"
  /\ pc' = "replace"
  /\ UNCHANGED <<file, entries, tmp, payload>>

Fsync ==
  /\ pc = "fsync"
  /\ tmp' = [tmp EXCEPT !.synced = TRUE]
  /\ pc' = "replace"
  /\ UNCHANGED <<file, entries, payload>>

\* os.replace
Replace ==
  /\ pc = "replace"
  /\ file' = tmp
  /\ entries' = entries \union {tmp}
  /\ tmp' = NoFile
  /\ pc' = "idle"
  /\ payload' = NoPayload

\* Any step raises.  Once there is a temporary file it is unlinked (its name
\* is not reused if that fails too); the OSError is logged, not raised.
Fail ==
  /\ pc \in {"mkstemp", "dump", "fsync", "replace"}
  /\ tmp' = NoFile
  /\ pc' = "idle"
  /\ payload' = NoPayload
  /\ UNCHANGED <<file, entries>>

\* The process is killed and started again; its temporary file stays behind,
\* but nobody reads it.
Kill ==
  /\ tmp' = NoFile
  /\ pc' = "idle"
  /\ payload' = NoPayload
  /\ UNCHANGED <<file, entries>>

WriteBack ==
  /\ entries' = {file}
  /\ UNCHANGED <<file, tmp, pc, payload>>

AfterPowerFailure(f) ==
  IF f = NoFile \/ f.synced THEN f ELSE [data |-> Torn, synced |-> TRUE]

PowerFailure ==
  /\ \E f \in entries : file' = AfterPowerFailure(f)
  /\ entries' = {file'}
  /\ tmp' = NoFile
  /\ pc' = "idle"
  /\ payload' = NoPayload

Init ==
  /\ file = NoFile
  /\ entries = {NoFile}
  /\ tmp = NoFile
  /\ pc = "idle"
  /\ payload = NoPayload

Next ==
  \/ \E p \in Payloads : Save(p)
  \/ MkTemp
  \/ Dump
  \/ Fsync
  \/ Replace
  \/ Fail
  \/ Kill
  \/ WriteBack
  \/ PowerFailure

Spec == Init /\ [][Next]_vars

TypeOK ==
  /\ file \in Files \union {NoFile}
  /\ entries \subseteq Files \union {NoFile}
  /\ tmp \in Files \union {NoFile}
  /\ pc \in {"idle", "mkstemp", "dump", "fsync", "replace"}
  /\ payload \in Payloads \union {NoPayload}

\* load: a torn file does not parse, and counts as no snapshot.
Load(f) == IF f = NoFile THEN NoPayload ELSE f.data

\* The contract of Store.save, see SnapshotStore.
Contract == INSTANCE SnapshotStore WITH
  stored <- Load(file),
  recent <- {Load(f) : f \in entries},
  saving <- payload

ImplementsStore == Contract!Spec
===============================================================================
