-------------------------------- MODULE Backup --------------------------------
(***************************************************************************)
(* BackupTask, for one device and the directory its versions are kept in.  *)
(* The nightly run and the ones triggered from the web UI do not know of   *)
(* each other.  A version is named by the second in which its run has the  *)
(* configuration, and is opened, written and given its .sha256 sidecar one *)
(* after the other; then versions are removed by the time they were last   *)
(* written, and the two newest by name are compared.                       *)
(***************************************************************************)
EXTENDS FiniteSets, FiniteSetsExt, Naturals, Nothing

CONSTANTS
  Runs,        \* runs at a time: nightly, manual
  Configs,     \* what the device may be configured with
  Retentions,  \* values of retention_days; the settings page refuses 0, config.ini may hold it
  MaxClock     \* a bound: seconds in which versions are written

ASSUME BackupAssumption ==
  /\ Retentions \subseteq Nat
  /\ MaxClock \in Nat
  /\ None \notin Configs \union Runs /\ {"nobody", "torn"} \intersect (Runs \union {None}) = {}

VARIABLES
  retention,
  second,     \* the clock
  versions,   \* [seconds -> file]: whose bytes, what they decrypt to
  later,      \* [seconds -> seconds]: the versions that were modified after this one
  sidecars,   \* [seconds -> whose bytes the digest is of]
  backup,     \* per run: its step, what it captured, the file, what it listed or removes
  unlinked,   \* the runs that write to a file another one has removed
  ever,       \* ghost: the seconds there was a version of
  caught,     \* ghost: versions modified after a run had chosen to remove them
  lastGood,   \* ghost: what the last successful run captured, while undisturbed
  good,       \* ghost: whether a run has succeeded
  overlapped, \* ghost: two runs were under way at a time
  shared,     \* ghost: two runs wrote in the same second
  disturbed,  \* ghost: that, or a run failed on the disk, or died
  wrong       \* ghost: undisturbed, a change went unreported, or a report was of none

backupVars == <<retention, second, versions, later, sidecars, backup, unlinked, ever,
                caught, lastGood, good, overlapped, shared, disturbed, wrong>>

Seconds == 1 .. MaxClock

\* Fernet is not deterministic, so the bytes of two runs always differ; a file
\* that is not written to its end, or by two runs, is torn.
NoVersion == [by |-> None, config |-> None]
Unwritten == [by |-> "nobody", config |-> None]
HalfWritten == [by |-> "torn", config |-> None]

Idle == [step |-> "idle", config |-> None, file |-> 0, listed |-> {}, ok |-> FALSE]

Versions == {s \in Seconds : versions[s] # NoVersion}
Readable(s) == versions[s].config # None

\* The n of these versions that were modified last.
Newest(S, n) == {s \in S : Cardinality(later[s] \intersect S) < n}

\* A version is modified; a run that was about to remove it will do so nevertheless.
Touch(f) ==
  /\ later' = [s \in Seconds |-> IF s = f THEN {} ELSE later[s] \union {f}]
  /\ caught' = IF \E r \in Runs : backup[r].step = "remove" /\ f \in backup[r].listed
               THEN caught \union {f} ELSE caught

Go(r, step) == backup' = [backup EXCEPT ![r].step = step]
Fails(r) == backup' = [backup EXCEPT ![r] = [Idle EXCEPT !.step = "report"]]

\* A run begins, at its time or when someone asks for it: login, save to startup,
\* and the download of what the device is configured with; any of them may fail.  Then
\* the version gets its name, before it is encrypted and opened.
Capture(r, c) ==
  /\ backup[r] = Idle
  /\ backup' = [backup EXCEPT ![r].step = IF c = None THEN "report" ELSE "open",
                              ![r].config = c,
                              ![r].file = IF c = None THEN 0 ELSE second]
  /\ LET beside == \E q \in Runs : backup[q] # Idle
     IN  /\ overlapped' = (overlapped \/ beside)
         /\ disturbed' = (disturbed \/ beside)
  /\ UNCHANGED <<retention, second, versions, later, sidecars, unlinked, ever, caught,
                 lastGood, good, shared, wrong>>

\* open(fpath, "wb") creates the version, or empties the one of the same second.
OpenFile(r) ==
  LET f == backup[r].file IN
  /\ backup[r].step = "open"
  /\ Go(r, "write")
  /\ versions' = [versions EXCEPT ![f] = Unwritten]
  /\ Touch(f)
  /\ ever' = ever \union {f}
  /\ shared' = (shared \/ f \in ever)
  /\ UNCHANGED <<retention, second, sidecars, unlinked, lastGood, good, overlapped,
                 disturbed, wrong>>

\* What a write leaves in the file: bytes of another run that has the same file open may
\* remain, and one that fails leaves nothing, or part.
Leaves(r, ok) ==
  LET there == versions[backup[r].file] IN
  IF ok THEN {[by |-> r, config |-> backup[r].config]}
             \union (IF there = Unwritten THEN {} ELSE {HalfWritten})
  ELSE {there, HalfWritten}

WriteFile(r, ok) ==
  LET f == backup[r].file IN
  /\ backup[r].step = "write"
  /\ IF ok THEN Go(r, "sidecar") ELSE Fails(r)
  /\ IF r \in unlinked THEN UNCHANGED <<versions, later, caught>>
     ELSE \E left \in Leaves(r, ok) :
            /\ versions' = [versions EXCEPT ![f] = left]
            /\ \/ Touch(f)
               \/ ~ok /\ left = versions[f] /\ UNCHANGED <<later, caught>>
  /\ unlinked' = unlinked \ {r}
  /\ disturbed' = (disturbed \/ ~ok)
  /\ UNCHANGED <<retention, second, sidecars, ever, lastGood, good,
                 overlapped, shared, wrong>>

\* mutant: the digest is of what is found on the disk.
DigestOfFile(r) == versions[backup[r].file].by

\* The digest is of the bytes in memory.
Digest(r) == r

\* The sidecar is opened and written; a failure may leave it empty.
WriteSidecar(r, ok) ==
  /\ backup[r].step = "sidecar"
  /\ IF ok THEN Go(r, "list") ELSE Fails(r)
  /\ sidecars' = [sidecars EXCEPT ![backup[r].file] = IF ok THEN Digest(r) ELSE "empty"]
  /\ disturbed' = (disturbed \/ ~ok)
  /\ UNCHANGED <<retention, second, versions, later, unlinked, ever, caught, lastGood,
                 good, overlapped, shared, wrong>>

\* _cleanup: the glob.
ListFiles(r) ==
  /\ backup[r].step = "list"
  /\ backup' = [backup EXCEPT ![r].step = "sort", ![r].file = 0, ![r].listed = Versions]
  /\ UNCHANGED <<retention, second, versions, later, sidecars, unlinked, ever, caught,
                 lastGood, good, overlapped, shared, disturbed, wrong>>

\* mutant: files[: len(files) - retention].
OldAtAll(listed) == listed \ Newest(listed, retention)

\* mutant: one too many goes.
OldByOne(listed) ==
  IF retention = 0 THEN {} ELSE listed \ Newest(listed, retention - 1)

\* files[: -retention], which is empty where retention is 0.
Old(listed) == IF retention = 0 THEN {} ELSE listed \ Newest(listed, retention)

\* _cleanup: the files are sorted by getmtime, which raises for a listed file that is
\* gone, and the run reports the device as failed.
Sort(r) ==
  LET listed == backup[r].listed
      there  == listed \subseteq Versions
      old    == IF there THEN Old(listed) ELSE {}
  IN
  /\ backup[r].step = "sort"
  /\ backup' = [backup EXCEPT ![r].step = IF old = {} THEN "report" ELSE "remove",
                              ![r].listed = old, ![r].ok = there /\ old = {}]
  /\ good' = (good \/ (there /\ old = {}))
  /\ UNCHANGED <<retention, second, versions, later, sidecars, unlinked, ever, caught,
                 lastGood, overlapped, shared, disturbed, wrong>>

\* _cleanup: the old files go one by one, each with its sidecar; one that cannot be
\* removed is passed over, but for its sidecar.
Remove(r, s, removed) ==
  LET left == backup[r].listed \ {s} IN
  /\ backup[r].step = "remove" /\ s \in backup[r].listed
  /\ backup' = [backup EXCEPT ![r].step = IF left = {} THEN "report" ELSE "remove",
                              ![r].listed = left, ![r].ok = left = {}]
  /\ versions' = IF removed THEN [versions EXCEPT ![s] = NoVersion] ELSE versions
  /\ unlinked' = IF removed
       THEN unlinked \union {q \in Runs : backup[q].step = "write" /\ backup[q].file = s}
       ELSE unlinked
  /\ sidecars' = [sidecars EXCEPT ![s] = None]
  /\ good' = (good \/ left = {})
  /\ UNCHANGED <<retention, second, later, ever, caught, lastGood, overlapped, shared,
                 disturbed, wrong>>

\* mutant: the oldest version is the one to compare with.
ChangedSinceFirst ==
  /\ Cardinality(Versions) >= 2
  /\ LET curr == Max(Versions)
         prev == Min(Versions)
     IN  Readable(curr) /\ Readable(prev) /\ versions[curr].config # versions[prev].config

\* changed_since_previous: versions are listed by name.
Changed ==
  /\ Cardinality(Versions) >= 2
  /\ LET curr == Max(Versions)
         prev == Max(Versions \ {curr})
     IN  Readable(curr) /\ Readable(prev) /\ versions[curr].config # versions[prev].config

\* The report, and for a success _alert_config_changes.
Report(r) ==
  LET b       == backup[r]
      differs == lastGood # None /\ lastGood # b.config
  IN
  /\ b.step = "report"
  /\ backup' = [backup EXCEPT ![r] = Idle]
  /\ lastGood' = IF disturbed \/ shared THEN None ELSE IF b.ok THEN b.config ELSE lastGood
  /\ wrong' = (wrong \/ (b.ok /\ ~disturbed /\ ~shared /\ Changed # differs))
  /\ UNCHANGED <<retention, second, versions, later, sidecars, unlinked, ever, caught,
                 good, overlapped, shared, disturbed>>

\* The process dies, whatever its runs do; in the middle of a write it leaves what a write
\* that fails leaves.
Die ==
  /\ \E r \in Runs : backup[r] # Idle
  /\ backup' = [r \in Runs |-> Idle]
  /\ unlinked' = {}
  /\ disturbed' = TRUE
  /\ UNCHANGED <<retention, second, versions, later, sidecars, ever, caught, lastGood,
                 good, overlapped, shared, wrong>>

SecondPasses ==
  /\ second < MaxClock
  /\ second' = second + 1
  /\ UNCHANGED <<retention, versions, later, sidecars, backup, unlinked, ever, caught,
                 lastGood, good, overlapped, shared, disturbed, wrong>>

BackupInit ==
  /\ retention \in Retentions
  /\ second \in Seconds
  /\ versions = [s \in Seconds |-> NoVersion]
  /\ later = [s \in Seconds |-> {}]
  /\ sidecars = [s \in Seconds |-> None]
  /\ backup = [r \in Runs |-> Idle]
  /\ unlinked = {}
  /\ ever = {}
  /\ caught = {}
  /\ lastGood = None
  /\ good = FALSE
  /\ overlapped = FALSE
  /\ shared = FALSE
  /\ disturbed = FALSE
  /\ wrong = FALSE

BackupNext ==
  \/ \E r \in Runs :
       \/ OpenFile(r) \/ ListFiles(r) \/ Sort(r) \/ Report(r)
       \/ \E c \in Configs \union {None} : Capture(r, c)
       \/ \E ok \in BOOLEAN : WriteFile(r, ok) \/ WriteSidecar(r, ok)
       \/ \E s \in Seconds, removed \in BOOLEAN : Remove(r, s, removed)
  \/ Die
  \/ SecondPasses

BackupSpec == BackupInit /\ [][BackupNext]_backupVars

\* verify_backups: a version without a sidecar is neither good nor bad.
VerifiesOk(s) == versions[s] # NoVersion /\ sidecars[s] # None /\ sidecars[s] = versions[s].by

\* Whatever runs side by side write to the same second, and whenever one of them
\* fails, a version that verify_backups counts as good can be read.
VerifiedIsReadable == \A s \in Seconds : VerifiesOk(s) => Readable(s)

\* However runs overlap, and list, judge and remove at different times, none removes one
\* of the `retention' versions that were modified last, and a retention of 0 keeps them
\* all.  (A version that is opened or written after another run has looked at the times,
\* and has chosen to remove it, is lost: this is all that overlapping runs can do.)
NewestAreKept ==
  (IF retention = 0 THEN ever ELSE Newest(ever, retention)) \subseteq Versions \union caught

\* Once a run has succeeded there is always a version that can be read, although
\* versions of runs that failed or died half-way count for the retention.  (Where
\* runs overlap, one that cleans up may keep what the other has only just opened.)
GoodVersionRemains ==
  good /\ ~shared /\ (retention = 0 \/ ~overlapped)
    => \E s \in Seconds : Readable(s)

\* There is a version to go back to: the newest ones are kept, one of them is complete,
\* and verify_backups is not mistaken about any.
BackupsCanBeRestored == NewestAreKept /\ GoodVersionRemains /\ VerifiedIsReadable

\* A run that succeeds reports a change exactly when what it captured is not what
\* the last successful run did - as long as two versions are kept, runs neither
\* overlap nor share a second, and none is cut short by the disk or by its end.
ChangesAreTold == retention # 1 => ~wrong
===============================================================================
