------------------------------- MODULE Firmware -------------------------------
(***************************************************************************)
(* FirmwareUpdater.run: the status of every switch is read in a first      *)
(* phase, and the image is uploaded in a second one, for as long as 15     *)
(* minutes per switch, on the strength of that status.  Switches restart   *)
(* in between, and someone may run the updater twice.                      *)
(***************************************************************************)
EXTENDS Naturals, Nothing

CONSTANTS
  Runs,       \* processes running the updater
  Ips,        \* addresses of the switches
  Versions,   \* what may be on a partition, the target version among them
  Wanted,     \* target_version
  Longer      \* versions whose text contains that of the target

ASSUME FirmwareAssumption == Wanted \in Versions /\ Longer \subseteq Versions

Partitions == {"primary", "secondary"}
Other(partition) == IF partition = "primary" THEN "secondary" ELSE "primary"

VARIABLES
  image,      \* per switch and partition: the version on it
  booted,     \* per switch: the partition it runs from
  item,       \* per run and switch: the status of phase 1, or None
  state,      \* per run and switch: where it is, and its result
  phase,      \* per run
  moved,      \* ghost: per run and switch, it was restarted since its status was read
  spoiled     \* ghost: switches whose running partition was written to, unwarned

firmwareVars == <<image, booted, item, state, phase, moved, spoiled>>

\* _check_status
CheckStatus(r, s, answers) ==
  /\ phase[r] = 1
  /\ state[r][s] = "unknown"
  /\ item' = [item EXCEPT ![r][s] =
       IF answers THEN [image |-> image[s], booted |-> booted[s]] ELSE None]
  /\ state' = [state EXCEPT ![r][s] = "checked"]
  /\ moved' = [moved EXCEPT ![r][s] = FALSE]
  /\ UNCHANGED <<image, booted, phase, spoiled>>

BeginUploads(r) ==
  /\ phase[r] = 1
  /\ \A s \in Ips : state[r][s] = "checked"
  /\ phase' = [phase EXCEPT ![r] = 2]
  /\ UNCHANGED <<image, booted, item, state, moved, spoiled>>

\* The target version is looked for in the text of the other.
Has(status) == \E p \in Partitions : status.image[p] \in Longer \union {Wanted}

\* mutant: the image goes where the switch runs from.
UploadToBooted(status) == status.booted

UploadTo(status) == Other(status.booted)

\* mutant: any answer will do.
AnswerAccepts(answer) == answer # "lost"

Accepts(answer) == answer = "2xx"

\* _upload, up to the end of the transfer.  The answer may be an error, or lost with
\* the image written.
Upload(r, s, written, answer) ==
  LET status == item[r][s] IN
  /\ phase[r] = 2
  /\ state[r][s] = "checked"
  /\ answer = "2xx" => written
  /\ IF status = None
     THEN /\ state' = [state EXCEPT ![r][s] = "FAILED"]
          /\ UNCHANGED <<image, spoiled>>
     ELSE IF Has(status)
     THEN /\ state' = [state EXCEPT ![r][s] = "SKIPPED"]
          /\ UNCHANGED <<image, spoiled>>
     ELSE /\ image' = IF written THEN [image EXCEPT ![s][UploadTo(status)] = Wanted] ELSE image
          /\ spoiled' = IF written /\ UploadTo(status) = booted[s] /\ ~moved[r][s]
                        THEN spoiled \union {s} ELSE spoiled
          /\ state' = [state EXCEPT ![r][s] = IF Accepts(answer) THEN "UPDATED" ELSE "FAILED"]
  /\ UNCHANGED <<booted, item, phase, moved>>

\* A switch is restarted, from either partition.
Boot(s, partition) ==
  /\ booted' = [booted EXCEPT ![s] = partition]
  /\ moved' = [r \in Runs |-> [moved[r] EXCEPT ![s] = TRUE]]
  /\ UNCHANGED <<image, item, state, phase, spoiled>>

FirmwareInit ==
  /\ image \in [Ips -> [Partitions -> Versions]]
  /\ booted = [s \in Ips |-> "primary"]
  /\ item = [r \in Runs |-> [s \in Ips |-> None]]
  /\ state = [r \in Runs |-> [s \in Ips |-> "unknown"]]
  /\ phase = [r \in Runs |-> 1]
  /\ moved = [r \in Runs |-> [s \in Ips |-> FALSE]]
  /\ spoiled = {}

FirmwareNext ==
  \/ \E r \in Runs, s \in Ips, b \in BOOLEAN :
       \/ CheckStatus(r, s, b)
       \/ \E answer \in {"2xx", "error", "lost"} : Upload(r, s, b, answer)
  \/ \E r \in Runs : BeginUploads(r)
  \/ \E s \in Ips, p \in Partitions : Boot(s, p)

FirmwareSpec == FirmwareInit /\ [][FirmwareNext]_firmwareVars

\* The partition a switch runs from is not written to, unless it was restarted from the
\* other one after its status was read.
RunningImageIsLeftAlone == spoiled = {}

\* What is counted as updated or skipped has the image, skipped ones by its name.
ResultIsTrue ==
  \A r \in Runs, s \in Ips :
    /\ state[r][s] = "UPDATED" => \E p \in Partitions : image[s][p] = Wanted
    /\ state[r][s] = "SKIPPED" => \E p \in Partitions : image[s][p] \in Longer \union {Wanted}

\* An update can be trusted in what it writes and in what it reports.
UpdateIsSafe == RunningImageIsLeftAlone /\ ResultIsTrue
===============================================================================
