-------------------------------- MODULE MCFiles -------------------------------
(***************************************************************************)
(* What the agent keeps in files: instances of four modules that share no  *)
(* state, one of which moves in a behaviour.  Where two versions are kept, *)
(* the clock has three seconds left, and two otherwise.                    *)
(***************************************************************************)
EXTENDS JsonStore, Backup, Scanner, ManualHosts, TLC

VARIABLE part

AllInit ==
  /\ part \in {"json", "backup", "scanner", "manual"}
  /\ Init /\ BackupInit /\ ScannerInit /\ ManualInit
  /\ part # "backup" => retention = 1
  /\ second = IF retention = 2 THEN 1 ELSE 2

\* bound: the changes of manual hosts that fail or meet another are of one name, between
\* two starts.
MishapsAreOfOne == \E n \in Names, h \in Hosts : excused' \subseteq {n, h}

AllNext ==
  /\ UNCHANGED part
  /\ \/ /\ part = "json" /\ Next
        /\ UNCHANGED <<backupVars, scannerVars, manualVars>>
     \/ /\ part = "backup" /\ BackupNext
        /\ UNCHANGED <<vars, scannerVars, manualVars>>
     \/ /\ part = "scanner" /\ ScannerNext
        /\ UNCHANGED <<vars, backupVars, manualVars>>
     \/ /\ part = "manual" /\ ManualNext /\ MishapsAreOfOne
        /\ UNCHANGED <<vars, backupVars, scannerVars>>

AllSpec == AllInit /\ [][AllNext]_<<vars, backupVars, scannerVars, manualVars, part>>

\* The .cfg gives runs, scans and operators the same values, and configurations,
\* addresses and names as well, so that the group has four permutations only.
Symmetry == Permutations(Runs) \union Permutations(Configs)
===============================================================================
