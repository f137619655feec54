------------------------------- MODULE MCDevices ------------------------------
(***************************************************************************)
(* The daily schedule, what the agent and the switches do to each other,   *)
(* and what becomes of it in mails and documents: instances of nine        *)
(* modules that share no state, one of which moves in a behaviour.  A day  *)
(* has 20 minutes, with two tasks whose windows overlap in the middle and  *)
(* the scan, whose time is midnight.                                       *)
(***************************************************************************)
EXTENDS Scheduler, AlertPipeline, CxSession, TrapReceiver, ConfigPush, Firmware,
        L2Discovery, InterfacePoll, MongoStore, TLC

CONSTANTS scan, backup, arp

Times == (scan :> 0) @@ (backup :> 40) @@ (arp :> 44)

VARIABLE part

\* Variables of all parts; a part that does not move keeps one initial state.
AllVars == <<vars, pipelineVars, cxVars, trapVars, pushVars, firmwareVars, l2Vars,
             pollVars, mongoVars, part>>

AllInit ==
  /\ part \in {"schedule", "outages", "session", "traps", "push", "firmware", "layer 2",
              "counters", "documents"}
  /\ Init /\ PipelineInit /\ CxInit /\ TrapInit /\ PushInit /\ FirmwareInit
  /\ L2Init /\ PollInit /\ MongoInit
  /\ part # "schedule" => now = 0
  /\ part # "outages" => dedup = 0 /\ \A s \in Switches : wait[s] = 0
  /\ part # "session" => spoken = 1
  /\ part # "traps" => policy = "critical"
  /\ part # "push" => \A s \in Targets : vendor[s] = "cx"
  /\ part # "firmware" => \A s \in Ips, p \in Partitions : image[s][p] = Wanted

AllNext ==
  /\ UNCHANGED part
  /\ \/ part = "schedule"  /\ Next
     \/ part # "schedule"  /\ UNCHANGED vars
  /\ \/ part = "outages"   /\ PipelineNext
     \/ part # "outages"   /\ UNCHANGED pipelineVars
  /\ \/ part = "session"   /\ CxNext
     \/ part # "session"   /\ UNCHANGED cxVars
  /\ \/ part = "traps"     /\ TrapNext
     \/ part # "traps"     /\ UNCHANGED trapVars
  /\ \/ part = "push"      /\ PushNext
     \/ part # "push"      /\ UNCHANGED pushVars
  /\ \/ part = "firmware"  /\ FirmwareNext
     \/ part # "firmware"  /\ UNCHANGED firmwareVars
  /\ \/ part = "layer 2"   /\ L2Next
     \/ part # "layer 2"   /\ UNCHANGED l2Vars
  /\ \/ part = "counters"  /\ PollNext
     \/ part # "counters"  /\ UNCHANGED pollVars
  /\ \/ part = "documents" /\ MongoNext
     \/ part # "documents" /\ UNCHANGED mongoVars

AllSpec == AllInit /\ [][AllNext]_AllVars

\* The .cfg gives threads, switches, requests, runs and hosts the same two values.
Symmetry == Permutations(Clients)
===============================================================================
