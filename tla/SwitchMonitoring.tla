--------------------------- MODULE SwitchMonitoring ---------------------------
(***************************************************************************)
(* The reachability core of the agent: the SwitchMonitor threads, the      *)
(* SwitchMonitorManager that owns them, the switch registry of AgentState  *)
(* with its snapshot on disk, and the web handlers and the scanner that    *)
(* add, remove, mute, unmanage and delete switches while polls are in      *)
(* flight.  A poll is several steps, because the code reads the registry,  *)
(* then spends seconds on the network, then writes what it concluded.      *)
(*                                                                         *)
(* The registry is keyed by NAME, the manager's pool by HOST.              *)
(***************************************************************************)
EXTENDS Naturals, FiniteSets

CONSTANTS
  Hosts,        \* management addresses
  Names,        \* names a switch may be registered under
  IpName,       \* [Hosts -> Names]: the name sync() gives a discovered host
  ManualPairs,  \* the <<name, host>> pairs the operator may enter by hand
  ScanHosts,    \* the hosts the network scanner can discover
  Operators,    \* web request threads
  MaxSlots,     \* bound: monitor threads of one host alive at the same time
  Threshold,    \* failure_threshold
  MaxFailures,  \* bound: `failures' is not counted beyond this
  Dedup,        \* alert_dedup_seconds > 0
  Events,       \* what else this instance lets happen (see below)
  NoSwitch, NoMonitor, NoHost, NoName

ASSUME ConstantsAssumption ==
  /\ IpName \in [Hosts -> Names]
  /\ ManualPairs \subseteq Names \X Hosts
  /\ ScanHosts \subseteq Hosts
  /\ MaxSlots \in Nat \ {0}
  /\ Threshold \in Nat \ {0}
  /\ MaxFailures \in Nat /\ MaxFailures >= Threshold
  /\ Dedup \in BOOLEAN
  /\ Events \subseteq {"crash", "diskFault", "mute", "unmanage"}
  /\ NoHost \notin Hosts
  /\ NoName \notin Names

Kinds   == {"down", "restored"}
Threads == Hosts \X (1 .. MaxSlots)      \* <<h, i>>: the i-th thread for host h
HostOf(t) == t[1]

\* alerts_muted and mute_until together: "timed" has an expiry still ahead,
\* "lapsed" one that has passed but has not been cleared yet.
MuteStates == {"off", "on", "timed", "lapsed"}

SwitchState ==
  [host : Hosts, isDown : BOOLEAN, failures : 0 .. MaxFailures,
   snmpOk : BOOLEAN, mute : MuteStates, unmanaged : BOOLEAN]

ASSUME NullAssumption == NoSwitch \notin SwitchState /\ NoMonitor \notin Threads

\* mutant: the constructor forgets the address.
FreshWithoutHost(h) ==
  [host |-> NoHost, isDown |-> FALSE, failures |-> 0,
   snmpOk |-> TRUE, mute |-> "off", unmanaged |-> FALSE]

Fresh(h) ==
  [host |-> h, isDown |-> FALSE, failures |-> 0,
   snmpOk |-> TRUE, mute |-> "off", unmanaged |-> FALSE]

VARIABLES
  switches,   \* AgentState.switches: Names -> SwitchState or NoSwitch
  disk,       \* the last snapshot the store wrote
  dirty,      \* ghost: the last save failed, so the snapshot is out of date
  monitors,   \* SwitchMonitorManager._monitors: Hosts -> thread or NoMonitor
  manual,     \* ManualHostsStore: Names -> host or NoHost (always durable)
  ipList,     \* the scanner's ip_list.txt
  pc,         \* where each monitor thread is in its poll
  monName,    \* SwitchMonitor.name
  stopped,    \* SwitchMonitor._stop is set
  newFailures,\* local of _poll: sw.failures + 1, computed outside the lock
  orphan,     \* the SwitchState object _poll holds, once it left the registry
  kind,       \* the alert a thread is about to send
  hot,        \* SwitchMonitor._last_alert: kinds whose dedup window is open
  reach,      \* environment: what the probe ladder would find at a host
  deleting,   \* per web thread: the name its delete handler is working on
  stopping,   \* per web thread: the monitor remove() took out of the pool and is to stop
  hostIp,     \* per web thread: host_ip of a delete yet to look for a manual host
  beside,     \* ghost: threads started in a name while a delete of that name was under way
  streak,     \* ghost: consecutive failed polls really observed for a name
  told        \* ghost: the last alert about a name handed to the batcher

threadVars == <<pc, monName, stopped, newFailures, orphan, kind, hot>>
ghostVars  == <<streak, told>>
requestVars == <<deleting, stopping, hostIp, beside>>
vars == <<switches, disk, dirty, monitors, manual, ipList, threadVars,
          reach, requestVars, ghostVars>>

(***************************************************************************)
(* AgentState: what is written to disk, and when.                          *)
(***************************************************************************)
\* _save: the store swallows an OSError, so a save may silently not happen.
Save(s) ==
  \/ disk' = s /\ dirty' = FALSE
  \/ "diskFault" \in Events /\ dirty' = TRUE /\ UNCHANGED disk

NoSave == UNCHANGED <<disk, dirty>>
MaySave(s) == NoSave \/ Save(s)

\* mutant: a status flip is not saved.
UpdateSwitchUnsaved(n, r) ==
  /\ switches' = IF switches[n] = NoSwitch THEN switches
                 ELSE [switches EXCEPT ![n] = r]
  /\ NoSave

\* mutant: an entry that is down is not updated any more.
UpdateSwitchOnceDown(n, r) ==
  IF switches[n] = NoSwitch \/ switches[n].isDown
  THEN UNCHANGED switches /\ NoSave
  ELSE switches' = [switches EXCEPT ![n] = r] /\ Save(switches')

\* update_switch: a no-op for an unknown name; saved only when is_down flips.
UpdateSwitch(n, r) ==
  IF switches[n] = NoSwitch
  THEN UNCHANGED switches /\ NoSave
  ELSE /\ switches' = [switches EXCEPT ![n] = r]
       /\ IF r.isDown # switches[n].isDown THEN Save(switches') ELSE NoSave

\* mutant: a known name gets a fresh entry too.
RegisterSwitchAnew(n, h) ==
  /\ switches' = [switches EXCEPT ![n] = Fresh(h)]
  /\ Save(switches')
  /\ UNCHANGED ghostVars

\* register_switch: a known name keeps its old entry, old host included; only
\* the monitor mode (not modelled) is refreshed, and saved if it changed.
RegisterSwitch(n, h) ==
  IF switches[n] = NoSwitch
  THEN /\ switches' = [switches EXCEPT ![n] = Fresh(h)]
       /\ Save(switches')
       /\ streak' = [streak EXCEPT ![n] = 0]
       /\ told' = [told EXCEPT ![n] = "none"]
  ELSE /\ UNCHANGED <<switches, ghostVars>>
       /\ MaySave(switches)

\* The SwitchState object the thread got from its second lookup.
HeldSwitch(t) ==
  IF orphan[t] # NoSwitch THEN orphan[t] ELSE switches[monName[t]]

\* remove_switch: threads holding the entry keep the object they hold.
RemoveSwitch(n) ==
  /\ switches' = [switches EXCEPT ![n] = NoSwitch]
  /\ Save(switches')
  /\ orphan' = [t \in Threads |->
       IF /\ pc[t] \in {"okCheck", "fail"} /\ monName[t] = n
          /\ orphan[t] = NoSwitch
       THEN switches[n] ELSE orphan[t]]
  /\ streak' = [streak EXCEPT ![n] = 0]
  /\ told' = [told EXCEPT ![n] = "none"]

(***************************************************************************)
(* SwitchMonitorManager                                                    *)
(***************************************************************************)
\* SwitchMonitor's constructor registers the name; the thread that start() runs
\* begins with a random initial wait.
StartMonitor(h, n) ==
  \E i \in 1 .. MaxSlots :
    LET t == <<h, i>> IN
    /\ pc[t] = "none"
    /\ RegisterSwitch(n, h)
    /\ monitors' = [monitors EXCEPT ![h] = t]
    /\ pc' = [pc EXCEPT ![t] = "idle"]
    /\ monName' = [monName EXCEPT ![t] = n]
    /\ stopped' = [stopped EXCEPT ![t] = FALSE]
    /\ hot' = [hot EXCEPT ![t] = {}]
    /\ beside' = IF \E o \in Operators : deleting[o] = n THEN beside \union {t} ELSE beside \ {t}
    /\ UNCHANGED <<newFailures, orphan, kind>>

\* mutant: add without the check that the host is monitored already.
ManagerAddAgain(h, n) == StartMonitor(h, n)

\* add: no-op if the host is already monitored.
ManagerAdd(h, n) ==
  IF monitors[h] # NoMonitor
  THEN UNCHANGED <<switches, disk, dirty, monitors, threadVars, beside, ghostVars>>
  ELSE StartMonitor(h, n)

\* remove, under the lock: the manager forgets the monitor.
ManagerPop(o, h) ==
  /\ monitors' = [monitors EXCEPT ![h] = NoMonitor]
  /\ stopping' = [stopping EXCEPT ![o] = monitors[h]]

\* mutant: remove only forgets the monitor.
StopNothing(o) == UNCHANGED stopped

\* stop: only the event is set; a poll that is already running is not interrupted.
StopMonitor(o) == stopped' = [stopped EXCEPT ![stopping[o]] = TRUE]

\* remove, after the lock is released: stop what was taken out of the pool.
Stop(o) ==
  /\ stopping[o] # NoMonitor
  /\ StopMonitor(o)
  /\ stopping' = [stopping EXCEPT ![o] = NoMonitor]
  /\ UNCHANGED <<switches, disk, dirty, monitors, manual, ipList, pc, monName,
                 newFailures, orphan, kind, hot, reach, deleting, hostIp, beside, ghostVars>>

(***************************************************************************)
(* One poll cycle of a monitor thread.                                     *)
(***************************************************************************)
Goto(t, label) == pc' = [pc EXCEPT ![t] = label]

\* The loop condition after a wait: a stopped monitor's thread ends.
Exit(t) ==
  /\ pc[t] = "idle" /\ stopped[t]
  /\ Goto(t, "none")
  /\ monName' = [monName EXCEPT ![t] = IpName[HostOf(t)]]
  /\ stopped' = [stopped EXCEPT ![t] = FALSE]
  /\ hot' = [hot EXCEPT ![t] = {}]
  /\ beside' = beside \ {t}
  /\ UNCHANGED <<switches, disk, dirty, monitors, manual, ipList, newFailures,
                 orphan, kind, reach, deleting, stopping, hostIp, ghostVars>>

\* First lookup: an unmanaged switch is not polled; an unknown one is.
Dispatch(t) ==
  /\ pc[t] = "idle" /\ ~stopped[t]
  /\ switches[monName[t]] # NoSwitch => ~switches[monName[t]].unmanaged
  /\ Goto(t, "probe")
  /\ UNCHANGED <<switches, disk, dirty, monitors, manual, ipList, monName,
                 stopped, newFailures, orphan, kind, hot, reach, requestVars,
                 ghostVars>>

\* Second lookup, after the probe: the switch was deleted meanwhile.
ProbeGone(t) ==
  /\ pc[t] = "probe"
  /\ switches[monName[t]] = NoSwitch
  /\ Goto(t, "idle")
  /\ UNCHANGED <<switches, disk, dirty, monitors, manual, ipList, monName,
                 stopped, newFailures, orphan, kind, hot, reach, requestVars,
                 ghostVars>>

\* mutant: a successful poll does not reset the failure count.
AnsweredKeepsCount(n, h) == [switches[n] EXCEPT !.snmpOk = (reach[h] = "snmp")]

Answered(n, h) ==
  [switches[n] EXCEPT !.failures = 0, !.snmpOk = (reach[h] = "snmp")]

\* The ladder answered UP, by SNMP or by its ICMP + SSH fallback: failures is
\* reset and SNMP health recorded (saved on a flip); the lazily resolved OS
\* version, not modelled, may cause one more save.
ProbeOk(t) ==
  LET n == monName[t] IN
  /\ pc[t] = "probe"
  /\ switches[n] # NoSwitch
  /\ reach[HostOf(t)] # "none"
  /\ switches' = [switches EXCEPT ![n] = Answered(n, HostOf(t))]
  /\ IF switches'[n].snmpOk # switches[n].snmpOk
     THEN Save(switches') ELSE MaySave(switches')
  /\ streak' = [streak EXCEPT ![n] = 0]
  /\ Goto(t, "okCheck")
  /\ UNCHANGED <<monitors, manual, ipList, monName, stopped, newFailures,
                 orphan, kind, hot, reach, requestVars, told>>

\* `if sw.is_down': clear it, save, and go on to the RESTORED alert.
OkCheck(t) ==
  LET n == monName[t] IN
  /\ pc[t] = "okCheck"
  /\ IF HeldSwitch(t).isDown
     THEN /\ UpdateSwitch(n, [switches[n] EXCEPT !.isDown = FALSE])
          /\ kind' = [kind EXCEPT ![t] = "restored"]
          /\ Goto(t, "alert")
     ELSE /\ UNCHANGED <<switches, disk, dirty, kind>>
          /\ Goto(t, "idle")
  /\ orphan' = [orphan EXCEPT ![t] = NoSwitch]
  /\ UNCHANGED <<monitors, manual, ipList, monName, stopped, newFailures, hot,
                 reach, requestVars, ghostVars>>

Bump(f) == IF f < MaxFailures THEN f + 1 ELSE f

\* The ladder answered DOWN: sw.failures is read without the lock.
ProbeFail(t) ==
  LET n == monName[t] IN
  /\ pc[t] = "probe"
  /\ switches[n] # NoSwitch
  /\ reach[HostOf(t)] = "none"
  /\ newFailures' = [newFailures EXCEPT ![t] = Bump(switches[n].failures)]
  /\ streak' = [streak EXCEPT ![n] = Bump(@)]
  /\ Goto(t, "fail")
  /\ UNCHANGED <<switches, disk, dirty, monitors, manual, ipList, monName,
                 stopped, orphan, kind, hot, reach, requestVars, told>>

\* mutant: a switch that is down already goes down again.
GoesDownAgain(t) == newFailures[t] >= Threshold

GoesDown(t) == newFailures[t] >= Threshold /\ ~HeldSwitch(t).isDown

\* Store the new count; at the threshold mark the switch down, save, and go on
\* to the DOWN alert.
FailWrite(t) ==
  LET n == monName[t] IN
  /\ pc[t] = "fail"
  /\ UpdateSwitch(n, [switches[n] EXCEPT !.failures = newFailures[t],
                                         !.isDown = @ \/ GoesDown(t)])
  /\ kind' = IF GoesDown(t) THEN [kind EXCEPT ![t] = "down"] ELSE kind
  /\ Goto(t, IF GoesDown(t) THEN "alert" ELSE "idle")
  /\ newFailures' = [newFailures EXCEPT ![t] = 0]
  /\ orphan' = [orphan EXCEPT ![t] = NoSwitch]
  /\ UNCHANGED <<monitors, manual, ipList, monName, stopped, hot, reach,
                 requestVars, ghostVars>>

\* alerts_suppressed: a lapsed mute is cleared, saved, and does not suppress.
Suppressed(n) == switches[n] # NoSwitch /\ switches[n].mute \in {"on", "timed"}

ClearLapsedMute(n) ==
  IF switches[n] # NoSwitch /\ switches[n].mute = "lapsed"
  THEN /\ switches' = [switches EXCEPT ![n] = [@ EXCEPT !.mute = "off"]]
       /\ Save(switches')
  ELSE UNCHANGED <<switches, disk, dirty>>

\* _maybe_send_alert up to the hand-over: the mute, then the dedup window of
\* this kind, which is refreshed on send and on suppress alike.
DecideAlert(t) ==
  LET n == monName[t] IN
  /\ pc[t] = "alert"
  /\ ClearLapsedMute(n)
  /\ IF Suppressed(n)
     THEN Goto(t, "idle") /\ UNCHANGED hot
     ELSE /\ Goto(t, IF Dedup /\ kind[t] \in hot[t] THEN "idle" ELSE "mail")
          /\ hot' = IF Dedup THEN [hot EXCEPT ![t] = @ \union {kind[t]}] ELSE hot
  /\ UNCHANGED <<monitors, manual, ipList, monName, stopped, newFailures,
                 orphan, kind, reach, requestVars, ghostVars>>

\* The event is handed to the alert batcher (or the notifier).
HandOver(t) ==
  /\ pc[t] = "mail"
  /\ told' = [told EXCEPT ![monName[t]] = kind[t]]
  /\ Goto(t, "idle")
  /\ UNCHANGED <<switches, disk, dirty, monitors, manual, ipList, monName,
                 stopped, newFailures, orphan, kind, hot, reach, requestVars,
                 streak>>

\* alert_dedup_seconds passed since the last alert of this kind.
DedupExpires(t, k) ==
  /\ k \in hot[t]
  /\ hot' = [hot EXCEPT ![t] = @ \ {k}]
  /\ UNCHANGED <<switches, disk, dirty, monitors, manual, ipList, pc, monName,
                 stopped, newFailures, orphan, kind, reach, requestVars,
                 ghostVars>>

(***************************************************************************)
(* The scanner and the web handlers.                                       *)
(***************************************************************************)
\* A scan lists the host in ip_list.txt, and sync() adds its monitor.
Discover(h) ==
  /\ h \in ScanHosts
  /\ ipList' = ipList \union {h}
  /\ ManagerAdd(h, IpName[h])
  /\ UNCHANGED <<manual, reach, deleting, stopping, hostIp>>

\* A later scan no longer lists the host; its monitor is left alone.
ScanLoses(h) ==
  /\ h \in ipList
  /\ ipList' = ipList \ {h}
  /\ UNCHANGED <<switches, disk, dirty, monitors, manual, threadVars, reach,
                 requestVars, ghostVars>>

\* A request thread that is not in the middle of one.
Free(o) == deleting[o] = NoName /\ stopping[o] = NoMonitor

ManualAdd(o, n, h) ==
  /\ Free(o)
  /\ <<n, h>> \in ManualPairs
  /\ manual[n] = NoHost
  /\ manual' = [manual EXCEPT ![n] = h]
  /\ ManagerAdd(h, n)
  /\ UNCHANGED <<ipList, reach, deleting, stopping, hostIp>>

\* Removing a manual host stops its monitor and leaves its SwitchState.
ManualRemove(o, n) ==
  /\ Free(o)
  /\ manual[n] # NoHost
  /\ manual' = [manual EXCEPT ![n] = NoHost]
  /\ ManagerPop(o, manual[n])
  /\ UNCHANGED <<switches, disk, dirty, ipList, threadVars, reach, deleting,
                 hostIp, beside, ghostVars>>

\* api_delete_switch: the host the registry has for this name leaves the pool, ...
DeleteBegin(o, n) ==
  /\ Free(o)
  /\ switches[n] # NoSwitch
  /\ ManagerPop(o, switches[n].host)
  /\ deleting' = [deleting EXCEPT ![o] = n]
  /\ hostIp' = [hostIp EXCEPT ![o] = switches[n].host]
  /\ UNCHANGED <<switches, disk, dirty, manual, ipList, threadVars, reach, beside,
                 ghostVars>>

\* ... once its monitor has been told to stop, the first manual entry with that host or
\* name is dropped, ...
DeleteManual(o) ==
  LET matches == {m \in Names : manual[m] # NoHost /\ (manual[m] = hostIp[o] \/ m = deleting[o])}
  IN
  /\ hostIp[o] # NoHost /\ stopping[o] = NoMonitor
  /\ IF matches = {} THEN UNCHANGED manual
     ELSE \E m \in matches : manual' = [manual EXCEPT ![m] = NoHost]
  /\ hostIp' = [hostIp EXCEPT ![o] = NoHost]
  /\ UNCHANGED <<switches, disk, dirty, monitors, ipList, threadVars, reach, deleting,
                 stopping, beside, ghostVars>>

\* ... and then the SwitchState (404 if somebody else already did).
DeleteEnd(o) ==
  LET n == deleting[o] IN
  /\ n # NoName /\ hostIp[o] = NoHost
  /\ IF switches[n] = NoSwitch
     THEN UNCHANGED <<switches, disk, dirty, orphan, ghostVars>>
     ELSE RemoveSwitch(n)
  /\ deleting' = [deleting EXCEPT ![o] = NoName]
  /\ UNCHANGED <<monitors, manual, ipList, pc, monName, stopped, newFailures,
                 kind, hot, reach, stopping, hostIp, beside>>

\* set_alert_mute with and without an expiry, and unmute.
SetMute(o, n, m) ==
  /\ "mute" \in Events
  /\ Free(o)
  /\ switches[n] # NoSwitch
  /\ m \in {"off", "on", "timed"}
  /\ switches' = [switches EXCEPT ![n] = [@ EXCEPT !.mute = m]]
  /\ Save(switches')
  /\ UNCHANGED <<monitors, manual, ipList, threadVars, reach, requestVars,
                 ghostVars>>

\* mute_until passes.  It is an absolute time, so it passes on disk as well.
MuteLapses(n) ==
  LET Lapse(s) == IF s[n] # NoSwitch /\ s[n].mute = "timed"
                  THEN [s EXCEPT ![n] = [@ EXCEPT !.mute = "lapsed"]] ELSE s
  IN
  /\ switches[n] # NoSwitch /\ switches[n].mute = "timed"
  /\ switches' = Lapse(switches)
  /\ disk' = Lapse(disk)
  /\ UNCHANGED <<dirty, monitors, manual, ipList, threadVars, reach, requestVars,
                 ghostVars>>

SetUnmanaged(o, n, b) ==
  /\ "unmanage" \in Events
  /\ Free(o)
  /\ switches[n] # NoSwitch
  /\ switches' = [switches EXCEPT ![n] = [@ EXCEPT !.unmanaged = b]]
  /\ Save(switches')
  /\ UNCHANGED <<monitors, manual, ipList, threadVars, reach, requestVars,
                 ghostVars>>

(***************************************************************************)
(* The environment: reachability changes, and the process dies.            *)
(***************************************************************************)
ReachChanges(h, r) ==
  /\ reach[h] # r
  /\ reach' = [reach EXCEPT ![h] = r]
  /\ UNCHANGED <<switches, disk, dirty, monitors, manual, ipList, threadVars,
                 requestVars, ghostVars>>

\* start_all, then the manual hosts: each host of ip_list.txt is monitored under
\* its IpName, and every other host entered by hand under (one of) its names.
SeedsBoot(seed) ==
  \A h \in Hosts :
    IF h \in ipList THEN seed[h] = IpName[h]
    ELSE IF \E m \in Names : manual[m] = h
         THEN seed[h] # NoName /\ manual[seed[h]] = h
         ELSE seed[h] = NoName

Seeded(seed)   == {h \in Hosts : seed[h] # NoName}
NewNames(seed) == {n \in Names : disk[n] = NoSwitch
                                 /\ \E h \in Seeded(seed) : seed[h] = n}

\* The process dies and is started again: AgentState is rehydrated from the
\* snapshot, and the names it does not have are registered.
Boot(seed) ==
  LET first(t) == t[2] = 1 /\ HostOf(t) \in Seeded(seed) IN
  /\ SeedsBoot(seed)
  /\ \E home \in [NewNames(seed) -> Hosts] :
       /\ \A n \in NewNames(seed) : seed[home[n]] = n
       /\ switches' = [n \in Names |->
            IF n \in NewNames(seed) THEN Fresh(home[n]) ELSE disk[n]]
  /\ IF NewNames(seed) = {} THEN disk' = disk /\ dirty' = FALSE
     ELSE Save(switches')
  /\ monitors' = [h \in Hosts |-> IF h \in Seeded(seed) THEN <<h, 1>> ELSE NoMonitor]
  /\ pc' = [t \in Threads |-> IF first(t) THEN "idle" ELSE "none"]
  /\ monName' = [t \in Threads |->
       IF first(t) THEN seed[HostOf(t)] ELSE IpName[HostOf(t)]]
  /\ stopped' = [t \in Threads |-> FALSE]
  /\ newFailures' = [t \in Threads |-> 0]
  /\ orphan' = [t \in Threads |-> NoSwitch]
  /\ kind' = [t \in Threads |-> "down"]
  /\ hot' = [t \in Threads |-> {}]
  /\ deleting' = [o \in Operators |-> NoName]
  /\ stopping' = [o \in Operators |-> NoMonitor]
  /\ hostIp' = [o \in Operators |-> NoHost]
  /\ beside' = {}
  /\ streak' = [n \in Names |-> IF disk[n] = NoSwitch THEN 0 ELSE streak[n]]
  /\ told' = [n \in Names |-> IF disk[n] = NoSwitch THEN "none" ELSE told[n]]
  /\ UNCHANGED <<manual, ipList, reach>>

Restart ==
  /\ "crash" \in Events
  /\ \E seed \in [Hosts -> Names \union {NoName}] : Boot(seed)

(***************************************************************************)
(* Specification                                                           *)
(***************************************************************************)
Init ==
  /\ switches = [n \in Names |-> NoSwitch]
  /\ disk = [n \in Names |-> NoSwitch]
  /\ dirty = FALSE
  /\ monitors = [h \in Hosts |-> NoMonitor]
  /\ manual = [n \in Names |-> NoHost]
  /\ ipList = {}
  /\ pc = [t \in Threads |-> "none"]
  /\ monName = [t \in Threads |-> IpName[HostOf(t)]]
  /\ stopped = [t \in Threads |-> FALSE]
  /\ newFailures = [t \in Threads |-> 0]
  /\ orphan = [t \in Threads |-> NoSwitch]
  /\ kind = [t \in Threads |-> "down"]
  /\ hot = [t \in Threads |-> {}]
  /\ reach = [h \in Hosts |-> "snmp"]
  /\ deleting = [o \in Operators |-> NoName]
  /\ stopping = [o \in Operators |-> NoMonitor]
  /\ hostIp = [o \in Operators |-> NoHost]
  /\ beside = {}
  /\ streak = [n \in Names |-> 0]
  /\ told = [n \in Names |-> "none"]

PollStep(t) ==
  \/ Exit(t)
  \/ Dispatch(t)
  \/ ProbeGone(t)
  \/ ProbeOk(t)
  \/ OkCheck(t)
  \/ ProbeFail(t)
  \/ FailWrite(t)
  \/ DecideAlert(t)
  \/ HandOver(t)

Next ==
  \/ \E t \in Threads : PollStep(t)
  \/ \E t \in Threads, k \in Kinds : DedupExpires(t, k)
  \/ \E h \in Hosts : Discover(h) \/ ScanLoses(h)
  \/ \E o \in Operators, n \in Names, h \in Hosts : ManualAdd(o, n, h)
  \/ \E o \in Operators, n \in Names : ManualRemove(o, n) \/ DeleteBegin(o, n)
  \/ \E o \in Operators : Stop(o) \/ DeleteManual(o) \/ DeleteEnd(o)
  \/ \E o \in Operators, n \in Names, m \in MuteStates : SetMute(o, n, m)
  \/ \E n \in Names : MuteLapses(n)
  \/ \E o \in Operators, n \in Names, b \in BOOLEAN : SetUnmanaged(o, n, b)
  \/ \E h \in Hosts, r \in {"snmp", "ssh", "none"} : ReachChanges(h, r)
  \/ Restart

Spec == Init /\ [][Next]_vars

\* Every monitor thread keeps running: it is never blocked for good, since a
\* probe has timeouts and the locks it takes are held for short sections.
FairSpec == Spec /\ \A t \in Threads : WF_vars(PollStep(t))

(***************************************************************************)
(* Properties                                                              *)
(***************************************************************************)
TypeOK ==
  /\ switches \in [Names -> SwitchState \union {NoSwitch}]
  /\ disk \in [Names -> SwitchState \union {NoSwitch}]
  /\ dirty \in BOOLEAN
  /\ monitors \in [Hosts -> Threads \union {NoMonitor}]
  /\ manual \in [Names -> Hosts \union {NoHost}]
  /\ ipList \subseteq Hosts
  /\ pc \in [Threads -> {"none", "idle", "probe", "okCheck", "fail", "alert",
                         "mail"}]
  /\ monName \in [Threads -> Names]
  /\ stopped \in [Threads -> BOOLEAN]
  /\ newFailures \in [Threads -> 0 .. MaxFailures]
  /\ orphan \in [Threads -> SwitchState \union {NoSwitch}]
  /\ kind \in [Threads -> Kinds]
  /\ hot \in [Threads -> SUBSET Kinds]
  /\ reach \in [Hosts -> {"snmp", "ssh", "none"}]
  /\ deleting \in [Operators -> Names \union {NoName}]
  /\ stopping \in [Operators -> Threads \union {NoMonitor}]
  /\ hostIp \in [Operators -> Hosts \union {NoHost}]
  /\ beside \subseteq Threads
  /\ streak \in [Names -> 0 .. MaxFailures]
  /\ told \in [Names -> Kinds \union {"none"}]

Alive(t) == pc[t] # "none" /\ ~stopped[t]

\* A remove has taken the thread out of the pool, and is about to stop it.
Stopping(t) == \E o \in Operators : stopping[o] = t

\* A monitor that has not been told to stop is the one the manager holds for its host, or
\* one that one request, which took it out of the pool, is about to stop.  So two monitors
\* of a host are under way only between the two halves of a remove, and none is left that
\* nothing can stop.
ManagerOwnsPollers ==
  /\ \A h \in Hosts : monitors[h] # NoMonitor => HostOf(monitors[h]) = h
  /\ \A t \in Threads : Alive(t) <=> monitors[HostOf(t)] = t \/ Stopping(t)
  /\ \A o \in Operators : stopping[o] # NoMonitor =>
       /\ monitors[HostOf(stopping[o])] # stopping[o]
       /\ \A p \in Operators \ {o} : stopping[p] # stopping[o]

\* The failure count is the one thing that changes without being saved.
Durable(s) == IF s = NoSwitch THEN s ELSE [s EXCEPT !.failures = 0]

\* Unless the last write failed, the snapshot has exactly the registered
\* switches, each with its current status, mute, unmanage flag and SNMP health:
\* a restart at any moment brings these back as the operator left them.
SnapshotIsCurrent ==
  ~dirty => \A n \in Names : Durable(disk[n]) = Durable(switches[n])

\* A switch is marked down only after Threshold polls in a row failed.
DownNeedsConsecutiveFailures ==
  [][\A n \in Names :
       /\ switches[n] # NoSwitch /\ ~switches[n].isDown
       /\ switches'[n] # NoSwitch /\ switches'[n].isDown
       => streak[n] >= Threshold]_vars

Quiet(n) == \A t \in Threads : monName[t] = n => pc[t] \in {"none", "idle"}

\* When no poll of a switch is under way, the last alert handed over about it
\* tells its status: the operator is never left with the wrong last word.
LastAlertTellsStatus ==
  \A n \in Names :
    switches[n] # NoSwitch /\ Quiet(n)
      => (switches[n].isDown <=> told[n] = "down")

\* A DOWN alert is never handed over twice without a RESTORED in between.
AlertsAlternate ==
  \A t \in Threads : pc[t] = "mail" /\ kind[t] = "down" => told[monName[t]] # "down"

\* What operators hear about a switch is its story: DOWN and RESTORED take turns, and
\* the last of them is how things are, also when the switch is deleted in the middle of a
\* poll and added again after it.  It is said of one thread per name: a switch that is added
\* again while the monitor of its former life still polls has two, and their alerts need
\* not tell its status.
AlertsTellStatus == AlertsAlternate /\ LastAlertTellsStatus

\* No alert is decided for a switch that is unmanaged.
UnmanagedIsSilent ==
  [][\A t \in Threads :
       pc[t] = "alert" /\ pc'[t] = "mail" /\ switches[monName[t]] # NoSwitch
         => ~switches[monName[t]].unmanaged]_vars

\* Once a switch is deleted, no monitor goes on polling in its name, but one that another
\* request is about to stop, and one that was started in that name, by a scan or by another
\* operator, while the delete was under way.
PollersHaveAState ==
  \A t \in Threads :
    Alive(t) => Stopping(t) \/ t \in beside \/ switches[monName[t]] # NoSwitch

\* A monitored, managed switch that stays unreachable ends up marked down, and
\* one that stays reachable ends up marked up.
Watched(h, n) ==
  /\ monitors[h] # NoMonitor /\ monName[monitors[h]] = n
  /\ switches[n] # NoSwitch /\ ~switches[n].unmanaged

StatusFollowsReachability ==
  \A h \in Hosts, n \in Names :
    /\ <>[](Watched(h, n) /\ reach[h] = "none") => <>[](switches[n] # NoSwitch /\ switches[n].isDown)
    /\ <>[](Watched(h, n) /\ reach[h] # "none") => <>[](switches[n] # NoSwitch /\ ~switches[n].isDown)
===============================================================================
