------------------------------ MODULE ManualHosts -----------------------------
(***************************************************************************)
(* ManualHostsStore, and what the web handlers and start-up do with it:    *)
(* the store is changed under its lock, memory first and then the file,    *)
(* and the monitor and the live mode of the switch are changed after it,   *)
(* without a lock.  ConfigTemplateStore and ThresholdStore are kept in the *)
(* same way, with nothing live behind them.                                *)
(***************************************************************************)
EXTENDS Naturals, Nothing

CONSTANTS
  Names, Hosts,   \* manual hosts and addresses
  Modes,          \* monitor modes, "auto" among them
  Listed,         \* the addresses in the scanner's ip_list
  Operators       \* requests handled at a time

ASSUME ManualHostsAssumption ==
  /\ Listed \subseteq Hosts
  /\ "auto" \in Modes
  /\ None \notin Names \union Hosts \union Modes \union [host : Hosts, mode : Modes]

VARIABLES
  hosts,      \* _hosts
  hostsFile,  \* manual_hosts.json
  live,       \* per name: monitor_mode of the switch; of an address it stays "auto"
  monitor,    \* _monitors: per address, the name it is watched under
  op,         \* per operator: the request being handled, after the store was changed
  crossed,    \* ghost: addresses entered unsaved, or while another request was removing them
  excused,    \* ghost: names and addresses with a change that was not saved, or met another
  twice       \* ghost: addresses two names have had at the same time

manualVars == <<hosts, hostsFile, live, monitor, op, crossed, excused, twice>>

NoRequest == [step |-> "idle", name |-> None, host |-> None, mode |-> None]

Busy(n) == \E o \in Operators : op[o].step # "idle" /\ op[o].name = n
Entering(h) == \E o \in Operators : op[o].step = "watch" /\ op[o].host = h
Met(o, n, h) == \E p \in Operators \ {o} : op[p].name = n \/ op[p].host = h
At(store, h) == {n \in Names : store[n] # None /\ store[n].host = h}
Shared(store) == {h \in Hosts : \E m \in At(store, h) : At(store, h) # {m}}

\* Another request is about to remove the host of this address, and to stop its monitor.
Removed(o, h) ==
  \E p \in Operators \ {o} : op[p].step \in {"remove", "unwatch"} /\ op[p].host = h

\* What _save makes of a change that is in memory already; it raises when the disk
\* does not take the file, and the handler ends there.
Change(o, n, entry, saved, next) ==
  /\ hosts' = [hosts EXCEPT ![n] = entry]
  /\ hostsFile' = IF saved THEN hosts' ELSE hostsFile
  /\ op' = [op EXCEPT ![o] = IF saved THEN next ELSE NoRequest]
  /\ excused' = IF saved /\ ~Met(o, n, next.host) THEN excused ELSE excused \union {n, next.host}
  /\ twice' = twice \union Shared(hosts')

\* SwitchMonitorManager.add; the new poller registers the switch.
Watch(h, n, m) ==
  IF monitor[h] # None THEN UNCHANGED <<monitor, live>>
  ELSE /\ monitor' = [monitor EXCEPT ![h] = n]
       /\ live' = IF n \in Names THEN [live EXCEPT ![n] = m] ELSE live

\* settings_manual_hosts_add: the store, then the manager.
AddStore(o, n, h, m, saved) ==
  /\ op[o] = NoRequest
  /\ hosts[n] = None
  /\ Change(o, n, [host |-> h, mode |-> m], saved,
            [step |-> "watch", name |-> n, host |-> h, mode |-> m])
  /\ crossed' = IF saved /\ ~Removed(o, h) THEN crossed ELSE crossed \union {h}
  /\ UNCHANGED <<live, monitor>>

AddMonitor(o) ==
  /\ op[o].step = "watch"
  /\ Watch(op[o].host, op[o].name, op[o].mode)
  /\ op' = [op EXCEPT ![o] = NoRequest]
  /\ UNCHANGED <<hosts, hostsFile, crossed, excused, twice>>

\* settings_manual_hosts_update: the store, then the live switch.
UpdateStore(o, n, m, saved) ==
  /\ op[o] = NoRequest
  /\ hosts[n] # None
  /\ Change(o, n, [hosts[n] EXCEPT !.mode = m], saved,
            [step |-> "live", name |-> n, host |-> hosts[n].host, mode |-> m])
  /\ UNCHANGED <<live, monitor, crossed>>

\* mutant: the live switch keeps its mode until the next start.
LiveModeLater(n, m) == live

LiveMode(n, m) == IF live[n] = None THEN live ELSE [live EXCEPT ![n] = m]

UpdateLive(o) ==
  /\ op[o].step = "live"
  /\ live' = LiveMode(op[o].name, op[o].mode)
  /\ op' = [op EXCEPT ![o] = NoRequest]
  /\ UNCHANGED <<hosts, hostsFile, monitor, crossed, excused, twice>>

\* settings_manual_hosts_remove: the address is looked up, the entry removed, the
\* monitor of the address stopped.
RemoveLookup(o, n) ==
  /\ op[o] = NoRequest
  /\ hosts[n] # None
  /\ op' = [op EXCEPT ![o] =
       [step |-> "remove", name |-> n, host |-> hosts[n].host, mode |-> None]]
  /\ excused' = IF Met(o, n, hosts[n].host) THEN excused \union {n, hosts[n].host} ELSE excused
  /\ UNCHANGED <<hosts, hostsFile, live, monitor, crossed, twice>>

RemoveStore(o, saved) ==
  LET n == op[o].name IN
  /\ op[o].step = "remove"
  /\ IF hosts[n] = None
     THEN /\ op' = [op EXCEPT ![o] = NoRequest]
          /\ UNCHANGED <<hosts, hostsFile, excused, twice>>
     ELSE Change(o, n, None, saved, [op[o] EXCEPT !.step = "unwatch"])
  /\ UNCHANGED <<live, monitor, crossed>>

RemoveMonitor(o) ==
  /\ op[o].step = "unwatch"
  /\ monitor' = [monitor EXCEPT ![op[o].host] = None]
  /\ op' = [op EXCEPT ![o] = NoRequest]
  /\ UNCHANGED <<hosts, hostsFile, live, crossed, excused, twice>>

\* The scanner's sync.
Sync ==
  /\ \E h \in Listed : monitor[h] = None /\ Watch(h, h, "auto")
  /\ UNCHANGED <<hosts, hostsFile, op, crossed, excused, twice>>

\* mutant: only the ip_list is watched after a start.
SeedListed(h, store) == IF h \in Listed THEN {h} ELSE {None}

\* Who an address is watched for after a start: the ip_list goes first, and of two
\* names the one that comes first in the file.
Seed(h, store) ==
  IF h \in Listed THEN {h} ELSE IF At(store, h) = {} THEN {None} ELSE At(store, h)

\* The mode a switch is registered in by the pollers of these addresses, the last of
\* which decides; without one it keeps the mode of the snapshot.
SeededModes(n, store, polled) ==
  IF polled = {} THEN {live[n]}
  ELSE {IF h \in Listed THEN "auto" ELSE store[n].mode : h \in polled}

\* _load: a file that cannot be read counts as empty, and the next save replaces it.
Loaded(readable) == IF readable THEN hostsFile ELSE [n \in Names |-> None]

\* The agent stops, at any time, and comes up again.
ManualRestart(readable) ==
  /\ hosts' = Loaded(readable)
  /\ monitor' \in [Hosts -> Names \union Hosts \union {None}]
  /\ \A h \in Hosts : monitor'[h] \in Seed(h, Loaded(readable))
  /\ live' \in [Names -> Modes \union {None}]
  /\ \A n \in Names : live'[n] \in SeededModes(n, Loaded(readable), {h \in Hosts : monitor'[h] = n})
  /\ op' = [o \in Operators |-> NoRequest]
  /\ crossed' = {}
  /\ excused' = {}
  /\ twice' = Shared(hosts')
  /\ UNCHANGED hostsFile

ManualInit ==
  /\ hosts = [n \in Names |-> None]
  /\ hostsFile = hosts
  /\ live = [n \in Names |-> None]
  /\ monitor = [h \in Hosts |-> None]
  /\ op = [o \in Operators |-> NoRequest]
  /\ crossed = {}
  /\ excused = {}
  /\ twice = {}

ManualNext ==
  \/ \E o \in Operators, n \in Names, m \in Modes, saved \in BOOLEAN :
       \/ \E h \in Hosts : AddStore(o, n, h, m, saved)
       \/ UpdateStore(o, n, m, saved)
  \/ \E o \in Operators, n \in Names : RemoveLookup(o, n)
  \/ \E o \in Operators, saved \in BOOLEAN : RemoveStore(o, saved)
  \/ \E o \in Operators : AddMonitor(o) \/ UpdateLive(o) \/ RemoveMonitor(o)
  \/ Sync
  \/ \E readable \in BOOLEAN : ManualRestart(readable)

ManualSpec == ManualInit /\ [][ManualNext]_manualVars

\* A host that was entered by hand is watched once its request has been through, before
\* and after a restart, whatever requests meet and whatever is not saved - but for an
\* address that is entered twice (and one of the two removed), and for one that is
\* entered with a save that fails, or while another request is removing it: the
\* monitor that is stopped last, or never started, is then missing until the next start.
ManualHostsAreWatched ==
  \A n \in Names :
    /\ hosts[n] # None /\ ~Entering(hosts[n].host)
    /\ hosts[n].host \notin twice \union crossed
    => monitor[hosts[n].host] # None

\* It is watched under its name and polled in the mode that the operator chose, unless
\* the scanner lists its address too, or an address that is its name: whoever is first,
\* or last, then decides on the mode.  (`excused': a change of the name or the address
\* that was not saved, or that met another request for either, may leave the switch in
\* the other's mode, or under the other's name, until the next start.)
ChosenModeIsUsed ==
  \A n \in Names :
    /\ hosts[n] # None /\ ~Busy(n) /\ {n, hosts[n].host} \intersect excused = {}
    /\ hosts[n].host \notin twice \union Listed
    => monitor[hosts[n].host] = n /\ (n \notin Listed => live[n] = hosts[n].mode)

\* What the operator entered by hand is what the agent does.
ManualHostsAreHonoured == ManualHostsAreWatched /\ ChosenModeIsUsed
===============================================================================
