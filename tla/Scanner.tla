-------------------------------- MODULE Scanner -------------------------------
(***************************************************************************)
(* NetworkScannerTask.run, fired by the daily scheduler and by the web UI, *)
(* each time in a thread of its own and with no guard between them.  The   *)
(* device CSV and the ip_list are opened for writing, which empties them,  *)
(* and written after that; other threads, and a restart, may come between. *)
(***************************************************************************)
EXTENDS FiniteSets, Naturals

CONSTANTS
  Ips,         \* addresses of the configured subnets
  Scans,       \* threads that may be in run() at a time
  GuardFrom,   \* the coverage guard looks at lists of this length and more: 10
  DropPct      \* coverage_drop_alert_pct

ASSUME ScannerAssumption ==
  IsFiniteSet(Ips) /\ GuardFrom \in Nat \ {0} /\ DropPct \in 1 .. 100

VARIABLES
  csv, list,    \* device_file, ip_list_output: the addresses in them
  inventory,    \* state.device_inventory
  registered,   \* hosts of state.switches
  scan,         \* per thread: where it is in run(), and what it holds
  told,         \* ghost: addresses a mail was tried for
  kept,         \* ghost: the ip_list as last written by a scan that was alone
  alone         \* ghost: no scan has met another, or was cut short while it wrote the
                \* list, since

scannerVars == <<csv, list, inventory, registered, scan, told, kept, alone>>

Out == [step |-> "out", existing |-> {}, current |-> {}, hits |-> {}]

Proceed(t, step) == scan' = [scan EXCEPT ![t].step = step]

\* _load_existing, which sees what is in the file at the moment.
BeginScan(t) ==
  /\ scan[t].step = "out"
  /\ scan' = [scan EXCEPT ![t] = [Out EXCEPT !.step = "sweep", !.existing = csv]]
  /\ alone' = (alone /\ \A u \in Scans : scan[u].step = "out")
  /\ UNCHANGED <<csv, list, inventory, registered, told, kept>>

\* mutant: what the last scan has seen, and this one not.
DiffGone(current, existing) == existing \ current

\* _diff_new and _known_monitored_ips
DiffNew(current, existing) == current \ (existing \union registered \union inventory)

\* _scan, and the mail about what is new; a mail that is not accepted is not repeated.
SweepSubnets(t) ==
  /\ scan[t].step = "sweep"
  /\ \E current \in SUBSET Ips :
       /\ scan' = [scan EXCEPT ![t].step = "empty csv", ![t].current = current]
       /\ told' = told \union DiffNew(current, scan[t].existing)
  /\ UNCHANGED <<csv, list, inventory, registered, kept, alone>>

\* What open("w") leaves, and what is in the file after the write: the tail of what
\* another thread wrote in the meantime may stick out.
Written(content, mine) == {mine \union tail : tail \in SUBSET content}

\* _save_devices
EmptyCsv(t) ==
  /\ scan[t].step = "empty csv"
  /\ csv' = {}
  /\ Proceed(t, "fill csv")
  /\ UNCHANGED <<list, inventory, registered, told, kept, alone>>

FillCsv(t) ==
  /\ scan[t].step = "fill csv"
  /\ csv' \in Written(csv, scan[t].current)
  /\ Proceed(t, "select")
  /\ UNCHANGED <<list, inventory, registered, told, kept, alone>>

Drops(old, new) == old >= GuardFrom /\ new * 100 < old * (100 - DropPct)

\* mutant: the list is counted when it has been opened for writing.
PrevCountLate == 0

PrevCount == Cardinality(list)

\* _write_ip_list: the keyword matches and the hosts that answer as AOS-CX switches,
\* held against the list that is there.  The guard reads that list a second time.
Select(t) ==
  /\ scan[t].step = "select"
  /\ \E hits \in SUBSET scan[t].current :
       IF Drops(PrevCount, Cardinality(hits))
       THEN scan' = [scan EXCEPT ![t].step = "read back"]
       ELSE scan' = [scan EXCEPT ![t].step = "empty list", ![t].hits = hits]
  /\ UNCHANGED <<csv, list, inventory, registered, told, kept, alone>>

ReadBack(t) ==
  /\ scan[t].step = "read back"
  /\ scan' = [scan EXCEPT ![t].step = "register", ![t].hits = list]
  /\ UNCHANGED <<csv, list, inventory, registered, told, kept, alone>>

EmptyList(t) ==
  /\ scan[t].step = "empty list"
  /\ list' = {}
  /\ Proceed(t, "fill list")
  /\ UNCHANGED <<csv, inventory, registered, told, kept, alone>>

FillList(t) ==
  /\ scan[t].step = "fill list"
  /\ list' \in Written(list, scan[t].hits)
  /\ kept' = list'
  /\ alone' = (alone \/ \A u \in Scans \ {t} : scan[u].step = "out")
  /\ Proceed(t, "register")
  /\ UNCHANGED <<csv, inventory, registered, told>>

\* monitor_manager.sync registers a switch for each address, and the inventory is set.
RegisterAll(t) ==
  /\ scan[t].step = "register"
  /\ registered' = registered \union scan[t].hits
  /\ inventory' = scan[t].current
  /\ scan' = [scan EXCEPT ![t] = Out]
  /\ UNCHANGED <<csv, list, told, kept, alone>>

\* A host is deleted in the web UI.
DeleteHost(ip) ==
  /\ ip \in registered
  /\ registered' = registered \ {ip}
  /\ UNCHANGED <<csv, list, inventory, scan, told, kept, alone>>

\* The agent stops, at any time, and comes up again; main watches what is listed.
ScannerRestart ==
  /\ registered' = registered \union list
  /\ scan' = [t \in Scans |-> Out]
  /\ alone' = (alone /\ \A t \in Scans : scan[t].step # "fill list")
  /\ UNCHANGED <<csv, list, inventory, told, kept>>

ScannerInit ==
  /\ csv = {} /\ list = {} /\ inventory = {} /\ registered = {}
  /\ scan = [t \in Scans |-> Out]
  /\ told = {} /\ kept = {}
  /\ alone = TRUE

ScannerNext ==
  \/ \E t \in Scans :
       \/ BeginScan(t) \/ SweepSubnets(t) \/ EmptyCsv(t) \/ FillCsv(t)
       \/ Select(t) \/ ReadBack(t) \/ EmptyList(t) \/ FillList(t) \/ RegisterAll(t)
  \/ \E ip \in Ips : DeleteHost(ip)
  \/ ScannerRestart

ScannerSpec == ScannerInit /\ [][ScannerNext]_scannerVars

\* No device gets into the list, the inventory or the monitor without a mail about it,
\* whatever scans meet, are cut short or read half a file.
NewDevicesAreTold == csv \union list \union inventory \union registered \subseteq told

\* The list that monitoring and backups live on does not collapse from one scan to the
\* next, as long as no scan meets another one or is cut short while it writes it.
CoverageDoesNotCollapse ==
  [][alone /\ kept' # kept => ~Drops(Cardinality(kept), Cardinality(kept'))]_scannerVars
===============================================================================
